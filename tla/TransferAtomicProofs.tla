------------------------ MODULE TransferAtomicProofs ------------------------
(***************************************************************************)
(* Proofs about TransferAtomic, for any number of threads and blocks: the  *)
(* chain behind the head and the batches of the threads are disjoint       *)
(* paths (Shape), every link is accessed in order, and the list implements *)
(* TransferExchange.                                                       *)
(***************************************************************************)
EXTENDS TransferAtomic, DataInduction, FiniteSetTheorems, TLAPS

\* The i-th element, or Null behind the last one.
At(s, i) == IF i \in 1..Len(s) THEN s[i] ELSE Null

\* Blocks without repetition.
IsPath(s) == s \in Seq(Node) /\ \A i, k \in 1..Len(s) : s[i] = s[k] => i = k

\* The chain from first on consists of the blocks in s.
Chain(next, first, s) ==
    /\ IsPath(s)
    /\ first = At(s, 1)
    /\ \A i \in 1..Len(s) : next[s[i]] = At(s, i + 1)

-----------------------------------------------------------------------------
(***************************************************************************)
(* What Steps and Contents compute.                                        *)
(***************************************************************************)

\* at follows the links from first on.
IsSteps(at, next, first, n) ==
    at = [k \in 1..n |-> IF k = 1 THEN first
                         ELSE IF at[k - 1] = Null THEN Null ELSE next[at[k - 1]]]

\* The links determine where they lead.
LEMMA StepsUnique ==
    ASSUME NEW next, NEW first, NEW n \in Nat, NEW f, NEW g,
           IsSteps(f, next, first, n), IsSteps(g, next, first, n)
    PROVE  f = g
<1> DEFINE S == {k \in Nat : k + 1 <= n => f[k + 1] = g[k + 1]}
<1>1. 0 \in S
  <2>1. ASSUME 0 + 1 <= n PROVE f[1] = first /\ g[1] = first
    <3>1. 1 \in 1..n
      BY <2>1
    <3> QED BY <3>1 DEF IsSteps
  <2> QED BY <2>1
<1>2. ASSUME NEW k \in S PROVE k + 1 \in S
  <2>1. CASE k + 2 <= n
    <3>1. k + 2 \in 1..n /\ k + 2 # 1 /\ (k + 2) - 1 = k + 1 /\ k + 1 <= n
      BY <2>1
    <3>2. f[k + 2] = IF f[k + 1] = Null THEN Null ELSE next[f[k + 1]]
      BY <3>1 DEF IsSteps
    <3>3. g[k + 2] = IF g[k + 1] = Null THEN Null ELSE next[g[k + 1]]
      BY <3>1 DEF IsSteps
    <3>4. f[k + 1] = g[k + 1]
      BY <3>1
    <3>5. f[k + 2] = g[k + 2]
      BY <3>2, <3>3, <3>4
    <3>6. (k + 1) + 1 = k + 2 /\ k + 1 \in Nat
      OBVIOUS
    <3> QED BY <3>5, <3>6
  <2> QED BY <2>1
<1>3. S = Nat
  <2>1. S \in SUBSET Nat
    OBVIOUS
  <2> HIDE DEF S
  <2> QED BY <1>1, <1>2, <2>1, SetInduction
<1>4. ASSUME NEW k \in 1..n PROVE f[k] = g[k]
  <2>1. k - 1 \in Nat /\ (k - 1) + 1 = k /\ k <= n
    OBVIOUS
  <2>2. k - 1 \in S
    BY <1>3, <2>1
  <2> QED BY <2>1, <2>2
<1> DEFINE F(h) == [k \in 1..n |-> IF k = 1 THEN first
                         ELSE IF h[k - 1] = Null THEN Null ELSE next[h[k - 1]]]
<1>5. f = F(f) /\ g = F(g)
  BY DEF IsSteps
<1>6. f = [k \in 1..n |-> f[k]] /\ g = [k \in 1..n |-> g[k]]
  BY <1>5
<1> QED BY <1>4, <1>6

\* So Steps is any function that follows them.
LEMMA StepsAre ==
    ASSUME NEW next, NEW first, NEW n \in Nat, NEW f, IsSteps(f, next, first, n)
    PROVE  Steps(next, first, n) = f
<1> DEFINE c == CHOOSE at : IsSteps(at, next, first, n)
<1>1. Steps(next, first, n) = c
  BY DEF Steps, IsSteps
<1>2. IsSteps(c, next, first, n)
  OBVIOUS
<1> HIDE DEF c
<1> QED BY <1>1, <1>2, StepsUnique

Prefix(s, n) == [k \in 1..n |-> s[k]]

\* Steps within a path follow it, whatever its last block is linked to.
LEMMA StepsOfPath ==
    ASSUME NEW next, NEW s, IsPath(s), NEW n \in 0..Len(s),
           \A i \in 1..(Len(s) - 1) : next[s[i]] = s[i + 1]
    PROVE  Steps(next, At(s, 1), n) = Prefix(s, n)
<1> DEFINE f == [k \in 1..n |-> s[k]]
<1>0. s \in Seq(Node) /\ Len(s) \in Nat /\ Null \notin Node
  BY NodeAssumption DEF IsPath
<1>1. ASSUME NEW k \in 1..n
      PROVE  f[k] = IF k = 1 THEN At(s, 1) ELSE IF f[k - 1] = Null THEN Null ELSE next[f[k - 1]]
  <2>1. k \in 1..Len(s) /\ f[k] = s[k]
    BY <1>0
  <2>2. CASE k = 1
    BY <2>1, <2>2 DEF At
  <2>3. CASE k # 1
    <3>1. k - 1 \in 1..n /\ k - 1 \in 1..(Len(s) - 1) /\ k - 1 \in 1..Len(s) /\ (k - 1) + 1 = k
      BY <1>0, <2>1, <2>3
    <3>2. f[k - 1] = s[k - 1] /\ s[k - 1] \in Node
      BY <1>0, <3>1
    <3>3. next[s[k - 1]] = s[k]
      BY <3>1
    <3> QED BY <1>0, <2>1, <2>3, <3>2, <3>3
  <2> QED BY <2>2, <2>3
<1>2. IsSteps(f, next, At(s, 1), n)
  BY <1>1 DEF IsSteps
<1>3. n \in Nat
  OBVIOUS
<1> HIDE DEF f
<1>4. Steps(next, At(s, 1), n) = f
  BY <1>2, <1>3, StepsAre
<1> QED BY <1>4 DEF f, Prefix

\* A path is no longer than there are blocks.
LEMMA PathFits ==
    ASSUME NEW s, IsPath(s)
    PROVE  /\ Cardinality(Node) \in Nat /\ Len(s) <= Cardinality(Node)
           /\ Cardinality(Range(s)) = Len(s) /\ Range(s) \subseteq Node
<1>0. s \in Seq(Node) /\ Len(s) \in Nat /\ DOMAIN s = 1..Len(s) /\ s \in [1..Len(s) -> Node]
  BY DEF IsPath
<1>1. Range(s) \subseteq Node
  BY <1>0 DEF Range
<1>2. s \in Bijection(1..Len(s), Range(s))
  <2>1. s \in [1..Len(s) -> Range(s)] /\ \A x \in Range(s) : \E i \in 1..Len(s) : s[i] = x
    BY <1>0 DEF Range
  <2>2. \A i, k \in 1..Len(s) : s[i] = s[k] => i = k
    BY DEF IsPath
  <2> QED BY <1>0, <2>1, <2>2 DEF Bijection, Injection, Surjection, IsInjective
<1>3. Cardinality(Range(s)) = Len(s)
  BY <1>0, <1>2, FS_CountingElements DEF ExistsBijection
<1>4. IsFiniteSet(Node)
  BY NodeAssumption
<1>5. Cardinality(Range(s)) <= Cardinality(Node)
  BY <1>1, <1>4, FS_Subset
<1>6. Cardinality(Node) \in Nat
  BY <1>4, FS_CardinalityType
<1> QED BY <1>1, <1>3, <1>5, <1>6

\* Contents reads a chain of any length.
LEMMA ContentsOfChain ==
    ASSUME NEW next, NEW first, NEW s, Chain(next, first, s)
    PROVE  Contents(next, first) = s
<1> DEFINE N == Cardinality(Node) + 1
           f == [k \in 1..N |-> At(s, k)]
<1>0. /\ s \in Seq(Node) /\ Len(s) \in Nat /\ DOMAIN s = 1..Len(s) /\ Null \notin Node
      /\ N \in Nat /\ Len(s) < N /\ first = At(s, 1)
  <2>1. IsPath(s) /\ first = At(s, 1)
    BY DEF Chain
  <2>2. Cardinality(Node) \in Nat /\ Len(s) <= Cardinality(Node)
    BY <2>1, PathFits
  <2>3. s \in Seq(Node)
    BY <2>1 DEF IsPath
  <2> QED BY <2>1, <2>2, <2>3, NodeAssumption
<1> HIDE DEF N
<1>1. ASSUME NEW k \in 1..N
      PROVE  f[k] = IF k = 1 THEN first ELSE IF f[k - 1] = Null THEN Null ELSE next[f[k - 1]]
  <2>1. CASE k = 1
    BY <1>0, <2>1
  <2>2. CASE k # 1
    <3>1. k - 1 \in 1..N /\ (k - 1) + 1 = k /\ k - 1 \in Nat
      BY <1>0, <2>2
    <3>2. CASE k - 1 \in 1..Len(s)
      <4>1. f[k - 1] = s[k - 1] /\ s[k - 1] \in Node
        BY <1>0, <3>1, <3>2 DEF At
      <4>2. next[s[k - 1]] = At(s, k)
        BY <3>1, <3>2 DEF Chain
      <4> QED BY <1>0, <2>2, <4>1, <4>2
    <3>3. CASE k - 1 \notin 1..Len(s)
      <4>1. f[k - 1] = Null
        BY <3>1, <3>3 DEF At
      <4>2. k \notin 1..Len(s)
        BY <1>0, <3>1, <3>3, <2>2
      <4> QED BY <2>2, <4>1, <4>2 DEF At
    <3> QED BY <3>2, <3>3
  <2> QED BY <2>1, <2>2
<1>2. IsSteps(f, next, first, N)
  BY <1>1 DEF IsSteps
<1>3. Steps(next, first, N) = f
  <2> HIDE DEF f
  <2> QED BY <1>0, <1>2, StepsAre
<1>4. {i \in DOMAIN f : f[i] # Null} = 1..Len(s)
  <2>1. ASSUME NEW i \in 1..N PROVE f[i] # Null <=> i \in 1..Len(s)
    BY <1>0 DEF At
  <2>2. 1..Len(s) \subseteq 1..N /\ DOMAIN f = 1..N
    BY <1>0
  <2> HIDE DEF f
  <2> QED BY <2>1, <2>2
<1>5. Cardinality(1..Len(s)) = Len(s)
  <2>1. Cardinality(1..Len(s)) = IF 1 > Len(s) THEN 0 ELSE Len(s) - 1 + 1
    BY <1>0, 1 \in Int, Len(s) \in Int, FS_Interval
  <2> QED BY <1>0, <2>1
<1>6. Contents(next, first) = [k \in 1..Len(s) |-> f[k]]
  <2> HIDE DEF f
  <2> QED BY <1>3, <1>4, <1>5 DEF Contents, N
<1>7. \A k \in 1..Len(s) : f[k] = s[k]
  BY <1>0 DEF At
<1> HIDE DEF f
<1>8. [k \in 1..Len(s) |-> f[k]] = [k \in 1..Len(s) |-> s[k]]
  BY <1>7
<1>9. [k \in 1..Len(s) |-> s[k]] = s
  BY <1>0
<1> QED BY <1>6, <1>8, <1>9

-----------------------------------------------------------------------------
(***************************************************************************)
(* The inductive invariant: there are a published chain, a batch for each  *)
(* thread and an owner for each block that fit.                            *)
(***************************************************************************)

\* The owner of a block in the shared chain.
Nobody == CHOOSE x : x \notin Thread

LEMMA NobodyIsNoThread == Nobody \notin Thread
BY NoSetContainsEverything DEF Nobody

\* The blocks in s are the batch of thread t.
Batch(t, s) ==
    /\ IsPath(s)
    /\ list[t].first = At(s, 1)
    /\ \A i \in 1..(Len(s) - 1) : next_free[s[i]] = s[i + 1]
    /\ pc[t] # "walk" => list[t].count = Len(s) /\ list[t].last = At(s, Len(s))
    /\ pc[t] \in {"link", "cas"} => Len(s) # 0
    /\ pc[t] \in {"idle", "walk"} /\ Len(s) # 0 => next_free[s[Len(s)]] = Null
    /\ pc[t] = "cas" => next_free[s[Len(s)]] = observed[t]
    /\ pc[t] = "walk" => /\ list[t].count \in 0..Len(s)
                         /\ list[t].last = At(s, list[t].count)
                         /\ block[t] = At(s, list[t].count + 1)

Published(shared, owner) ==
    /\ Chain(next_free, head, shared)
    /\ \A i \in 1..Len(shared) : owner[shared[i]] = Nobody

Batches(own, owner) ==
    /\ own \in [Thread -> Seq(Node)]
    /\ \A t \in Thread : Batch(t, own[t])
    /\ \A t \in Thread : \A i \in 1..Len(own[t]) :
           owner[own[t][i]] = t /\ own[t][i] \notin held[t]

HeldOwned(owner) == \A t \in Thread : \A n \in held[t] : owner[n] = t

\* The owner of a block may touch its link, and so may who detaches it next.
Ordered(owner) ==
    /\ owner \in [Node -> Thread \cup {Nobody}]
    /\ \A n \in Node : IF owner[n] = Nobody THEN n \in released ELSE owner[n] \in ordered_before[n]

Shape(shared, own, owner) ==
    Published(shared, owner) /\ Batches(own, owner) /\ HeldOwned(owner) /\ Ordered(owner)

IInv == TypeOK /\ \E shared, own, owner : Shape(shared, own, owner)

\* What the threads own.
Private(own) == [t \in Thread |-> held[t] \cup Range(own[t])]

\* What a step does to the published chain and to what the threads own.
Effect(shared, own, shared2, own2) ==
    \/ shared2 = shared /\ Private(own2)' = Private(own)
    \/ \E t \in Thread :
           /\ Len(own[t]) # 0 /\ shared2 = own[t] \o shared
           /\ Private(own2)' = [Private(own) EXCEPT ![t] = @ \ Range(own[t])]
    \/ \E t \in Thread :
           /\ shared2 = <<>>
           /\ Private(own2)' = [Private(own) EXCEPT ![t] = @ \cup Range(shared)]

\* The threads other than t are where they were, and t touched links of its own only.
OnlyMoves(t, owner) ==
    /\ \A u \in Thread \ {t} :
           /\ pc'[u] = pc[u] /\ list'[u] = list[u] /\ observed'[u] = observed[u]
           /\ block'[u] = block[u] /\ held'[u] = held[u]
    /\ \A n \in Node : owner[n] # t => next_free'[n] = next_free[n]

\* A batch whose links and whose thread are left alone is still that batch.
LEMMA BatchFrame ==
    ASSUME NEW u, NEW s, Batch(u, s),
           pc'[u] = pc[u], list'[u] = list[u], observed'[u] = observed[u], block'[u] = block[u],
           \A i \in 1..Len(s) : next_free'[s[i]] = next_free[s[i]]
    PROVE  Batch(u, s)'
<1>0. s \in Seq(Node) /\ Len(s) \in Nat
  BY DEF Batch, IsPath
<1>1. \A i \in 1..(Len(s) - 1) : next_free'[s[i]] = next_free[s[i]]
  BY <1>0
<1>2. Len(s) # 0 => next_free'[s[Len(s)]] = next_free[s[Len(s)]]
  BY <1>0
<1> QED BY <1>1, <1>2 DEF Batch

\* The chain and the batches of the other threads stay as they are.
LEMMA OthersKept ==
    ASSUME NEW shared, NEW own, NEW owner, Shape(shared, own, owner), NEW t \in Thread,
           OnlyMoves(t, owner)
    PROVE  /\ Chain(next_free', head, shared)
           /\ \A u \in Thread \ {t} : /\ Batch(u, own[u])'
                                      /\ \A i \in 1..Len(own[u]) : own[u][i] \notin held'[u]
<1>1. shared \in Seq(Node) /\ own \in [Thread -> Seq(Node)]
  BY DEF Shape, Published, Batches, Chain, IsPath
<1>2. \A i \in 1..Len(shared) : next_free'[shared[i]] = next_free[shared[i]]
  BY <1>1, NobodyIsNoThread DEF Shape, Published, OnlyMoves
<1>3. Chain(next_free', head, shared)
  BY <1>2 DEF Shape, Published, Chain
<1>4. ASSUME NEW u \in Thread \ {t}
      PROVE  Batch(u, own[u])' /\ \A i \in 1..Len(own[u]) : own[u][i] \notin held'[u]
  <2>1. own[u] \in Seq(Node) /\ \A i \in 1..Len(own[u]) : own[u][i] \in Node
    BY <1>1
  <2>2. \A i \in 1..Len(own[u]) : next_free'[own[u][i]] = next_free[own[u][i]]
    BY <2>1 DEF Shape, Batches, OnlyMoves
  <2>3. Batch(u, own[u])
    BY DEF Shape, Batches
  <2>4. Batch(u, own[u])'
    BY <2>2, <2>3, BatchFrame DEF OnlyMoves
  <2> QED BY <2>4 DEF Shape, Batches, OnlyMoves
<1> QED BY <1>3, <1>4

\* Touching links of one's own keeps the order.
LEMMA AccessKeepsOrder ==
    ASSUME NEW owner, Ordered(owner), NEW t \in Thread, NEW S, Accesses(t, S),
           \A n \in S : owner[n] = t
    PROVE  Ordered(owner)'
BY NobodyIsNoThread DEF Ordered, Accesses

\* One batch is replaced, and the blocks of the other threads keep their owners.
LEMMA NewBatch ==
    ASSUME NEW shared, NEW own, NEW owner, Shape(shared, own, owner), NEW t \in Thread,
           OnlyMoves(t, owner), NEW owner2, NEW s \in Seq(Node), Batch(t, s)',
           \A n \in Node : owner[n] \in Thread \ {t} => owner2[n] = owner[n],
           \A i \in 1..Len(s) : owner2[s[i]] = t /\ s[i] \notin held'[t]
    PROVE  Batches([own EXCEPT ![t] = s], owner2)'
<1> DEFINE own2 == [own EXCEPT ![t] = s]
<1>1. own \in [Thread -> Seq(Node)]
  BY DEF Shape, Batches
<1>2. own2 \in [Thread -> Seq(Node)] /\ own2[t] = s /\ \A u \in Thread \ {t} : own2[u] = own[u]
  BY <1>1
<1>3. \A u \in Thread \ {t} : /\ Batch(u, own[u])'
                              /\ \A i \in 1..Len(own[u]) : own[u][i] \notin held'[u]
  BY OthersKept
<1>4. \A u \in Thread \ {t} : \A i \in 1..Len(own[u]) : owner2[own[u][i]] = u
  <2> TAKE u \in Thread \ {t}
  <2> TAKE i \in 1..Len(own[u])
  <2>1. own[u][i] \in Node
    BY <1>1
  <2>2. owner[own[u][i]] = u
    BY DEF Shape, Batches
  <2> QED BY <2>1, <2>2
<1> HIDE DEF own2
<1>5. \A u \in Thread : Batch(u, own2[u])'
  <2> TAKE u \in Thread
  <2>1. CASE u = t
    BY <1>2, <2>1
  <2>2. CASE u # t
    BY <1>2, <1>3, <2>2
  <2> QED BY <2>1, <2>2
<1>6. \A u \in Thread : \A i \in 1..Len(own2[u]) :
          owner2[own2[u][i]] = u /\ own2[u][i] \notin held'[u]
  BY <1>2, <1>3, <1>4
<1>7. Batches(own2, owner2)'
  BY <1>2, <1>5, <1>6 DEF Batches
<1> QED BY <1>7 DEF own2

\* A thread rearranges what it owns.
LEMMA PrivateStep ==
    ASSUME NEW shared, NEW own, NEW owner, Shape(shared, own, owner), NEW t \in Thread,
           OnlyMoves(t, owner), head' = head, NEW s \in Seq(Node), Batch(t, s)',
           \A i \in 1..Len(s) : owner[s[i]] = t /\ s[i] \notin held'[t],
           \A n \in held'[t] : owner[n] = t,
           held'[t] \cup Range(s) = held[t] \cup Range(own[t]),
           Ordered(owner)'
    PROVE  \E shared2, own2, owner2 :
               Shape(shared2, own2, owner2)' /\ Effect(shared, own, shared2, own2)
<1>1. PICK own2 : own2 = [own EXCEPT ![t] = s]
  OBVIOUS
<1>2. own \in [Thread -> Seq(Node)]
  BY DEF Shape, Batches
<1>3. Batches(own2, owner)'
  BY <1>1, NewBatch
<1>4. Published(shared, owner)'
  BY OthersKept DEF Published, Shape
<1>5. HeldOwned(owner)'
  BY DEF HeldOwned, Shape, OnlyMoves
<1>6. Private(own2)' = Private(own)
  <2>1. \A u \in Thread : held'[u] \cup Range(own2[u]) = held[u] \cup Range(own[u])
    <3> TAKE u \in Thread
    <3>1. CASE u = t
      BY <1>1, <1>2, <3>1
    <3>2. CASE u # t
      BY <1>1, <1>2, <3>2 DEF OnlyMoves
    <3> QED BY <3>1, <3>2
  <2> QED BY <2>1 DEF Private
<1>7. Shape(shared, own2, owner)' /\ Effect(shared, own, shared, own2)
  BY <1>3, <1>4, <1>5, <1>6 DEF Shape, Effect
<1> QED BY <1>7

\* The types of the functions, apart from the rest.
LEMMA TypeFacts ==
    ASSUME TypeOK
    PROVE  /\ next_free \in [Node -> Address] /\ list \in [Thread -> TransferList]
           /\ observed \in [Thread -> Address] /\ block \in [Thread -> Address]
           /\ pc \in [Thread -> {"idle", "link", "cas", "walk"}]
           /\ held \in [Thread -> SUBSET Node]
BY DEF TypeOK

\* The steps that leave a thread's batch as it is.
LEMMA QuietStep ==
    ASSUME TypeOK, NEW shared, NEW own, NEW owner, Shape(shared, own, owner), NEW t \in Thread,
           OnlyMoves(t, owner), head' = head, held' = held, Batch(t, own[t])', Ordered(owner)'
    PROVE  \E shared2, own2, owner2 :
               Shape(shared2, own2, owner2)' /\ Effect(shared, own, shared2, own2)
<1>1. own[t] \in Seq(Node)
  BY DEF Shape, Batches
<1>2. \A i \in 1..Len(own[t]) : owner[own[t][i]] = t /\ own[t][i] \notin held'[t]
  BY DEF Shape, Batches
<1>3. \A n \in held'[t] : owner[n] = t
  BY DEF Shape, HeldOwned
<1> QED BY <1>1, <1>2, <1>3, PrivateStep

\* What is known of a thread's batch.
LEMMA BatchFacts ==
    ASSUME NEW shared, NEW own, NEW owner, Shape(shared, own, owner), NEW t \in Thread
    PROVE  /\ Batch(t, own[t]) /\ own[t] \in Seq(Node) /\ Len(own[t]) \in Nat
           /\ IsPath(own[t])
           /\ \A i \in 1..Len(own[t]) : own[t][i] \in Node /\ owner[own[t][i]] = t
                                        /\ own[t][i] \notin held[t]
<1>1. own[t] \in Seq(Node)
  BY DEF Shape, Batches
<1>2. Len(own[t]) \in Nat /\ \A i \in 1..Len(own[t]) : own[t][i] \in Node
  BY <1>1
<1>3. Batch(t, own[t]) /\ \A i \in 1..Len(own[t]) : owner[own[t][i]] = t /\ own[t][i] \notin held[t]
  BY DEF Shape, Batches
<1> QED BY <1>1, <1>2, <1>3 DEF Batch

\* The relaxed load of publish, whatever it yields.
LEMMA LoadHeadStep ==
    ASSUME TypeOK, NEW shared, NEW own, NEW owner, Shape(shared, own, owner), NEW t \in Thread,
           LoadHead(t)
    PROVE  \E shared2, own2, owner2 :
               Shape(shared2, own2, owner2)' /\ Effect(shared, own, shared2, own2)
<1>1. PICK address \in Address : observed' = [observed EXCEPT ![t] = address]
  BY DEF LoadHead
<1>2. /\ pc' = [pc EXCEPT ![t] = "link"] /\ pc[t] = "idle" /\ list[t].first # Null
      /\ UNCHANGED <<head, next_free, list, block, held, memoryVars>>
  BY DEF LoadHead
<1>3. OnlyMoves(t, owner)
  BY <1>1, <1>2, TypeFacts DEF OnlyMoves
<1>4. Ordered(owner)'
  BY <1>2 DEF Ordered, Shape, memoryVars
<1>5. Batch(t, own[t]) /\ own[t] \in Seq(Node)
  BY BatchFacts
<1>6. Len(own[t]) # 0
  BY <1>2, <1>5 DEF Batch, At
<1>7. pc'[t] = "link"
  BY <1>2, TypeFacts
<1>8. Batch(t, own[t])'
  BY <1>2, <1>5, <1>6, <1>7 DEF Batch
<1> QED BY <1>2, <1>3, <1>4, <1>8, QuietStep

\* The link of the batch's last block, which the thread owns.
LEMMA LinkTailStep ==
    ASSUME TypeOK, NEW shared, NEW own, NEW owner, Shape(shared, own, owner), NEW t \in Thread,
           LinkTail(t)
    PROVE  \E shared2, own2, owner2 :
               Shape(shared2, own2, owner2)' /\ Effect(shared, own, shared2, own2)
<1> DEFINE s == own[t]
<1>1. /\ pc' = [pc EXCEPT ![t] = "cas"] /\ pc[t] = "link"
      /\ next_free' = [next_free EXCEPT ![list[t].last] = observed[t]]
      /\ Accesses(t, {list[t].last})
      /\ UNCHANGED <<head, list, observed, block, held>>
  BY DEF LinkTail
<1>2. /\ Batch(t, s) /\ s \in Seq(Node) /\ Len(s) \in Nat /\ IsPath(s)
      /\ \A i \in 1..Len(s) : s[i] \in Node /\ owner[s[i]] = t
  BY BatchFacts
<1> HIDE DEF s
<1>3. Len(s) # 0 /\ list[t].last = s[Len(s)]
  BY <1>1, <1>2 DEF Batch, At
<1>4. Len(s) \in 1..Len(s)
  BY <1>2, <1>3
<1>5. s[Len(s)] \in Node /\ owner[s[Len(s)]] = t
  BY <1>2, <1>4
<1>6. OnlyMoves(t, owner)
  BY <1>1, <1>3, <1>5, TypeFacts DEF OnlyMoves
<1>7. Ordered(owner)'
  BY <1>1, <1>3, <1>5, AccessKeepsOrder DEF Shape
<1>8. pc'[t] = "cas" /\ next_free'[s[Len(s)]] = observed[t]
  BY <1>1, <1>3, <1>5, TypeFacts
<1>9. \A i \in 1..(Len(s) - 1) : next_free'[s[i]] = s[i + 1]
  <2> TAKE i \in 1..(Len(s) - 1)
  <2>1. i \in 1..Len(s) /\ i # Len(s)
    BY <1>2
  <2>2. s[i] # s[Len(s)] /\ s[i] \in Node
    BY <1>2, <1>4, <2>1 DEF IsPath
  <2> QED BY <1>1, <1>2, <1>3, <2>2, TypeFacts DEF Batch
<1>10. Batch(t, s)'
  BY <1>1, <1>2, <1>3, <1>8, <1>9 DEF Batch
<1> QED BY <1>1, <1>6, <1>7, <1>10, QuietStep DEF s

\* A failed exchange observes the head.
LEMMA CasFailsStep ==
    ASSUME TypeOK, NEW shared, NEW own, NEW owner, Shape(shared, own, owner), NEW t \in Thread,
           CasFails(t)
    PROVE  \E shared2, own2, owner2 :
               Shape(shared2, own2, owner2)' /\ Effect(shared, own, shared2, own2)
<1>1. /\ pc' = [pc EXCEPT ![t] = "link"] /\ pc[t] = "cas"
      /\ observed' = [observed EXCEPT ![t] = head]
      /\ UNCHANGED <<head, next_free, list, block, held, memoryVars>>
  BY DEF CasFails
<1>2. OnlyMoves(t, owner)
  BY <1>1, TypeFacts DEF OnlyMoves
<1>3. Ordered(owner)'
  BY <1>1 DEF Ordered, Shape, memoryVars
<1>4. Batch(t, own[t])
  BY BatchFacts
<1>5. pc'[t] = "link"
  BY <1>1, TypeFacts
<1>6. Batch(t, own[t])'
  BY <1>1, <1>4, <1>5 DEF Batch
<1> QED BY <1>1, <1>2, <1>3, <1>6, QuietStep

\* detach counts one block of the chain it has taken.
LEMMA WalkChainStep ==
    ASSUME TypeOK, NEW shared, NEW own, NEW owner, Shape(shared, own, owner), NEW t \in Thread,
           WalkChain(t)
    PROVE  \E shared2, own2, owner2 :
               Shape(shared2, own2, owner2)' /\ Effect(shared, own, shared2, own2)
<1> DEFINE s == own[t]
           k == list[t].count
<1>1. /\ pc[t] = "walk" /\ block[t] # Null
      /\ list' = [list EXCEPT ![t].last = block[t], ![t].count = @ + 1]
      /\ block' = [block EXCEPT ![t] = next_free[block[t]]]
      /\ Accesses(t, {block[t]})
      /\ UNCHANGED <<head, next_free, observed, pc, held>>
  BY DEF WalkChain
<1>2. /\ Batch(t, s) /\ s \in Seq(Node) /\ Len(s) \in Nat /\ IsPath(s)
      /\ \A i \in 1..Len(s) : s[i] \in Node /\ owner[s[i]] = t
  BY BatchFacts
<1> HIDE DEF s
<1>3. k \in 0..Len(s) /\ list[t].last = At(s, k) /\ block[t] = At(s, k + 1)
  BY <1>1, <1>2 DEF Batch
<1>4. k + 1 \in 1..Len(s) /\ block[t] = s[k + 1]
  BY <1>1, <1>3 DEF At
<1>5. owner[block[t]] = t /\ block[t] \in Node
  BY <1>2, <1>4
<1>6. OnlyMoves(t, owner)
  BY <1>1, <1>5, TypeFacts DEF OnlyMoves
<1>7. Ordered(owner)'
  BY <1>1, <1>5, AccessKeepsOrder DEF Shape
<1>8. /\ list'[t].count = k + 1 /\ list'[t].last = block[t] /\ list'[t].first = list[t].first
      /\ block'[t] = next_free[block[t]]
  BY <1>1, TypeFacts DEF TransferList
<1>9. next_free[s[k + 1]] = At(s, (k + 1) + 1)
  <2> HIDE DEF k
  <2>1. CASE k + 1 = Len(s)
    <3>1. (k + 1) + 1 \notin 1..Len(s) /\ Len(s) # 0
      BY <1>2, <1>4, <2>1
    <3> QED BY <1>1, <1>2, <2>1, <3>1 DEF Batch, At
  <2>2. CASE k + 1 # Len(s)
    <3>1. k + 1 \in 1..(Len(s) - 1) /\ (k + 1) + 1 \in 1..Len(s)
      BY <1>2, <1>4, <2>2
    <3> QED BY <1>2, <3>1 DEF Batch, At
  <2> QED BY <2>1, <2>2
<1>10. k + 1 \in 0..Len(s) /\ list'[t].last = At(s, k + 1)
  BY <1>4, <1>8 DEF At
<1> HIDE DEF k
<1>11. Batch(t, s)'
  BY <1>1, <1>2, <1>4, <1>8, <1>9, <1>10 DEF Batch
<1> QED BY <1>1, <1>6, <1>7, <1>11, QuietStep DEF s

\* At the end of the walk the descriptor is complete.
LEMMA DetachReturnsStep ==
    ASSUME TypeOK, NEW shared, NEW own, NEW owner, Shape(shared, own, owner), NEW t \in Thread,
           DetachReturns(t)
    PROVE  \E shared2, own2, owner2 :
               Shape(shared2, own2, owner2)' /\ Effect(shared, own, shared2, own2)
<1> DEFINE s == own[t]
           k == list[t].count
<1>1. /\ pc' = [pc EXCEPT ![t] = "idle"] /\ pc[t] = "walk" /\ block[t] = Null
      /\ UNCHANGED <<head, next_free, list, observed, block, held, memoryVars>>
  BY DEF DetachReturns
<1>2. OnlyMoves(t, owner)
  BY <1>1, TypeFacts DEF OnlyMoves
<1>3. Ordered(owner)'
  BY <1>1 DEF Ordered, Shape, memoryVars
<1>4. /\ Batch(t, s) /\ s \in Seq(Node) /\ Len(s) \in Nat
      /\ \A i \in 1..Len(s) : s[i] \in Node
  BY BatchFacts
<1> HIDE DEF s
<1>5. k \in 0..Len(s) /\ list[t].last = At(s, k) /\ block[t] = At(s, k + 1)
  BY <1>1, <1>4 DEF Batch
<1>6. k = Len(s)
  <2>1. k + 1 \notin 1..Len(s)
    BY <1>1, <1>4, <1>5, NodeAssumption DEF At
  <2> HIDE DEF k
  <2> QED BY <1>4, <1>5, <2>1
<1>7. pc'[t] = "idle"
  BY <1>1, TypeFacts
<1>8. Batch(t, s)'
  BY <1>1, <1>4, <1>5, <1>6, <1>7 DEF Batch
<1> QED BY <1>1, <1>2, <1>3, <1>8, QuietStep DEF s

-----------------------------------------------------------------------------

\* The elements of a sequence.
LEMMA RangeIs ==
    ASSUME NEW S, NEW s \in Seq(S)
    PROVE  Range(s) = {s[i] : i \in 1..Len(s)} /\ Range(s) \subseteq S
BY DEF Range

\* A path whose last block is linked to the first block of a chain extends the chain.
LEMMA ChainCat ==
    ASSUME NEW next, NEW s, IsPath(s), NEW first, NEW r, Chain(next, first, r), Len(s) # 0,
           \A i \in 1..(Len(s) - 1) : next[s[i]] = s[i + 1], next[s[Len(s)]] = first,
           \A i \in 1..Len(s), k \in 1..Len(r) : s[i] # r[k]
    PROVE  Chain(next, s[1], s \o r)
<1> DEFINE c == s \o r
           m == Len(s)
           n == Len(r)
<1>1. s \in Seq(Node) /\ r \in Seq(Node) /\ m \in Nat /\ n \in Nat /\ m # 0
  BY DEF IsPath, Chain
<1>2. c \in Seq(Node) /\ Len(c) = m + n
  BY <1>1
<1>3. /\ \A i \in 1..m : c[i] = s[i]
      /\ \A i \in 1..n : c[m + i] = r[i]
  BY <1>1
<1> HIDE DEF c
<1>4. \A i \in 1..(m + n) : i \in 1..m \/ (i - m \in 1..n /\ i = m + (i - m))
  BY <1>1
<1>5. \A i, k \in 1..Len(c) : c[i] = c[k] => i = k
  <2> SUFFICES ASSUME NEW i \in 1..(m + n), NEW k \in 1..(m + n), c[i] = c[k] PROVE i = k
    BY <1>2
  <2>1. CASE i \in 1..m /\ k \in 1..m
    BY <1>3, <2>1 DEF IsPath
  <2>2. CASE i \in 1..m /\ k - m \in 1..n
    <3>1. c[i] = s[i] /\ c[m + (k - m)] = r[k - m] /\ k = m + (k - m)
      BY <1>1, <1>3, <2>2
    <3> QED BY <2>2, <3>1
  <2>3. CASE k \in 1..m /\ i - m \in 1..n
    <3>1. c[k] = s[k] /\ c[m + (i - m)] = r[i - m] /\ i = m + (i - m)
      BY <1>1, <1>3, <2>3
    <3> QED BY <2>3, <3>1
  <2>4. CASE i - m \in 1..n /\ k - m \in 1..n
    <3>1. /\ c[m + (k - m)] = r[k - m] /\ k = m + (k - m)
          /\ c[m + (i - m)] = r[i - m] /\ i = m + (i - m)
      BY <1>1, <1>3, <2>4
    <3>2. i - m = k - m
      BY <2>4, <3>1 DEF Chain, IsPath
    <3> QED BY <1>1, <3>2
  <2> QED BY <1>4, <2>1, <2>2, <2>3, <2>4
<1>6. s[1] = At(c, 1)
  BY <1>1, <1>2, <1>3 DEF At
<1>7. \A i \in 1..Len(c) : next[c[i]] = At(c, i + 1)
  <2> SUFFICES ASSUME NEW i \in 1..(m + n) PROVE next[c[i]] = At(c, i + 1)
    BY <1>2
  <2>1. CASE i \in 1..m /\ i # m
    <3>1. i \in 1..(m - 1) /\ i + 1 \in 1..m /\ i + 1 \in 1..(m + n)
      BY <1>1, <2>1
    <3>2. At(c, i + 1) = s[i + 1]
      BY <1>2, <1>3, <3>1 DEF At
    <3> QED BY <1>3, <2>1, <3>1, <3>2
  <2>2. CASE i = m
    <3>1. next[c[i]] = At(r, 1) /\ m \in 1..m
      BY <1>1, <1>3, <2>2 DEF Chain
    <3>2. At(c, m + 1) = At(r, 1)
      BY <1>1, <1>2, <1>3 DEF At
    <3> QED BY <2>2, <3>1, <3>2
  <2>3. CASE i - m \in 1..n
    <3>1. c[i] = r[i - m]
      <4>1. c[m + (i - m)] = r[i - m] /\ i = m + (i - m)
        BY <1>1, <1>3, <2>3
      <4> QED BY <4>1
    <3>2. next[r[i - m]] = At(r, (i - m) + 1)
      BY <2>3 DEF Chain
    <3>3. At(c, i + 1) = At(r, (i - m) + 1)
      <4>1. CASE i - m = n
        <5>1. i + 1 \notin 1..(m + n) /\ (i - m) + 1 \notin 1..n
          BY <1>1, <4>1
        <5> QED BY <1>2, <5>1 DEF At
      <4>2. CASE i - m # n
        <5>1. i + 1 \in 1..(m + n) /\ (i - m) + 1 \in 1..n /\ i + 1 = m + ((i - m) + 1)
          <6> HIDE DEF m, n
          <6> QED BY <1>1, <2>3, <4>2
        <5> QED BY <1>2, <1>3, <5>1 DEF At
      <4> QED BY <4>1, <4>2
    <3> QED BY <3>1, <3>2, <3>3
  <2> QED BY <1>4, <2>1, <2>2, <2>3
<1>8. Chain(next, s[1], c)
  BY <1>2, <1>5, <1>6, <1>7 DEF Chain, IsPath
<1> QED BY <1>8 DEF c

\* The exchange that succeeds puts the batch in front of the chain.
LEMMA CasSucceedsStep ==
    ASSUME TypeOK, NEW shared, NEW own, NEW owner, Shape(shared, own, owner), NEW t \in Thread,
           CasSucceeds(t)
    PROVE  \E shared2, own2, owner2 :
               Shape(shared2, own2, owner2)' /\ Effect(shared, own, shared2, own2)
<1>1. PICK s : s = own[t]
  OBVIOUS
<1>2. PICK owner2 : owner2 = [n \in Node |-> IF n \in Range(s) THEN Nobody ELSE owner[n]]
  OBVIOUS
<1>3. PICK own2 : own2 = [own EXCEPT ![t] = <<>>]
  OBVIOUS
<1>4. PICK shared2 : shared2 = s \o shared
  OBVIOUS
<1>5. /\ pc' = [pc EXCEPT ![t] = "idle"] /\ pc[t] = "cas" /\ head = observed[t]
      /\ head' = list[t].first /\ list' = [list EXCEPT ![t] = EmptyList]
      /\ observed' = [observed EXCEPT ![t] = Null] /\ Release(t)
      /\ UNCHANGED <<next_free, block, held>>
  BY DEF CasSucceeds
<1>6. /\ Batch(t, s) /\ s \in Seq(Node) /\ Len(s) \in Nat /\ IsPath(s)
      /\ \A i \in 1..Len(s) : s[i] \in Node /\ owner[s[i]] = t /\ s[i] \notin held[t]
  BY <1>1, BatchFacts
<1>7. Len(s) # 0 /\ next_free[s[Len(s)]] = head /\ list[t].first = s[1]
  BY <1>5, <1>6 DEF Batch, At
<1>8. /\ Chain(next_free, head, shared) /\ shared \in Seq(Node)
      /\ \A i \in 1..Len(shared) : owner[shared[i]] = Nobody /\ shared[i] \in Node
  <2>1. Chain(next_free, head, shared) /\ \A i \in 1..Len(shared) : owner[shared[i]] = Nobody
    BY DEF Shape, Published
  <2>2. shared \in Seq(Node)
    BY <2>1 DEF Chain, IsPath
  <2> QED BY <2>1, <2>2
<1>9. Chain(next_free, s[1], shared2)
  <2>1. \A i \in 1..Len(s), k \in 1..Len(shared) : s[i] # shared[k]
    BY <1>6, <1>8, NobodyIsNoThread
  <2>2. \A i \in 1..(Len(s) - 1) : next_free[s[i]] = s[i + 1]
    BY <1>6 DEF Batch
  <2> QED BY <1>4, <1>6, <1>7, <1>8, <2>1, <2>2, ChainCat
<1>10. Range(s) = {s[i] : i \in 1..Len(s)} /\ Range(s) \subseteq Node
  BY <1>6, RangeIs
<1>11. OnlyMoves(t, owner)
  BY <1>5, TypeFacts DEF OnlyMoves
<1>12. Batch(t, <<>>)'
  <2>1. pc'[t] = "idle" /\ list'[t] = EmptyList
    BY <1>5, TypeFacts
  <2>2. IsPath(<<>>) /\ Len(<<>>) = 0
    BY DEF IsPath
  <2>3. \A i \in 1..(Len(<<>>) - 1) : FALSE
    BY <2>2
  <2>4. At(<<>>, 1) = Null /\ At(<<>>, Len(<<>>)) = Null
    BY <2>2 DEF At
  <2> QED BY <2>1, <2>2, <2>3, <2>4 DEF Batch, EmptyList
<1>13. \A n \in Node : owner[n] \in Thread \ {t} => owner2[n] = owner[n]
  BY <1>2, <1>6, <1>10
<1>14. Batches(own2, owner2)'
  <2>1. PICK e : e = <<>>
    OBVIOUS
  <2>2. e \in Seq(Node) /\ 1..Len(e) = {}
    BY <2>1
  <2>3. Batch(t, e)'
    BY <1>12, <2>1
  <2>4. \A i \in 1..Len(e) : owner2[e[i]] = t /\ e[i] \notin held'[t]
    BY <2>2
  <2>5. Batches([own EXCEPT ![t] = e], owner2)'
    BY <1>11, <1>13, <2>2, <2>3, <2>4, NewBatch
  <2> QED BY <1>3, <2>1, <2>5
<1>15. Published(shared2, owner2)'
  <2>1. \A i \in 1..Len(shared2) : owner2[shared2[i]] = Nobody
    <3> TAKE i \in 1..Len(shared2)
    <3>1. \/ \E k \in 1..Len(s) : shared2[i] = s[k]
          \/ \E k \in 1..Len(shared) : shared2[i] = shared[k]
      <4>1. Len(shared2) = Len(s) + Len(shared) /\ Len(shared) \in Nat
        BY <1>4, <1>6, <1>8
      <4>2. CASE i <= Len(s)
        <5>1. i \in 1..Len(s) /\ shared2[i] = s[i]
          BY <1>4, <1>6, <1>8, <4>1, <4>2
        <5> QED BY <5>1
      <4>3. CASE i > Len(s)
        <5>1. i - Len(s) \in 1..Len(shared) /\ shared2[i] = shared[i - Len(s)]
          BY <1>4, <1>6, <1>8, <4>1, <4>3
        <5> QED BY <5>1
      <4> QED BY <1>6, <4>1, <4>2, <4>3
    <3>2. ASSUME NEW k \in 1..Len(s), shared2[i] = s[k] PROVE owner2[shared2[i]] = Nobody
      BY <1>2, <1>6, <1>10, <3>2
    <3>3. ASSUME NEW k \in 1..Len(shared), shared2[i] = shared[k] PROVE owner2[shared2[i]] = Nobody
      BY <1>2, <1>8, <3>3
    <3> QED BY <3>1, <3>2, <3>3
  <2> QED BY <1>5, <1>7, <1>9, <2>1 DEF Published
<1>16. HeldOwned(owner2)'
  <2> SUFFICES ASSUME NEW u \in Thread, NEW n \in held[u] PROVE owner2[n] = u
    BY <1>5 DEF HeldOwned
  <2>1. n \in Node
    BY TypeFacts
  <2>2. owner[n] = u
    BY DEF Shape, HeldOwned
  <2>3. n \notin Range(s)
    BY <1>6, <1>10, <2>2
  <2> QED BY <1>2, <2>1, <2>2, <2>3
<1>17. Ordered(owner2)'
  <2>1. owner \in [Node -> Thread \cup {Nobody}]
    BY DEF Shape, Ordered
  <2>2. owner2 \in [Node -> Thread \cup {Nobody}]
    BY <1>2, <2>1
  <2>3. released' = released \cup {n \in Node : t \in ordered_before[n]} /\ UNCHANGED ordered_before
    BY <1>5 DEF Release
  <2>4. ASSUME NEW n \in Node
        PROVE  IF owner2[n] = Nobody THEN n \in released' ELSE owner2[n] \in ordered_before'[n]
    <3>1. CASE n \in Range(s)
      <4>1. owner[n] = t /\ owner2[n] = Nobody
        BY <1>2, <1>6, <1>10, <3>1
      <4>2. t \in ordered_before[n]
        BY <4>1, NobodyIsNoThread DEF Shape, Ordered
      <4> QED BY <2>3, <4>1, <4>2
    <3>2. CASE n \notin Range(s)
      <4>1. owner2[n] = owner[n]
        BY <1>2, <3>2
      <4> QED BY <2>3, <4>1 DEF Shape, Ordered
    <3> QED BY <3>1, <3>2
  <2> QED BY <2>2, <2>4 DEF Ordered
<1>18. Private(own2)' = [Private(own) EXCEPT ![t] = @ \ Range(s)]
  <2>0. own \in [Thread -> Seq(Node)] /\ own2 \in [Thread -> Seq(Node)]
    BY <1>3 DEF Shape, Batches
  <2>1. held'[t] \cup Range(own2[t]) = (held[t] \cup Range(own[t])) \ Range(s)
    <3>1. own2[t] = <<>> /\ Range(<<>>) = {}
      BY <1>3, <2>0 DEF Range
    <3>2. held[t] \cap Range(s) = {}
      BY <1>6, <1>10
    <3> QED BY <1>1, <1>5, <3>1, <3>2
  <2>2. ASSUME NEW u \in Thread, u # t
        PROVE  held'[u] \cup Range(own2[u]) = held[u] \cup Range(own[u])
    BY <1>3, <1>5, <2>0, <2>2
  <2> QED BY <2>1, <2>2 DEF Private
<1>19. Effect(shared, own, shared2, own2)
  BY <1>1, <1>4, <1>7, <1>18 DEF Effect
<1> QED BY <1>14, <1>15, <1>16, <1>17, <1>19 DEF Shape

\* A detachment takes the whole chain.
LEMMA ExchangeStep ==
    ASSUME TypeOK, NEW shared, NEW own, NEW owner, Shape(shared, own, owner), NEW t \in Thread,
           Exchange(t)
    PROVE  \E shared2, own2, owner2 :
               Shape(shared2, own2, owner2)' /\ Effect(shared, own, shared2, own2)
<1>2. PICK owner2 : owner2 = [n \in Node |-> IF n \in Range(shared) THEN t ELSE owner[n]]
  OBVIOUS
<1>3. PICK own2 : own2 = [own EXCEPT ![t] = shared]
  OBVIOUS
<1>5. /\ pc' = [pc EXCEPT ![t] = "walk"] /\ pc[t] = "idle" /\ list[t].first = Null
      /\ head' = Null /\ list' = [list EXCEPT ![t].first = head]
      /\ block' = [block EXCEPT ![t] = head] /\ Acquire(t)
      /\ UNCHANGED <<next_free, observed, held>>
  BY DEF Exchange
<1>6. /\ Batch(t, own[t]) /\ own[t] \in Seq(Node) /\ Len(own[t]) \in Nat
      /\ \A i \in 1..Len(own[t]) : own[t][i] \in Node
  BY BatchFacts
<1>7. Len(own[t]) = 0 /\ list[t].count = 0 /\ list[t].last = Null
  <2>1. Len(own[t]) = 0
    BY <1>5, <1>6, NodeAssumption DEF Batch, At
  <2> QED BY <1>5, <1>6, <2>1 DEF Batch, At
<1>8. /\ Chain(next_free, head, shared) /\ shared \in Seq(Node) /\ Len(shared) \in Nat
      /\ \A i \in 1..Len(shared) : owner[shared[i]] = Nobody /\ shared[i] \in Node
  <2>1. Chain(next_free, head, shared) /\ \A i \in 1..Len(shared) : owner[shared[i]] = Nobody
    BY DEF Shape, Published
  <2>2. shared \in Seq(Node)
    BY <2>1 DEF Chain, IsPath
  <2> QED BY <2>1, <2>2
<1>10. Range(shared) = {shared[i] : i \in 1..Len(shared)} /\ Range(shared) \subseteq Node
  BY <1>8, RangeIs
<1>11. OnlyMoves(t, owner)
  BY <1>5, TypeFacts DEF OnlyMoves
<1>12. Batch(t, shared)'
  <2>1. /\ pc'[t] = "walk" /\ list'[t].first = head /\ list'[t].count = 0 /\ list'[t].last = Null
        /\ block'[t] = head
    BY <1>5, <1>7, TypeFacts DEF TransferList
  <2>2. head = At(shared, 1) /\ IsPath(shared)
    BY <1>8 DEF Chain
  <2>3. \A i \in 1..(Len(shared) - 1) : next_free'[shared[i]] = shared[i + 1]
    <3> TAKE i \in 1..(Len(shared) - 1)
    <3>1. i \in 1..Len(shared) /\ i + 1 \in 1..Len(shared)
      BY <1>8
    <3> QED BY <1>5, <1>8, <3>1 DEF Chain, At
  <2>4. Len(shared) # 0 => next_free'[shared[Len(shared)]] = Null
    <3> HAVE Len(shared) # 0
    <3>1. Len(shared) \in 1..Len(shared) /\ Len(shared) + 1 \notin 1..Len(shared)
      BY <1>8
    <3> QED BY <1>5, <1>8, <3>1 DEF Chain, At
  <2>5. At(shared, 0) = Null /\ 0 \in 0..Len(shared) /\ 0 + 1 = 1
    BY <1>8 DEF At
  <2> QED BY <2>1, <2>2, <2>3, <2>4, <2>5 DEF Batch
<1>13. \A n \in Node : owner[n] \in Thread \ {t} => owner2[n] = owner[n]
  BY <1>2, <1>8, <1>10, NobodyIsNoThread
<1>14. Batches(own2, owner2)'
  <2>1. \A i \in 1..Len(shared) : owner2[shared[i]] = t /\ shared[i] \notin held'[t]
    <3> TAKE i \in 1..Len(shared)
    <3>1. owner2[shared[i]] = t
      BY <1>2, <1>8, <1>10
    <3>2. shared[i] \notin held[t]
      BY <1>8, NobodyIsNoThread DEF Shape, HeldOwned
    <3> QED BY <1>5, <3>1, <3>2
  <2>2. Batches([own EXCEPT ![t] = shared], owner2)'
    BY <1>8, <1>11, <1>12, <1>13, <2>1, NewBatch
  <2> QED BY <1>3, <2>2
<1>15. Published(<<>>, owner2)'
  <2>1. IsPath(<<>>) /\ Len(<<>>) = 0
    BY DEF IsPath
  <2>2. At(<<>>, 1) = Null /\ \A i \in 1..Len(<<>>) : FALSE
    BY <2>1 DEF At
  <2> QED BY <1>5, <2>1, <2>2 DEF Published, Chain
<1>16. HeldOwned(owner2)'
  <2> SUFFICES ASSUME NEW u \in Thread, NEW n \in held[u] PROVE owner2[n] = u
    BY <1>5 DEF HeldOwned
  <2>1. n \in Node
    BY TypeFacts
  <2>2. owner[n] = u
    BY DEF Shape, HeldOwned
  <2>3. n \notin Range(shared)
    BY <1>8, <1>10, <2>2, NobodyIsNoThread
  <2> QED BY <1>2, <2>1, <2>2, <2>3
<1>17. Ordered(owner2)'
  <2>1. owner \in [Node -> Thread \cup {Nobody}]
    BY DEF Shape, Ordered
  <2>2. owner2 \in [Node -> Thread \cup {Nobody}]
    BY <1>2, <2>1
  <2>3. /\ ordered_before' = [n \in Node |-> IF n \in released THEN ordered_before[n] \cup {t}
                                             ELSE ordered_before[n]]
        /\ UNCHANGED released
    BY <1>5 DEF Acquire
  <2>4. ASSUME NEW n \in Node
        PROVE  IF owner2[n] = Nobody THEN n \in released' ELSE owner2[n] \in ordered_before'[n]
    <3>1. CASE n \in Range(shared)
      <4>1. owner[n] = Nobody /\ owner2[n] = t
        BY <1>2, <1>8, <1>10, <3>1
      <4>2. n \in released
        BY <4>1 DEF Shape, Ordered
      <4> QED BY <2>3, <4>1, <4>2, NobodyIsNoThread
    <3>2. CASE n \notin Range(shared)
      <4>1. owner2[n] = owner[n]
        BY <1>2, <3>2
      <4>2. IF owner[n] = Nobody THEN n \in released ELSE owner[n] \in ordered_before[n]
        BY DEF Shape, Ordered
      <4> QED BY <2>3, <4>1, <4>2
    <3> QED BY <3>1, <3>2
  <2> QED BY <2>2, <2>4 DEF Ordered
<1>18. Private(own2)' = [Private(own) EXCEPT ![t] = @ \cup Range(shared)]
  <2>0. own \in [Thread -> Seq(Node)] /\ own2 \in [Thread -> Seq(Node)]
    BY <1>3, <1>8 DEF Shape, Batches
  <2>1. held'[t] \cup Range(own2[t]) = (held[t] \cup Range(own[t])) \cup Range(shared)
    <3>1. own2[t] = shared /\ Range(own[t]) = {}
      BY <1>3, <1>6, <1>7, <2>0, RangeIs
    <3> QED BY <1>5, <3>1
  <2>2. ASSUME NEW u \in Thread, u # t
        PROVE  held'[u] \cup Range(own2[u]) = held[u] \cup Range(own[u])
    BY <1>3, <1>5, <2>0, <2>2
  <2> QED BY <2>1, <2>2 DEF Private
<1>19. Effect(shared, own, <<>>, own2)
  BY <1>18 DEF Effect
<1> QED BY <1>14, <1>15, <1>16, <1>17, <1>19 DEF Shape

\* The batches that can be made of the blocks in S are the paths through it.
LEMMA PermutationsArePaths ==
    ASSUME NEW S \in SUBSET Node, NEW s
    PROVE  s \in SetToAllKPermutations(S) <=> IsPath(s) /\ s \in Seq(S)
<1>1. ASSUME s \in SetToAllKPermutations(S) PROVE IsPath(s) /\ s \in Seq(S)
  <2>1. PICK T \in SUBSET S : s \in SetToSeqs(T)
    BY <1>1 DEF SetToAllKPermutations
  <2>2. T \subseteq Node
    OBVIOUS
  <2>3. Cardinality(T) \in Nat
    BY <2>2, NodeAssumption, FS_Subset, FS_CardinalityType
  <2>4. /\ s \in [1..Cardinality(T) -> T]
        /\ \A i, k \in 1..Cardinality(T) : i # k => s[i] # s[k]
    BY <2>1 DEF SetToSeqs
  <2>5. s \in Seq(T) /\ Len(s) = Cardinality(T)
    BY <2>3, <2>4
  <2>6. s \in Seq(S) /\ s \in Seq(Node)
    BY <2>2, <2>5
  <2> QED BY <2>4, <2>5, <2>6 DEF IsPath
<1>2. ASSUME IsPath(s), s \in Seq(S) PROVE s \in SetToAllKPermutations(S)
  <2>1. Cardinality(Range(s)) = Len(s) /\ Range(s) \subseteq S
    BY <1>2, PathFits, RangeIs
  <2>2. s \in [1..Len(s) -> Range(s)]
    BY <1>2, RangeIs
  <2>3. \A i, k \in 1..Len(s) : i # k => s[i] # s[k]
    BY <1>2 DEF IsPath
  <2>4. s \in SetToSeqs(Range(s))
    BY <2>1, <2>2, <2>3 DEF SetToSeqs
  <2> QED BY <2>1, <2>4 DEF SetToAllKPermutations
<1> QED BY <1>1, <1>2

\* A thread links some of its blocks.
LEMMA GatherStep ==
    ASSUME TypeOK, NEW shared, NEW own, NEW owner, Shape(shared, own, owner), NEW t \in Thread,
           Gather(t)
    PROVE  \E shared2, own2, owner2 :
               Shape(shared2, own2, owner2)' /\ Effect(shared, own, shared2, own2)
<1>1. PICK s \in SetToAllKPermutations(held[t]) :
          /\ s # <<>>
          /\ next_free' =
                [n \in Node |->
                    IF \E i \in 1 .. Len(s) : s[i] = n
                    THEN LET i == CHOOSE j \in 1 .. Len(s) : s[j] = n
                         IN  IF i = Len(s) THEN Null ELSE s[i + 1]
                    ELSE next_free[n]]
          /\ list' = [list EXCEPT ![t] = [first |-> Head(s), last |-> Last(s), count |-> Len(s)]]
          /\ held' = [held EXCEPT ![t] = @ \ Range(s)]
          /\ Accesses(t, Range(s))
  BY DEF Gather
<1>2. pc[t] = "idle" /\ list[t].first = Null /\ UNCHANGED <<head, observed, block, pc>>
  BY DEF Gather
<1>3. /\ s \in Seq(held[t]) /\ s \in Seq(Node) /\ Len(s) \in Nat /\ Len(s) # 0 /\ IsPath(s)
      /\ held[t] \subseteq Node
  <2>1. held[t] \in SUBSET Node
    BY TypeFacts
  <2>2. IsPath(s) /\ s \in Seq(held[t])
    BY <1>1, <2>1, PermutationsArePaths
  <2>3. s \in Seq(Node)
    BY <2>2 DEF IsPath
  <2>4. Len(s) # 0
    BY <1>1, <2>3
  <2> QED BY <2>1, <2>2, <2>3, <2>4
<1>4. Range(s) = {s[i] : i \in 1..Len(s)} /\ Range(s) \subseteq held[t]
  BY <1>3, RangeIs
<1>5. /\ Batch(t, own[t]) /\ own[t] \in Seq(Node) /\ Len(own[t]) \in Nat
      /\ \A i \in 1..Len(own[t]) : own[t][i] \in Node
  BY BatchFacts
<1>6. Range(own[t]) = {}
  <2>1. Len(own[t]) = 0
    BY <1>2, <1>5, NodeAssumption DEF Batch, At
  <2> QED BY <1>5, <2>1, RangeIs
<1>7. \A n \in held[t] : owner[n] = t
  BY DEF Shape, HeldOwned
<1>8. OnlyMoves(t, owner)
  <2>1. \A n \in Node : n \notin Range(s) => next_free'[n] = next_free[n]
    BY <1>1, <1>4
  <2>2. \A n \in Node : owner[n] # t => next_free'[n] = next_free[n]
    BY <1>4, <1>7, <2>1
  <2>3. \A u \in Thread \ {t} : list'[u] = list[u] /\ held'[u] = held[u]
    BY <1>1, TypeFacts
  <2> QED BY <1>2, <2>2, <2>3 DEF OnlyMoves
<1>9. Ordered(owner)'
  BY <1>1, <1>4, <1>7, AccessKeepsOrder DEF Shape
<1>10. \A i \in 1..Len(s) : next_free'[s[i]] = IF i = Len(s) THEN Null ELSE s[i + 1]
  <2> TAKE i \in 1..Len(s)
  <2>1. s[i] \in Node
    BY <1>3
  <2>2. (CHOOSE j \in 1 .. Len(s) : s[j] = s[i]) = i
    BY <1>3 DEF IsPath
  <2> QED BY <1>1, <2>1, <2>2
<1>11. Batch(t, s)'
  <2>1. list'[t] = [first |-> s[1], last |-> s[Len(s)], count |-> Len(s)] /\ pc'[t] = "idle"
    BY <1>1, <1>2, <1>3, TypeFacts DEF Last
  <2>2. At(s, 1) = s[1] /\ At(s, Len(s)) = s[Len(s)] /\ Len(s) \in 1..Len(s)
    BY <1>3 DEF At
  <2>3. \A i \in 1..(Len(s) - 1) : next_free'[s[i]] = s[i + 1]
    <3> TAKE i \in 1..(Len(s) - 1)
    <3>1. i \in 1..Len(s) /\ i # Len(s)
      BY <1>3
    <3> QED BY <1>10, <3>1
  <2>4. next_free'[s[Len(s)]] = Null
    BY <1>10, <2>2
  <2> QED BY <1>3, <2>1, <2>2, <2>3, <2>4 DEF Batch
<1>12. held'[t] = held[t] \ Range(s)
  BY <1>1, TypeFacts
<1>13. \A i \in 1..Len(s) : owner[s[i]] = t /\ s[i] \notin held'[t]
  BY <1>4, <1>7, <1>12
<1>14. held'[t] \cup Range(s) = held[t] \cup Range(own[t])
  BY <1>4, <1>6, <1>12
<1>15. \A n \in held'[t] : owner[n] = t
  BY <1>7, <1>12
<1> QED BY <1>2, <1>3, <1>8, <1>9, <1>11, <1>13, <1>14, <1>15, PrivateStep

\* A thread keeps a prefix of its list.
LEMMA TakePrefixStep ==
    ASSUME TypeOK, NEW shared, NEW own, NEW owner, Shape(shared, own, owner), NEW t \in Thread,
           NEW n \in Nat \ {0}, TakePrefix(t, n)
    PROVE  /\ \E shared2, own2, owner2 :
                  Shape(shared2, own2, owner2)' /\ Effect(shared, own, shared2, own2)
           /\ next_free' \in [Node -> Address] /\ list' \in [Thread -> TransferList]
           /\ held' \in [Thread -> SUBSET Node]
<1>1. PICK s : s = own[t]
  OBVIOUS
<1>2. PICK k : k = PrefixLength(list[t], n)
  OBVIOUS
<1>3. /\ Batch(t, s) /\ s \in Seq(Node) /\ Len(s) \in Nat /\ IsPath(s)
      /\ \A i \in 1..Len(s) : s[i] \in Node /\ owner[s[i]] = t /\ s[i] \notin held[t]
  BY <1>1, BatchFacts
<1>4. pc[t] = "idle" /\ list[t].first # Null /\ UNCHANGED <<head, observed, block, pc>>
  BY DEF TakePrefix
<1>5. Len(s) # 0 /\ list[t].count = Len(s) /\ list[t].first = At(s, 1) /\ list[t].last = s[Len(s)]
  BY <1>3, <1>4 DEF Batch, At
<1>6. k \in 1..Len(s)
  BY <1>2, <1>3, <1>5 DEF PrefixLength
<1>7. Steps(next_free, list[t].first, k) = [i \in 1..k |-> s[i]]
  <2>1. \A i \in 1..(Len(s) - 1) : next_free[s[i]] = s[i + 1]
    BY <1>3 DEF Batch
  <2>2. k \in 0..Len(s)
    BY <1>6
  <2>3. Steps(next_free, At(s, 1), k) = Prefix(s, k)
    BY <1>3, <2>1, <2>2, StepsOfPath
  <2> QED BY <1>5, <2>3 DEF Prefix
<1>8. PrefixLast(next_free, list[t], n) = s[k]
  BY <1>2, <1>6, <1>7 DEF PrefixLast
<1>9. PICK r : r = [i \in 1..(Len(s) - k) |-> s[k + i]]
  OBVIOUS
<1>10. PICK p : p = [i \in 1..k |-> s[i]]
  OBVIOUS
<1>11. /\ r \in Seq(Node) /\ Len(r) = Len(s) - k /\ \A i \in 1..Len(r) : r[i] = s[k + i]
       /\ Len(r) \in Nat
  <2>1. Len(s) - k \in Nat /\ \A i \in 1..(Len(s) - k) : k + i \in 1..Len(s)
    BY <1>3, <1>6
  <2>2. \A i \in 1..(Len(s) - k) : s[k + i] \in Node
    BY <1>3, <2>1
  <2>3. r \in [1..(Len(s) - k) -> Node]
    BY <1>9, <2>2
  <2> QED BY <1>9, <2>1, <2>3
<1>12. p \in Seq(Node) /\ Len(p) = k /\ \A i \in 1..k : p[i] = s[i]
  <2>1. k \in Nat /\ \A i \in 1..k : i \in 1..Len(s)
    BY <1>3, <1>6
  <2>2. p \in [1..k -> Node]
    BY <1>3, <1>10, <2>1
  <2> QED BY <1>10, <2>1, <2>2
<1>13. next_free' = [next_free EXCEPT ![s[k]] = Null] /\ next_free' \in [Node -> Address]
  BY <1>8, TypeFacts DEF TakePrefix, CutMemory, Address
<1>14. s[k] \in Node /\ \A i \in 1..Len(s) : i # k => s[i] # s[k]
  BY <1>3, <1>6 DEF IsPath
<1>15. next_free[s[k]] = At(r, 1)
  <2>1. CASE k = Len(s)
    <3>1. 1 \notin 1..Len(r)
      BY <1>3, <1>11, <2>1
    <3> QED BY <1>3, <1>4, <1>5, <2>1, <3>1 DEF Batch, At
  <2>2. CASE k # Len(s)
    <3>1. k \in 1..(Len(s) - 1) /\ 1 \in 1..Len(r)
      BY <1>3, <1>6, <1>11, <2>2
    <3> QED BY <1>3, <1>11, <3>1 DEF Batch, At
  <2> QED BY <2>1, <2>2
<1>16. Chain(next_free', list[t].first, p)
  <2>1. IsPath(p)
    <3>1. \A i \in 1..k : i \in 1..Len(s)
      BY <1>3, <1>6
    <3> QED BY <1>3, <1>12, <3>1 DEF IsPath
  <2>2. list[t].first = At(p, 1)
    BY <1>3, <1>5, <1>6, <1>12 DEF At
  <2>3. ASSUME NEW i \in 1..k PROVE next_free'[p[i]] = At(p, i + 1)
    <3>1. CASE i = k
      <4>1. i + 1 \notin 1..k
        BY <1>6, <3>1
      <4> QED BY <1>12, <1>13, <1>14, <3>1, <4>1, TypeFacts DEF At
    <3>2. CASE i # k
      <4>1. i + 1 \in 1..k /\ i \in 1..(Len(s) - 1) /\ i \in 1..Len(s)
        BY <1>3, <1>6, <3>2
      <4>2. next_free[s[i]] = s[i + 1]
        BY <1>3, <4>1 DEF Batch
      <4>3. s[i] # s[k] /\ s[i] \in Node
        BY <1>3, <1>14, <3>2, <4>1
      <4>4. next_free'[s[i]] = next_free[s[i]]
        BY <1>13, <4>3, TypeFacts
      <4> QED BY <1>12, <4>1, <4>2, <4>4 DEF At
    <3> QED BY <3>1, <3>2
  <2> QED BY <1>12, <2>1, <2>2, <2>3 DEF Chain
<1>17. Contents(next_free', list[t].first) = p
  BY <1>16, ContentsOfChain
<1>18. held' = [held EXCEPT ![t] = @ \cup Range(p)]
  BY <1>17 DEF TakePrefix
<1>19. Accesses(t, Range(p))
  BY <1>2, <1>7, <1>10 DEF TakePrefix
<1>20. Range(p) = {s[i] : i \in 1..k} /\ Range(p) \subseteq Node
  BY <1>12, RangeIs
<1>21. \A i \in 1..k : i \in 1..Len(s)
  BY <1>3, <1>6
<1>22. held'[t] = held[t] \cup Range(p) /\ held' \in [Thread -> SUBSET Node]
  BY <1>18, <1>20, TypeFacts
<1>23. \A m \in Range(p) : owner[m] = t
  BY <1>3, <1>20, <1>21
<1>24. /\ list' = [list EXCEPT ![t] = RestOfList(next_free, list[t], n)]
       /\ RestOfList(next_free, list[t], n) =
              [first |-> next_free[s[k]],
               last  |-> IF next_free[s[k]] = Null THEN Null ELSE list[t].last,
               count |-> Len(s) - k]
  BY <1>2, <1>5, <1>8 DEF TakePrefix, RestOfList
<1>25. next_free[s[k]] \in Address /\ list[t].last \in Address /\ Len(s) - k \in Nat
  BY <1>3, <1>6, <1>14, TypeFacts DEF TransferList
<1>26. list' \in [Thread -> TransferList]
  <2>1. RestOfList(next_free, list[t], n) \in TransferList
    BY <1>24, <1>25 DEF TransferList, Address
  <2> QED BY <1>24, <2>1, TypeFacts
<1>27. OnlyMoves(t, owner)
  <2>1. \A u \in Thread \ {t} : list'[u] = list[u] /\ held'[u] = held[u]
    BY <1>18, <1>24, TypeFacts
  <2>2. owner[s[k]] = t
    BY <1>3, <1>6
  <2>3. \A m \in Node : owner[m] # t => next_free'[m] = next_free[m]
    BY <1>13, <2>2, TypeFacts
  <2> QED BY <1>4, <2>1, <2>3 DEF OnlyMoves
<1>28. Ordered(owner)'
  BY <1>19, <1>23, AccessKeepsOrder DEF Shape
<1>29. \A i \in 1..Len(r) : k + i \in 1..Len(s) /\ k + i # k
  BY <1>3, <1>6, <1>11
<1>30. IsPath(r)
  <2> SUFFICES ASSUME NEW i \in 1..Len(r), NEW j \in 1..Len(r), r[i] = r[j] PROVE i = j
    BY <1>11 DEF IsPath
  <2>1. s[k + i] = s[k + j] /\ k + i \in 1..Len(s) /\ k + j \in 1..Len(s)
    BY <1>11, <1>29
  <2>2. k + i = k + j
    BY <1>3, <2>1 DEF IsPath
  <2>3. k \in Int /\ i \in Int /\ j \in Int
    BY <1>6
  <2> QED BY <2>2, <2>3
<1>31. \A i \in 1..Len(r) : next_free'[r[i]] = At(r, i + 1)
  <2> TAKE i \in 1..Len(r)
  <2>1. r[i] = s[k + i] /\ s[k + i] \in Node /\ s[k + i] # s[k]
    BY <1>3, <1>11, <1>14, <1>29
  <2>2. next_free'[r[i]] = next_free[s[k + i]]
    BY <1>13, <2>1, TypeFacts
  <2>3. CASE i = Len(r)
    <3>1. k + i = Len(s) /\ i + 1 \notin 1..Len(r)
      BY <1>3, <1>6, <1>11, <2>3
    <3> QED BY <1>3, <1>4, <1>5, <2>2, <3>1 DEF Batch, At
  <2>4. CASE i # Len(r)
    <3>1. k + i \in 1..(Len(s) - 1) /\ i + 1 \in 1..Len(r) /\ (k + i) + 1 = k + (i + 1)
      <4>1. k \in 1..Len(s) /\ Len(s) \in Nat /\ Len(r) = Len(s) - k
        BY <1>3, <1>6, <1>11
      <4>2. i \in 1..(Len(s) - k) /\ i # Len(s) - k
        BY <2>4, <4>1
      <4>3. k + i \in 1..(Len(s) - 1) /\ (k + i) + 1 = k + (i + 1)
        BY <4>1, <4>2
      <4>4. i + 1 \in 1..(Len(s) - k)
        BY <4>1, <4>2
      <4> QED BY <4>1, <4>3, <4>4
    <3>2. next_free[s[k + i]] = s[(k + i) + 1]
      BY <1>3, <3>1 DEF Batch
    <3> QED BY <1>11, <2>2, <3>1, <3>2 DEF At
  <2> QED BY <2>3, <2>4
<1>32. Batch(t, r)'
  <2>1. list'[t].first = At(r, 1) /\ list'[t].count = Len(r) /\ pc'[t] = "idle"
    BY <1>4, <1>11, <1>15, <1>24, TypeFacts
  <2>2. list'[t].last = At(r, Len(r))
    <3>1. list'[t].last = IF next_free[s[k]] = Null THEN Null ELSE s[Len(s)]
      BY <1>5, <1>24, TypeFacts
    <3>2. CASE Len(r) = 0
      BY <1>15, <3>1, <3>2 DEF At
    <3>3. CASE Len(r) # 0
      <4>1. 1 \in 1..Len(r) /\ Len(r) \in 1..Len(r) /\ k + Len(r) = Len(s)
        BY <1>3, <1>6, <1>11, <3>3
      <4>2. next_free[s[k]] = r[1] /\ r[1] \in Node
        BY <1>11, <1>15, <4>1 DEF At
      <4> QED BY <1>11, <3>1, <4>1, <4>2, NodeAssumption DEF At
    <3> QED BY <3>2, <3>3
  <2>3. \A i \in 1..(Len(r) - 1) : next_free'[r[i]] = r[i + 1]
    <3> TAKE i \in 1..(Len(r) - 1)
    <3>1. i \in 1..Len(r) /\ i + 1 \in 1..Len(r)
      BY <1>11
    <3> QED BY <1>31, <3>1 DEF At
  <2>4. Len(r) # 0 => next_free'[r[Len(r)]] = Null
    <3> HAVE Len(r) # 0
    <3>1. Len(r) \in 1..Len(r) /\ Len(r) + 1 \notin 1..Len(r)
      BY <1>11
    <3> QED BY <1>31, <3>1 DEF At
  <2> QED BY <1>30, <2>1, <2>2, <2>3, <2>4 DEF Batch
<1>33. \A i \in 1..Len(r) : owner[r[i]] = t /\ r[i] \notin held'[t]
  <2> TAKE i \in 1..Len(r)
  <2>1. owner[r[i]] = t /\ r[i] \notin held[t]
    BY <1>3, <1>11, <1>29
  <2>2. r[i] \notin Range(p)
    <3>1. \A j \in 1..k : j # k + i
      BY <1>6
    <3> QED BY <1>3, <1>11, <1>20, <1>21, <1>29, <3>1 DEF IsPath
  <2> QED BY <1>22, <2>1, <2>2
<1>34. held'[t] \cup Range(r) = held[t] \cup Range(own[t])
  <2>1. Range(s) = {s[i] : i \in 1..Len(s)} /\ Range(r) = {r[i] : i \in 1..Len(r)}
    BY <1>3, <1>11, RangeIs
  <2>2. \A i \in 1..Len(s) : i \in 1..k \/ (i - k \in 1..Len(r) /\ i = k + (i - k))
    BY <1>3, <1>6, <1>11
  <2>3. Range(s) = Range(p) \cup Range(r)
    <3>1. Range(r) \subseteq Range(s)
      BY <1>11, <1>29, <2>1
    <3>2. Range(p) \subseteq Range(s)
      BY <1>20, <1>21, <2>1
    <3>3. ASSUME NEW i \in 1..Len(s) PROVE s[i] \in Range(p) \cup Range(r)
      <4>1. CASE i \in 1..k
        BY <1>20, <4>1
      <4>2. CASE i - k \in 1..Len(r) /\ i = k + (i - k)
        <5>1. r[i - k] = s[i]
          BY <1>11, <4>2
        <5> QED BY <2>1, <4>2, <5>1
      <4> QED BY <2>2, <4>1, <4>2
    <3> QED BY <2>1, <3>1, <3>2, <3>3
  <2> QED BY <1>1, <1>22, <2>3
<1>35. \A m \in held'[t] : owner[m] = t
  BY <1>22, <1>23 DEF Shape, HeldOwned
<1>36. \E shared2, own2, owner2 :
           Shape(shared2, own2, owner2)' /\ Effect(shared, own, shared2, own2)
  BY <1>4, <1>11, <1>27, <1>28, <1>32, <1>33, <1>34, <1>35, PrivateStep
<1> QED BY <1>13, <1>22, <1>26, <1>36

-----------------------------------------------------------------------------

\* A step keeps every variable in its type.
LEMMA TypeStep ==
    ASSUME TypeOK, NEW shared, NEW own, NEW owner, Shape(shared, own, owner), [Next]_vars
    PROVE  TypeOK'
<1>0. Null \in Address /\ Node \subseteq Address
  BY DEF Address
<1>1. ASSUME NEW t \in Thread, NEW S \in SUBSET Node, Accesses(t, S)
      PROVE  ordered_before' \in [Node -> SUBSET Thread] /\ released' \subseteq Node
  BY <1>1 DEF Accesses, TypeOK
<1>2. ASSUME NEW t \in Thread, Gather(t) PROVE TypeOK'
  <2>1. PICK s \in SetToAllKPermutations(held[t]) :
            /\ s # <<>>
            /\ next_free' =
                  [n \in Node |->
                      IF \E i \in 1 .. Len(s) : s[i] = n
                      THEN LET i == CHOOSE j \in 1 .. Len(s) : s[j] = n
                           IN  IF i = Len(s) THEN Null ELSE s[i + 1]
                      ELSE next_free[n]]
            /\ list' = [list EXCEPT ![t] = [first |-> Head(s), last |-> Last(s), count |-> Len(s)]]
            /\ held' = [held EXCEPT ![t] = @ \ Range(s)]
            /\ Accesses(t, Range(s))
    BY <1>2 DEF Gather
  <2>2. held[t] \in SUBSET Node
    BY TypeFacts
  <2>3. s \in Seq(Node) /\ Len(s) \in Nat
    BY <2>1, <2>2, PermutationsArePaths DEF IsPath
  <2>4. Len(s) # 0 /\ Range(s) \subseteq Node
    BY <2>1, <2>3, RangeIs
  <2>5. list' \in [Thread -> TransferList]
    <3>1. Head(s) \in Address /\ Last(s) \in Address
      BY <1>0, <2>3, <2>4 DEF Last
    <3>2. [first |-> Head(s), last |-> Last(s), count |-> Len(s)] \in TransferList
      BY <2>3, <3>1 DEF TransferList
    <3> QED BY <2>1, <3>2, TypeFacts
  <2>6. next_free' \in [Node -> Address]
    <3>1. ASSUME NEW n \in Node PROVE next_free'[n] \in Address
      <4>1. CASE \E i \in 1 .. Len(s) : s[i] = n
        <5> DEFINE j == CHOOSE j \in 1 .. Len(s) : s[j] = n
        <5>1. j \in 1..Len(s)
          BY <4>1
        <5>2. next_free'[n] = IF j = Len(s) THEN Null ELSE s[j + 1]
          BY <2>1, <4>1
        <5> HIDE DEF j
        <5>3. j = Len(s) \/ j + 1 \in 1..Len(s)
          BY <2>3, <5>1
        <5> QED BY <1>0, <2>3, <5>2, <5>3
      <4>2. CASE ~ \E i \in 1 .. Len(s) : s[i] = n
        BY <2>1, <4>2, TypeFacts
      <4> QED BY <4>1, <4>2
    <3>2. next_free' = [n \in Node |-> next_free'[n]]
      BY <2>1
    <3> QED BY <3>1, <3>2
  <2>7. held' \in [Thread -> SUBSET Node]
    BY <2>1, TypeFacts
  <2>8. ordered_before' \in [Node -> SUBSET Thread] /\ released' \subseteq Node
    BY <1>1, <2>1, <2>4
  <2> QED BY <1>2, <2>5, <2>6, <2>7, <2>8 DEF Gather, TypeOK
<1>3. ASSUME NEW t \in Thread, NEW n \in 1 .. Cardinality(Node), TakePrefix(t, n) PROVE TypeOK'
  <2>1. n \in Nat \ {0}
    BY NodeAssumption, FS_CardinalityType
  <2>2. /\ next_free' \in [Node -> Address] /\ list' \in [Thread -> TransferList]
        /\ held' \in [Thread -> SUBSET Node]
    BY <1>3, <2>1, TakePrefixStep
  <2>3. ordered_before' \in [Node -> SUBSET Thread] /\ released' \subseteq Node
    BY <1>3 DEF TakePrefix, Accesses, TypeOK
  <2> QED BY <1>3, <2>2, <2>3 DEF TakePrefix, TypeOK
<1>4. ASSUME NEW t \in Thread, LoadHead(t) \/ CasFails(t) \/ DetachReturns(t) PROVE TypeOK'
  BY <1>4 DEF LoadHead, CasFails, DetachReturns, TypeOK, memoryVars
<1>5. ASSUME NEW t \in Thread, LinkTail(t) PROVE TypeOK'
  BY <1>5 DEF LinkTail, Accesses, TypeOK
<1>6. ASSUME NEW t \in Thread, CasSucceeds(t) PROVE TypeOK'
  <2>1. EmptyList \in TransferList /\ list[t].first \in Address
    BY <1>0, TypeFacts DEF EmptyList, TransferList
  <2> QED BY <1>0, <1>6, <2>1 DEF CasSucceeds, Release, TypeOK
<1>7. ASSUME NEW t \in Thread, Exchange(t) PROVE TypeOK'
  <2>1. list' \in [Thread -> TransferList]
    BY <1>7, TypeFacts DEF Exchange, TransferList, TypeOK
  <2> QED BY <1>0, <1>7, <2>1 DEF Exchange, Acquire, TypeOK
<1>8. ASSUME NEW t \in Thread, WalkChain(t) PROVE TypeOK'
  <2>1. block[t] \in Node
    BY <1>8, TypeFacts DEF WalkChain, Address
  <2>2. list' \in [Thread -> TransferList] /\ block' \in [Thread -> Address]
    BY <1>0, <1>8, <2>1, TypeFacts DEF WalkChain, TransferList
  <2>3. ordered_before' \in [Node -> SUBSET Thread] /\ released' \subseteq Node
    BY <1>1, <1>8, <2>1 DEF WalkChain
  <2> QED BY <1>8, <2>2, <2>3 DEF WalkChain, TypeOK
<1>9. CASE UNCHANGED vars
  BY <1>9 DEF vars, memoryVars, TypeOK
<1> QED BY <1>2, <1>3, <1>4, <1>5, <1>6, <1>7, <1>8, <1>9 DEF Next, Step, Call

\* Every step keeps the shape and publishes a batch, detaches the chain or does neither.
LEMMA ShapeStep ==
    ASSUME TypeOK, NEW shared, NEW own, NEW owner, Shape(shared, own, owner), [Next]_vars
    PROVE  \E shared2, own2, owner2 :
               Shape(shared2, own2, owner2)' /\ Effect(shared, own, shared2, own2)
<1>1. ASSUME NEW t \in Thread, NEW n \in 1 .. Cardinality(Node), TakePrefix(t, n)
      PROVE  \E shared2, own2, owner2 :
                 Shape(shared2, own2, owner2)' /\ Effect(shared, own, shared2, own2)
  <2>1. n \in Nat \ {0}
    BY NodeAssumption, FS_CardinalityType
  <2> QED BY <1>1, <2>1, TakePrefixStep
<1>2. CASE UNCHANGED vars
  <2>1. Shape(shared, own, owner)'
    BY <1>2 DEF vars, memoryVars, Shape, Published, Batches, Batch, HeldOwned, Ordered
  <2>2. Effect(shared, own, shared, own)
    BY <1>2 DEF vars, Effect, Private
  <2> QED BY <2>1, <2>2
<1> QED
  BY <1>1, <1>2, GatherStep, LoadHeadStep, LinkTailStep, CasSucceedsStep, CasFailsStep,
     ExchangeStep, WalkChainStep, DetachReturnsStep DEF Next, Step, Call

\* At first the list is empty and every block has an owner.
LEMMA InitShape ==
    ASSUME Init
    PROVE  /\ TypeOK
           /\ \E own, owner : /\ Shape(<<>>, own, owner) /\ owner \in [Node -> Thread]
                              /\ Private(own) = [t \in Thread |-> {n \in Node : owner[n] = t}]
<1>1. PICK owner \in [Node -> Thread] :
          /\ held = [t \in Thread |-> {n \in Node : owner[n] = t}]
          /\ ordered_before = [n \in Node |-> {owner[n]}]
  BY DEF Init
<1>2. PICK own : own = [t \in Thread |-> <<>>]
  OBVIOUS
<1>3. IsPath(<<>>) /\ Len(<<>>) = 0 /\ Range(<<>>) = {} /\ <<>> \in Seq(Node)
  BY DEF IsPath, Range
<1>4. At(<<>>, 1) = Null /\ At(<<>>, 0) = Null /\ \A i \in 1..0 : FALSE
  BY <1>3 DEF At
<1>5. TypeOK
  BY <1>1 DEF Init, TypeOK, Address, EmptyList, TransferList
<1>6. Published(<<>>, owner)
  BY <1>3, <1>4 DEF Init, Published, Chain
<1>7. Batches(own, owner)
  <2>1. ASSUME NEW t \in Thread PROVE Batch(t, <<>>)
    <3>1. list[t] = EmptyList /\ pc[t] = "idle"
      BY DEF Init
    <3>2. \A i \in 1..(Len(<<>>) - 1) : FALSE
      BY <1>3
    <3> QED BY <1>3, <1>4, <3>1, <3>2 DEF Batch, EmptyList
  <2>2. own \in [Thread -> Seq(Node)] /\ \A t \in Thread : own[t] = <<>>
    BY <1>2, <1>3
  <2>3. \A t \in Thread : Batch(t, own[t])
    BY <2>1, <2>2
  <2>4. \A t \in Thread : 1..Len(own[t]) = {}
    BY <1>3, <2>2
  <2> QED BY <2>2, <2>3, <2>4 DEF Batches
<1>8. HeldOwned(owner) /\ Ordered(owner)
  BY <1>1, NobodyIsNoThread DEF HeldOwned, Ordered
<1>9. Private(own) = [t \in Thread |-> {n \in Node : owner[n] = t}]
  BY <1>1, <1>2, <1>3 DEF Private
<1> QED BY <1>1, <1>5, <1>6, <1>7, <1>8, <1>9 DEF Shape

\* The inductive invariant of the lock-free transfer list.
THEOREM TransferInvariant == Spec => []IInv
<1>1. Init => IInv
  BY InitShape DEF IInv
<1>2. IInv /\ [Next]_vars => IInv'
  <2> SUFFICES ASSUME IInv, [Next]_vars PROVE IInv'
    OBVIOUS
  <2>1. PICK shared, own, owner : Shape(shared, own, owner)
    BY DEF IInv
  <2>2. TypeOK'
    BY <2>1, TypeStep DEF IInv
  <2>3. PICK shared2, own2, owner2 : Shape(shared2, own2, owner2)'
    BY <2>1, ShapeStep DEF IInv
  <2> QED BY <2>2, <2>3 DEF IInv
<1> QED BY <1>1, <1>2, PTL DEF Spec

\* Every variable keeps its type; no count of a descriptor wraps (src/transfer_list.h:66).
THEOREM TypeCorrect == Spec => []TypeOK
<1>1. IInv => TypeOK
  BY DEF IInv
<1> QED BY <1>1, TransferInvariant, PTL

-----------------------------------------------------------------------------
(***************************************************************************)
(* What follows from the shape.                                            *)
(***************************************************************************)

\* The batch of an idle or detaching thread is a whole chain.
LEMMA BatchChain ==
    ASSUME NEW shared, NEW own, NEW owner, Shape(shared, own, owner), NEW t \in Thread,
           pc[t] \in {"idle", "walk"}
    PROVE  Contents(next_free, list[t].first) = own[t]
<1> DEFINE s == own[t]
<1>1. Batch(t, s) /\ s \in Seq(Node) /\ Len(s) \in Nat /\ IsPath(s)
  BY BatchFacts
<1> HIDE DEF s
<1>2. ASSUME NEW i \in 1..Len(s) PROVE next_free[s[i]] = At(s, i + 1)
  <2>1. CASE i = Len(s)
    <3>1. i + 1 \notin 1..Len(s) /\ Len(s) # 0
      BY <1>1, <2>1
    <3> QED BY <1>1, <2>1, <3>1 DEF Batch, At
  <2>2. CASE i # Len(s)
    <3>1. i \in 1..(Len(s) - 1) /\ i + 1 \in 1..Len(s)
      BY <1>1, <2>2
    <3> QED BY <1>1, <3>1 DEF Batch, At
  <2> QED BY <2>1, <2>2
<1>3. Chain(next_free, list[t].first, s)
  BY <1>1, <1>2 DEF Chain, Batch
<1>4. Contents(next_free, list[t].first) = s
  BY <1>3, ContentsOfChain
<1> QED BY <1>4 DEF s

\* What a thread touches is its own.
LEMMA TouchesOwn ==
    ASSUME TypeOK, NEW shared, NEW own, NEW owner, Shape(shared, own, owner), NEW t \in Thread,
           NEW n \in Touches(t)
    PROVE  n \in Node /\ owner[n] = t
<1> DEFINE s == own[t]
<1>1. /\ Batch(t, s) /\ s \in Seq(Node) /\ Len(s) \in Nat
      /\ \A i \in 1..Len(s) : s[i] \in Node /\ owner[s[i]] = t
  BY BatchFacts
<1>2. pc[t] \in {"idle", "walk"} => Contents(next_free, list[t].first) = s
  BY BatchChain
<1> HIDE DEF s
<1>3. Range(s) = {s[i] : i \in 1..Len(s)}
  BY <1>1, RangeIs
<1>4. ASSUME n \in held[t] PROVE n \in Node /\ owner[n] = t
  BY <1>4, TypeFacts DEF Shape, HeldOwned
<1>5. CASE pc[t] = "idle"
  BY <1>1, <1>2, <1>3, <1>4, <1>5 DEF Touches
<1>6. CASE pc[t] = "link"
  <2>1. Len(s) \in 1..Len(s)
    BY <1>1, <1>6 DEF Batch
  <2>2. list[t].last = s[Len(s)]
    BY <1>1, <1>6, <2>1 DEF Batch, At
  <2> QED BY <1>1, <1>4, <1>6, <2>1, <2>2 DEF Touches
<1>7. CASE pc[t] = "cas"
  BY <1>4, <1>7 DEF Touches
<1>8. CASE pc[t] = "walk"
  <2>1. block[t] = At(s, list[t].count + 1)
    BY <1>1, <1>8 DEF Batch
  <2>2. block[t] = Null \/ \E i \in 1..Len(s) : block[t] = s[i]
    BY <2>1 DEF At
  <2> QED BY <1>1, <1>4, <1>8, <2>2 DEF Touches
<1>9. pc[t] \in {"idle", "link", "cas", "walk"}
  BY TypeFacts
<1> QED BY <1>5, <1>6, <1>7, <1>8, <1>9

\* No data race on a link, for any number of threads and blocks: whoever reads
\* or writes one happens after every earlier access of the others, with release
\* on the exchange of hplf_transfer_atomic_publish, acquire on that of
\* hplf_transfer_atomic_detach and nothing else.
THEOREM LinksNeverRace == Spec => []NoDataRace
<1>1. IInv => NoDataRace
  <2> SUFFICES ASSUME IInv, NEW t \in Thread, NEW n \in Touches(t)
               PROVE  t \in ordered_before[n]
    BY DEF NoDataRace
  <2>1. PICK shared, own, owner : Shape(shared, own, owner)
    BY DEF IInv
  <2>2. n \in Node /\ owner[n] = t
    BY <2>1, TouchesOwn DEF IInv
  <2> QED BY <2>1, <2>2, NobodyIsNoThread DEF Shape, Ordered
<1> QED BY <1>1, TransferInvariant, PTL

\* A descriptor at rest counts exactly the blocks of the chain it starts and
\* names its last one, after any history of publications, detachments and
\* prefixes taken (hplf_transfer_list_from_chain, hplf_transfer_list_take_prefix).
THEOREM DescriptorsStayExact == Spec => []DescriptorsExact
<1>1. IInv => DescriptorsExact
  <2> SUFFICES ASSUME IInv, NEW t \in Thread, pc[t] = "idle"
               PROVE  Describes(next_free, list[t], Contents(next_free, list[t].first))
    BY DEF DescriptorsExact
  <2>1. PICK shared, own, owner : Shape(shared, own, owner)
    BY DEF IInv
  <2> DEFINE s == own[t]
  <2>2. Batch(t, s) /\ s \in Seq(Node) /\ Len(s) \in Nat
    BY <2>1, BatchFacts
  <2>3. Contents(next_free, list[t].first) = s
    BY <2>1, BatchChain
  <2> HIDE DEF s
  <2>4. list[t].count = Len(s) /\ list[t].last = At(s, Len(s))
    BY <2>2 DEF Batch
  <2>5. list[t].last = IF s = <<>> THEN Null ELSE s[Len(s)]
    <3>1. CASE s = <<>>
      <4>1. Len(s) = 0
        BY <3>1
      <4> QED BY <2>4, <3>1, <4>1 DEF At
    <3>2. CASE s # <<>>
      <4>1. Len(s) \in 1..Len(s)
        BY <2>2, <3>2
      <4> QED BY <2>4, <3>2, <4>1 DEF At
    <3> QED BY <3>1, <3>2
  <2> QED BY <2>3, <2>4, <2>5 DEF Describes
<1> QED BY <1>1, TransferInvariant, PTL

-----------------------------------------------------------------------------
(***************************************************************************)
(* The list implements the exchange.                                       *)
(***************************************************************************)

\* The refinement mapping yields the published chain and what the threads own.
Abstracts ==
    \A shared, own, owner :
        TypeOK /\ Shape(shared, own, owner) =>
            /\ Contents(next_free, head) = shared
            /\ [t \in Thread |-> OwnedBy(t)] = Private(own)

\* The refinement mapping yields exactly the chain and the batches of the shape.
LEMMA MappingExact == Abstracts
<1> SUFFICES ASSUME TypeOK, NEW shared, NEW own, NEW owner, Shape(shared, own, owner)
             PROVE  /\ Contents(next_free, head) = shared
                    /\ [t \in Thread |-> OwnedBy(t)] = Private(own)
  BY DEF Abstracts
<1>1. Contents(next_free, head) = shared
  BY ContentsOfChain DEF Shape, Published
<1>2. ASSUME NEW t \in Thread PROVE OwnedBy(t) = held[t] \cup Range(own[t])
  <2>1. CASE pc[t] = "walk"
    BY <2>1, BatchChain DEF OwnedBy
  <2>2. CASE pc[t] # "walk"
    <3> DEFINE s == own[t]
    <3>1. Batch(t, s) /\ s \in Seq(Node) /\ Len(s) \in Nat /\ IsPath(s)
      BY BatchFacts
    <3> HIDE DEF s
    <3>2. list[t].first = At(s, 1) /\ list[t].count = Len(s) /\ Len(s) \in 0..Len(s)
      BY <2>2, <3>1 DEF Batch
    <3>3. Steps(next_free, list[t].first, list[t].count) = Prefix(s, Len(s))
      <4>1. \A i \in 1..(Len(s) - 1) : next_free[s[i]] = s[i + 1]
        BY <3>1 DEF Batch
      <4>2. Steps(next_free, At(s, 1), Len(s)) = Prefix(s, Len(s))
        BY <3>1, <3>2, <4>1, StepsOfPath
      <4> QED BY <3>2, <4>2
    <3>4. Prefix(s, Len(s)) = s
      BY <3>1 DEF Prefix
    <3>5. OwnedBy(t) = held[t] \cup Range(s)
      BY <2>2, <3>3, <3>4 DEF OwnedBy
    <3> QED BY <3>5 DEF s
  <2> QED BY <2>1, <2>2
<1> QED BY <1>1, <1>2 DEF Private

\* Also after a step.
LEMMA MappingStaysExact == Abstracts => Abstracts'
<1>1. []Abstracts
  BY MappingExact, PTL
<1> QED BY <1>1, PTL

\* The exchange reads sequences with the same operators.
LEMMA SameOperators ==
    /\ \A s : Transfers!Range(s) = Range(s)
    /\ \A S : Transfers!SetToAllKPermutations(S) = SetToAllKPermutations(S)
<1>1. \A S : Transfers!SetToSeqs(S) = SetToSeqs(S)
  <2>1. \A S : Transfers!Cardinality(S) = Cardinality(S)
    BY DEF Transfers!Cardinality, Cardinality
  <2> QED BY <2>1 DEF Transfers!SetToSeqs, SetToSeqs
<1> QED BY <1>1 DEF Transfers!Range, Range, Transfers!SetToAllKPermutations, SetToAllKPermutations

\* Every step of the list publishes a batch, detaches everything or stutters.
LEMMA ExchangeStepMapped ==
    ASSUME IInv, [Next]_vars
    PROVE  [Transfers!Next]_<<Contents(next_free, head), [t \in Thread |-> OwnedBy(t)]>>
<1>1. PICK shared, own, owner : Shape(shared, own, owner)
  BY DEF IInv
<1>2. TypeOK /\ TypeOK'
  BY <1>1, TypeStep DEF IInv
<1>3. PICK shared2, own2, owner2 :
          Shape(shared2, own2, owner2)' /\ Effect(shared, own, shared2, own2)
  BY <1>1, <1>2, ShapeStep
<1>4. Contents(next_free, head) = shared /\ [t \in Thread |-> OwnedBy(t)] = Private(own)
  BY <1>1, <1>2, MappingExact DEF Abstracts
<1>5. /\ Contents(next_free, head)' = shared2
      /\ [t \in Thread |-> OwnedBy(t)]' = Private(own2)'
  <2>1. Abstracts'
    BY MappingExact, MappingStaysExact
  <2> QED BY <1>2, <1>3, <2>1 DEF Abstracts
<1>6. CASE shared2 = shared /\ Private(own2)' = Private(own)
  BY <1>4, <1>5, <1>6
<1>7. ASSUME NEW t \in Thread, Len(own[t]) # 0, shared2 = own[t] \o shared,
             Private(own2)' = [Private(own) EXCEPT ![t] = @ \ Range(own[t])]
      PROVE  Transfers!Publish(t)
  <2>1. own[t] \in Seq(Node) /\ IsPath(own[t]) /\ own[t] # <<>>
    BY <1>1, <1>7, BatchFacts
  <2>2. PICK S : S = held[t] \cup Range(own[t])
    OBVIOUS
  <2>3. Private(own)[t] = S
    BY <2>2 DEF Private
  <2>4. Range(own[t]) \subseteq Node /\ held[t] \subseteq Node
    BY <1>2, <2>1, RangeIs, TypeFacts
  <2>5. own[t] \in Seq(S)
    <3>1. \A i \in 1..Len(own[t]) : own[t][i] \in S
      BY <2>1, <2>2, RangeIs
    <3> QED BY <2>1, <3>1
  <2>6. own[t] \in SetToAllKPermutations(S)
    BY <2>1, <2>2, <2>4, <2>5, PermutationsArePaths
  <2>7. own[t] \in Transfers!Batches(Private(own)[t])
    BY <2>1, <2>3, <2>6, SameOperators DEF Transfers!Batches
  <2> QED BY <1>4, <1>5, <1>7, <2>7, SameOperators DEF Transfers!Publish
<1>8. ASSUME NEW t \in Thread, shared2 = <<>>,
             Private(own2)' = [Private(own) EXCEPT ![t] = @ \cup Range(shared)]
      PROVE  Transfers!Detach(t)
  BY <1>4, <1>5, <1>8, SameOperators DEF Transfers!Detach
<1> QED BY <1>3, <1>6, <1>7, <1>8 DEF Effect, Transfers!Next

\* The lock-free list implements the exchange of ownership that
\* src/transfer_atomic.h promises: a publication takes effect when its
\* compare-and-exchange succeeds, also after the observed head was detached and
\* published again, and a detachment takes everything when it exchanges the head.
THEOREM ListImplementsExchange == Spec => ImplementsExchange
<1>1. Init => Transfers!Init
  <2> SUFFICES ASSUME Init PROVE Transfers!Init
    OBVIOUS
  <2>1. TypeOK
    BY InitShape
  <2>2. PICK own, owner : /\ Shape(<<>>, own, owner) /\ owner \in [Node -> Thread]
                          /\ Private(own) = [t \in Thread |-> {n \in Node : owner[n] = t}]
    BY InitShape
  <2>3. PICK empty : empty = <<>>
    OBVIOUS
  <2>4. Shape(empty, own, owner)
    BY <2>2, <2>3
  <2>5. Contents(next_free, head) = empty /\ [t \in Thread |-> OwnedBy(t)] = Private(own)
    BY <2>1, <2>4, MappingExact DEF Abstracts
  <2> QED BY <2>2, <2>3, <2>5 DEF Transfers!Init
<1>2. IInv /\ [Next]_vars =>
          [Transfers!Next]_<<Contents(next_free, head), [t \in Thread |-> OwnedBy(t)]>>
  BY ExchangeStepMapped
<1> QED
  BY <1>1, <1>2, TransferInvariant, PTL
  DEF Spec, Transfers!Spec, Transfers!exchangeVars, ImplementsExchange
=============================================================================
