-------------------------- MODULE PromInputsProofs --------------------------
(***************************************************************************)
(* Proofs about the Prometheus client and the fetch over it.  The client's *)
(* hold for any number of callers, failures and slots and any cooldown,    *)
(* from ClientAssumption alone; the fetch's for any identities, groups,    *)
(* sizes, signals and limits, whatever queries fail and whoever is asking  *)
(* when: the shards partition the identities within their bounds, and      *)
(* PromInputs implements Inputs.                                           *)
(***************************************************************************)
EXTENDS PromInputs, FiniteSetTheorems, NaturalsInduction, TLAPS

-----------------------------------------------------------------------------
(* The client *)

\* The type invariant and the meaning of the failure count, together
\* inductive: a failure opens the circuit by comparing the count.
IInv == TypeOK /\ OpenIsEarned

LEMMA InitIInv == Init => IInv
  BY ClientAssumption DEF Init, IInv, TypeOK, OpenIsEarned, Enabled, Closed, Places

LEMMA NextIInv ==
  ASSUME IInv, [Next]_vars
  PROVE  IInv'
<1> USE ClientAssumption DEF IInv, TypeOK, OpenIsEarned, Enabled, Closed, Goto
<1>1. ASSUME NEW c \in Callers, allow(c) PROVE IInv'
  BY <1>1 DEF allow, Places
<1>2. ASSUME NEW c \in Callers, TakeSlot(c) PROVE IInv'
  BY <1>2 DEF TakeSlot, Places
<1>3. ASSUME NEW c \in Callers, AbortQueued(c) PROVE IInv'
  BY <1>3 DEF AbortQueued, Places
<1>4. ASSUME NEW c \in Callers, Recheck(c) PROVE IInv'
  BY <1>4 DEF Recheck, Places
<1>5. ASSUME NEW c \in Callers, Succeeds(c) PROVE IInv'
  BY <1>5 DEF Succeeds, Finish, Places
<1>6. ASSUME NEW c \in Callers, Fails(c) PROVE IInv'
  BY <1>6 DEF Fails, Finish, Places
<1>7. ASSUME NEW c \in Callers, AbortedBySibling(c) PROVE IInv'
  BY <1>7 DEF AbortedBySibling, Finish, Places
<1>8. CASE HealthChanges
  BY <1>8 DEF HealthChanges
<1>9. CASE Tick
  BY <1>9 DEF Tick
<1>10. CASE UNCHANGED vars
  BY <1>10 DEF vars
<1>11. QED
  BY <1>1, <1>2, <1>3, <1>4, <1>5, <1>6, <1>7, <1>8, <1>9, <1>10
     DEF Next, Call, Answer

LEMMA Invariant == Spec => []IInv
  BY InitIInv, NextIInv, PTL DEF Spec

\* Every variable keeps its type: the cooldown left never exceeds Cooldown,
\* so the circuit never stays shut for longer without a new failure or probe.
THEOREM TypeCorrect == Spec => []TypeOK
  BY Invariant, PTL DEF IInv

\* The circuit is open exactly while the last MaxFailures answers failed,
\* whatever becomes of the probes it hands out.
THEOREM OpenAlwaysEarned == Spec => []OpenIsEarned
  BY Invariant, PTL DEF IInv

\* No query but the probe's starts while the cooldown runs.
THEOREM OnlyProbes == Spec => OnlyProbesWhileOpen
<1> DEFINE Step == \A c \in Callers :
        at[c] # "querying" /\ at'[c] = "querying" => c \in probes \/ ~isOpen
<1>1. ASSUME IInv, [Next]_vars PROVE Step
  <2> SUFFICES ASSUME NEW d \in Callers, at[d] # "querying", at'[d] = "querying"
               PROVE  d \in probes \/ ~isOpen
    OBVIOUS
  <2> USE DEF Goto
  <2>0. at \in [Callers -> Places]
    BY <1>1 DEF IInv, TypeOK
  <2>1. ASSUME NEW c \in Callers, Recheck(c) PROVE d \in probes \/ ~isOpen
    BY <2>0, <2>1 DEF Recheck, MayQuery
  <2>2. ASSUME NEW c \in Callers, allow(c) \/ TakeSlot(c) \/ AbortQueued(c) PROVE FALSE
    BY <2>0, <2>2 DEF allow, TakeSlot, AbortQueued
  <2>3. ASSUME NEW c \in Callers, Answer(c) PROVE FALSE
    BY <2>0, <2>3 DEF Answer, Succeeds, Fails, AbortedBySibling, Finish
  <2>4. CASE HealthChanges \/ Tick \/ UNCHANGED vars
    BY <2>4 DEF HealthChanges, Tick, vars
  <2> QED
    BY <1>1, <2>1, <2>2, <2>3, <2>4 DEF Next, Call
<1>2. QED
  BY <1>1, Invariant, PTL DEF Spec, OnlyProbesWhileOpen

-----------------------------------------------------------------------------
(* Recursion over the names *)

\* A non-empty set of naturals has a least element.
LEMMA NatLeast ==
    ASSUME NEW T, T \subseteq Nat, T # {}
    PROVE  \E x \in T : \A y \in T : x <= y
<1> DEFINE R == OpToRel(<, Nat)
<1>1. IsWellFoundedOn(R, Nat)
  BY NatLessThanWellFounded
<1>2. PICK x \in T : \A y \in T : <<y, x>> \notin R
  <2> HIDE DEF R
  <2> QED
    BY <1>1, WFMin
<1>3. \A y \in T : ~(y < x)
  BY <1>2 DEF OpToRel
<1> QED
  BY <1>3

\* A set of naturals up to N that has 0 and every successor has them all.
LEMMA UpTo ==
    ASSUME NEW N \in Nat, NEW S, 0 \in S,
           \A n \in 1..N : n - 1 \in S => n \in S
    PROVE  0..N \subseteq S
<1> DEFINE Bad == {n \in 0..N : n \notin S}
<1>1. SUFFICES ASSUME Bad # {} PROVE FALSE
  OBVIOUS
<1>2. Bad \subseteq Nat
  OBVIOUS
<1>3. PICK m \in Bad : \A y \in Bad : m <= y
  <2> HIDE DEF Bad
  <2> QED
    BY <1>1, <1>2, NatLeast
<1>4. m \in 1..N /\ m - 1 \in 0..N
  BY <1>3
<1>5. m - 1 \in S
  BY <1>3, <1>4
<1> QED
  BY <1>3, <1>4, <1>5

\* Some function into T starts with a and goes on as st says.
Defines(m, T, a, st) ==
    \E f \in [0..m -> T] : f[0] = a /\ \A n \in 1..m : f[n] = st[n][f[n - 1]]

\* A step that keeps T defines a function by recursion.
LEMMA Recursion ==
    ASSUME NEW N \in Nat, NEW T, NEW a \in T, NEW st \in [1..N -> [T -> T]]
    PROVE  Defines(N, T, a, st)
<1> DEFINE Good(m, f) == f[0] = a /\ \A n \in 1..m : f[n] = st[n][f[n - 1]]
           S == {m \in 0..N : \E f \in [0..m -> T] : Good(m, f)}
<1>1. 0 \in S
  <2> DEFINE f == [n \in 0..0 |-> a]
  <2>1. f \in [0..0 -> T] /\ Good(0, f)
    OBVIOUS
  <2> HIDE DEF f, Good
  <2>2. \E h \in [0..0 -> T] : Good(0, h)
    BY <2>1
  <2>3. 0 \in 0..N
    OBVIOUS
  <2> QED
    BY <2>2, <2>3
<1>2. ASSUME NEW m \in 1..N, m - 1 \in S PROVE m \in S
  <2>1. PICK f \in [0..(m - 1) -> T] : Good(m - 1, f)
    BY <1>2
  <2> DEFINE g == [n \in 0..m |-> IF n = m THEN st[m][f[m - 1]] ELSE f[n]]
  <2>2. g \in [0..m -> T]
    OBVIOUS
  <2>3. ASSUME NEW n \in 1..m PROVE g[n] = st[n][g[n - 1]]
    <3>1. CASE n = m
      BY <3>1
    <3>2. CASE n # m
      <4>1. n \in 1..(m - 1) /\ n - 1 \in 0..(m - 1) /\ n \in 0..m /\ n - 1 \in 0..m
        BY <3>2
      <4>2. f[n] = st[n][f[n - 1]]
        BY <2>1, <4>1
      <4>3. g[n] = f[n] /\ g[n - 1] = f[n - 1]
        BY <3>2, <4>1
      <4> QED
        BY <4>2, <4>3
    <3> QED
      BY <3>1, <3>2
  <2>a. g[0] = a
    BY <2>1
  <2> HIDE DEF g
  <2>4. Good(m, g)
    BY <2>3, <2>a
  <2> HIDE DEF Good
  <2>5. \E h \in [0..m -> T] : Good(m, h)
    BY <2>2, <2>4
  <2> QED
    BY <2>5
<1> HIDE DEF S
<1>3. N \in S
  <2>1. 0..N \subseteq S
    BY <1>1, <1>2, UpTo
  <2> QED
    BY <2>1
<1> QED
  BY <1>3 DEF S, Defines

N == Cardinality(Identities)

LEMMA Numbered == N \in Nat /\ Identities = 1..N /\ IsFiniteSet(Identities)
  BY FetchAssumption, FS_CardinalityType DEF N

LEMMA Product == ASSUME NEW a \in Nat, NEW b \in Nat PROVE a * b \in Nat
  OBVIOUS

LEMMA CostType ==
    ASSUME NEW sz \in [Identities -> Nat], NEW samples \in Nat, NEW i \in Identities
    PROVE  Cost(i, sz, samples) \in Nat
<1>1. (IF sz[i] > 0 THEN sz[i] ELSE 1) \in Nat
  OBVIOUS
<1>2. (IF samples > 0 THEN samples ELSE 1) \in Nat
  OBVIOUS
<1> QED
  BY <1>1, <1>2, Product DEF Cost

Accs == [done : SUBSET SUBSET Identities, names : SUBSET Identities, total : Nat]

LEMMA AddType ==
    ASSUME NEW acc \in Accs, NEW i \in Identities, NEW cost \in Nat
    PROVE  Add(acc, i, cost) \in Accs
<1>1. CASE Fits(acc.names, acc.total, cost)
  <2>1. Add(acc, i, cost) = [done |-> acc.done, names |-> acc.names \cup {i},
                             total |-> acc.total + cost]
    BY <1>1 DEF Add, Accs
  <2> QED
    BY <2>1 DEF Accs
<1>2. CASE ~Fits(acc.names, acc.total, cost)
  <2>1. Add(acc, i, cost) = [done |-> acc.done \cup {acc.names}, names |-> {i},
                             total |-> cost]
    BY <1>2 DEF Add
  <2>2. acc.done \in SUBSET SUBSET Identities /\ acc.names \in SUBSET Identities
    BY DEF Accs
  <2>3. acc.done \cup {acc.names} \in SUBSET SUBSET Identities
    BY <2>2
  <2> QED
    BY <2>1, <2>3 DEF Accs
<1> QED
  BY <1>1, <1>2

Packs(P, members, sz, samples) ==
    /\ P \in [0..N -> Accs]
    /\ P[0] = [done |-> {}, names |-> {}, total |-> 0]
    /\ \A n \in 1..N : P[n] = IF n \in members
                              THEN Add(P[n - 1], n, Cost(n, sz, samples))
                              ELSE P[n - 1]

\* Packing is what its recursion says.
LEMMA PackingDef ==
    ASSUME NEW members \in SUBSET Identities, NEW sz \in [Identities -> Nat],
           NEW samples \in Nat
    PROVE  Packs(Packing(members, sz, samples), members, sz, samples)
<1> DEFINE a == [done |-> {}, names |-> {}, total |-> 0]
           st == [n \in 1..N |-> [x \in Accs |->
                     IF n \in members THEN Add(x, n, Cost(n, sz, samples)) ELSE x]]
           P == Packing(members, sz, samples)
<1>0. N \in Nat /\ Identities = 1..N
  BY Numbered
<1>1. a \in Accs
  BY DEF Accs
<1>2. st \in [1..N -> [Accs -> Accs]]
  BY <1>0, AddType, CostType
<1>3. \A x \in Accs, n \in 1..N :
        st[n][x] = IF n \in members THEN Add(x, n, Cost(n, sz, samples)) ELSE x
  OBVIOUS
<1> HIDE DEF st, a
<1>4. PICK f \in [0..N -> Accs] :
           f[0] = a /\ \A n \in 1..N : f[n] = st[n][f[n - 1]]
  <2>1. Defines(N, Accs, a, st)
    BY <1>0, <1>1, <1>2, Recursion
  <2> QED
    BY <2>1 DEF Defines
<1> DEFINE Body(g, n) == IF n = 0 THEN a
                         ELSE IF n \in members THEN Add(g[n - 1], n, Cost(n, sz, samples))
                         ELSE g[n - 1]
<1>5. \A n \in 0..N : f[n] = Body(f, n)
  <2> SUFFICES ASSUME NEW n \in 0..N PROVE f[n] = Body(f, n)
    OBVIOUS
  <2>1. CASE n = 0
    BY <1>4, <2>1
  <2>2. CASE n # 0
    <3>1. n \in 1..N /\ n - 1 \in 0..N
      BY <1>0, <2>2
    <3>2. f[n] = st[n][f[n - 1]]
      BY <1>4, <2>2
    <3>3. f[n - 1] \in Accs
      BY <3>1
    <3> QED
      BY <1>3, <2>2, <3>1, <3>2, <3>3
  <2> QED
    BY <2>1, <2>2
<1>6. f = [n \in 0..N |-> Body(f, n)]
  BY <1>5
<1>7. P = CHOOSE g : g = [n \in 0..N |-> Body(g, n)]
  BY DEF Packing, N, a
<1> HIDE DEF Body, P
<1>8. P = [n \in 0..N |-> Body(P, n)]
  BY <1>6, <1>7, Zenon
<1>9. P[0] = a /\ \A n \in 1..N : P[n] = IF n \in members
                                         THEN Add(P[n - 1], n, Cost(n, sz, samples))
                                         ELSE P[n - 1]
  BY <1>0, <1>8 DEF Body
<1>10. P \in [0..N -> Accs]
  <2> DEFINE S == {n \in 0..N : P[n] \in Accs}
  <2>1. 0 \in S
    BY <1>0, <1>1, <1>9
  <2>2. \A n \in 1..N : n - 1 \in S => n \in S
    <3> SUFFICES ASSUME NEW n \in 1..N, n - 1 \in S PROVE n \in S
      OBVIOUS
    <3>1. P[n - 1] \in Accs /\ n \in Identities
      BY <1>0
    <3>2. Add(P[n - 1], n, Cost(n, sz, samples)) \in Accs
      BY <3>1, AddType, CostType
    <3>3. P[n] \in Accs
      BY <1>9, <3>1, <3>2
    <3> QED
      BY <1>0, <3>3
  <2> HIDE DEF S
  <2>3. 0..N \subseteq S
    BY <1>0, <2>1, <2>2, UpTo
  <2>4. \A n \in 0..N : P[n] \in Accs
    BY <2>3 DEF S
  <2>5. P = [n \in 0..N |-> P[n]]
    BY <1>8
  <2> QED
    BY <2>4, <2>5
<1> QED
  BY <1>9, <1>10 DEF P, a, Packs

Portion(n, some, sz, samples) == IF n \in some THEN Cost(n, sz, samples) ELSE 0

\* f sums the costs up to each name.
Sums(f, some, sz, samples) ==
    /\ f \in [0..N -> Nat] /\ f[0] = 0
    /\ \A n \in 1..N : f[n] = f[n - 1] + Portion(n, some, sz, samples)

LEMMA SumDef ==
    ASSUME NEW some, NEW sz \in [Identities -> Nat], NEW samples \in Nat
    PROVE  \E f : Sums(f, some, sz, samples) /\ SumOf(some, sz, samples) = f[N]
<1> DEFINE c(n) == Portion(n, some, sz, samples)
           st == [n \in 1..N |-> [x \in Nat |-> x + c(n)]]
           Body(g, n) == IF n = 0 THEN 0 ELSE g[n - 1] + c(n)
           P == CHOOSE g : g = [n \in 0..N |-> Body(g, n)]
<1>0. N \in Nat /\ Identities = 1..N
  BY Numbered
<1>1. \A n \in 1..N : c(n) \in Nat
  BY <1>0, CostType DEF Portion
<1>2. SumOf(some, sz, samples) = P[N]
  BY DEF SumOf, N, Portion
<1> HIDE DEF c
<1>3. st \in [1..N -> [Nat -> Nat]]
  BY <1>1
<1>4. \A n \in 1..N, x \in Nat : st[n][x] = x + c(n)
  OBVIOUS
<1> HIDE DEF st
<1>5. PICK f \in [0..N -> Nat] : f[0] = 0 /\ \A n \in 1..N : f[n] = st[n][f[n - 1]]
  <2>1. Defines(N, Nat, 0, st)
    BY <1>0, <1>3, Recursion
  <2> QED
    BY <2>1 DEF Defines
<1>6. \A n \in 1..N : f[n] = f[n - 1] + c(n)
  <2> SUFFICES ASSUME NEW n \in 1..N PROVE f[n] = f[n - 1] + c(n)
    OBVIOUS
  <2>1. f[n - 1] \in Nat
    BY <1>0
  <2>2. f[n] = st[n][f[n - 1]]
    BY <1>5
  <2> QED
    BY <1>4, <2>1, <2>2
<1>7. f = [n \in 0..N |-> Body(f, n)]
  <2>1. \A n \in 0..N : f[n] = Body(f, n)
    BY <1>0, <1>5, <1>6
  <2> QED
    BY <2>1
<1> HIDE DEF Body
<1>8. P = [n \in 0..N |-> Body(P, n)]
  BY <1>7, Zenon
<1> HIDE DEF P
<1>9. P[0] = 0 /\ \A n \in 1..N : P[n] = P[n - 1] + c(n)
  BY <1>0, <1>8 DEF Body
<1>10. \A n \in 0..N : P[n] \in Nat
  <2> DEFINE S == {n \in 0..N : P[n] \in Nat}
  <2>1. 0 \in S
    BY <1>0, <1>9
  <2>2. \A n \in 1..N : n - 1 \in S => n \in S
    BY <1>0, <1>1, <1>9
  <2> HIDE DEF S
  <2>3. 0..N \subseteq S
    BY <1>0, <2>1, <2>2, UpTo
  <2> QED
    BY <2>3 DEF S
<1>11. P \in [0..N -> Nat]
  BY <1>8, <1>10
<1> QED
  BY <1>2, <1>9, <1>11 DEF Sums, c

\* The costs of no identity, and of one more.
LEMMA SumEmpty ==
    ASSUME NEW sz \in [Identities -> Nat], NEW samples \in Nat
    PROVE  SumOf({}, sz, samples) = 0
<1>0. N \in Nat
  BY Numbered
<1>1. PICK f : Sums(f, {}, sz, samples) /\ SumOf({}, sz, samples) = f[N]
  BY SumDef
<1> DEFINE S == {n \in 0..N : f[n] = 0}
<1>2. 0 \in S
  BY <1>0, <1>1 DEF Sums
<1>3. \A n \in 1..N : n - 1 \in S => n \in S
  BY <1>0, <1>1 DEF Sums, Portion
<1> HIDE DEF S
<1>4. 0..N \subseteq S
  BY <1>0, <1>2, <1>3, UpTo
<1> QED
  BY <1>0, <1>1, <1>4 DEF S

LEMMA SumAdd ==
    ASSUME NEW some \in SUBSET Identities, NEW i \in Identities, i \notin some,
           NEW sz \in [Identities -> Nat], NEW samples \in Nat
    PROVE  /\ SumOf(some, sz, samples) \in Nat
           /\ SumOf(some \cup {i}, sz, samples) = SumOf(some, sz, samples) + Cost(i, sz, samples)
<1>0. N \in Nat /\ Identities = 1..N
  BY Numbered
<1> DEFINE more == some \cup {i}
           cost == Cost(i, sz, samples)
<1>1. PICK f : Sums(f, some, sz, samples) /\ SumOf(some, sz, samples) = f[N]
  BY SumDef
<1>2. PICK g : Sums(g, more, sz, samples) /\ SumOf(more, sz, samples) = g[N]
  BY SumDef
<1>3. \A n \in 1..N : Portion(n, more, sz, samples)
                        = Portion(n, some, sz, samples) + (IF n = i THEN cost ELSE 0)
  <2> SUFFICES ASSUME NEW n \in 1..N
               PROVE  Portion(n, more, sz, samples)
                        = Portion(n, some, sz, samples) + (IF n = i THEN cost ELSE 0)
    OBVIOUS
  <2>1. Cost(n, sz, samples) \in Nat /\ cost \in Nat
    BY <1>0, CostType
  <2> QED
    BY <2>1 DEF Portion
<1>4. cost \in Nat
  BY CostType
<1>a. \A n \in 1..N : Portion(n, some, sz, samples) \in Nat
  BY <1>0, CostType DEF Portion
<1> HIDE DEF more, cost
<1> DEFINE S == {n \in 0..N : g[n] = f[n] + (IF i <= n THEN cost ELSE 0)}
<1>5. 0 \in S
  BY <1>0, <1>1, <1>2 DEF Sums
<1>6. \A n \in 1..N : n - 1 \in S => n \in S
  <2> SUFFICES ASSUME NEW n \in 1..N, n - 1 \in S PROVE n \in S
    OBVIOUS
  <2>1. g[n - 1] = f[n - 1] + (IF i <= n - 1 THEN cost ELSE 0)
    OBVIOUS
  <2>2. /\ g[n] = g[n - 1] + Portion(n, more, sz, samples)
        /\ f[n] = f[n - 1] + Portion(n, some, sz, samples)
        /\ f[n - 1] \in Nat
    BY <1>0, <1>1, <1>2 DEF Sums
  <2>3. g[n] = f[n] + (IF i <= n THEN cost ELSE 0)
    <3>1. i \in Nat /\ n \in Nat
      BY <1>0
    <3> QED
      BY <1>3, <1>4, <1>a, <2>1, <2>2, <3>1
  <2> QED
    BY <1>0, <2>3
<1> HIDE DEF S
<1>7. 0..N \subseteq S
  BY <1>0, <1>5, <1>6, UpTo
<1>8. g[N] = f[N] + cost
  BY <1>0, <1>7 DEF S
<1>9. f[N] \in Nat
  BY <1>0, <1>1 DEF Sums
<1> QED
  BY <1>1, <1>2, <1>8, <1>9 DEF more, cost

LEMMA SumOne ==
    ASSUME NEW i \in Identities, NEW sz \in [Identities -> Nat], NEW samples \in Nat
    PROVE  SumOf({i}, sz, samples) = Cost(i, sz, samples)
<1>1. {} \cup {i} = {i}
  OBVIOUS
<1>2. SumOf({} \cup {i}, sz, samples) = SumOf({}, sz, samples) + Cost(i, sz, samples)
  BY SumAdd
<1> QED
  BY <1>1, <1>2, SumEmpty, CostType

-----------------------------------------------------------------------------
(* The plan *)

Before(s, t) == \A i \in s, j \in t : i < j

\* A shard keeps to its bounds.
Bounded(s, sz, samples) ==
    Cardinality(s) > 1 => /\ SumOf(s, sz, samples) <= MaxSamples
                          /\ Cardinality(s) <= MaxShardMembers

\* The member after s would have exceeded them.
Full(s, members, sz, samples) ==
    \A m \in members :
       (\A j \in s : j < m) /\ (\A x \in members : x < m => \E j \in s : x <= j) =>
          SumOf(s \cup {m}, sz, samples) > MaxSamples \/ Cardinality(s) >= MaxShardMembers

\* The loop over the members so far.
Packed(acc, members, sz, samples) ==
    /\ (UNION acc.done) \cup acc.names = members
    /\ {} \notin acc.done
    /\ acc.names = {} => acc.done = {}
    /\ \A s, t \in acc.done : s = t \/ Before(s, t) \/ Before(t, s)
    /\ \A s \in acc.done : Before(s, acc.names)
    /\ \A s \in acc.done \cup {acc.names} : Bounded(s, sz, samples)
    /\ acc.total = SumOf(acc.names, sz, samples)
    /\ \A s \in acc.done : Full(s, members, sz, samples)

LEMMA SubsetFinite == ASSUME NEW s \in SUBSET Identities
                      PROVE  IsFiniteSet(s) /\ Cardinality(s) \in Nat
  BY Numbered, FS_Subset, FS_CardinalityType

\* The empty shard and a shard of one keep to their bounds.
LEMMA FewBounded ==
    ASSUME NEW i \in Identities, NEW sz, NEW samples
    PROVE  Bounded({}, sz, samples) /\ Bounded({i}, sz, samples)
<1>1. Cardinality({}) = 0 /\ Cardinality({i}) = 1
  BY FS_EmptySet, FS_Singleton
<1> QED
  BY <1>1 DEF Bounded

\* Nothing that is packed already follows what is filled last.
LEMMA LastIsLast ==
    ASSUME NEW acc \in Accs, NEW members, NEW sz, NEW samples,
           Packed(acc, members, sz, samples), acc.names # {}, NEW m \in members
    PROVE  \E j \in acc.names : m <= j
<1>0. acc.names \subseteq Nat /\ members \subseteq Nat
  BY Numbered DEF Packed, Accs
<1>1. CASE m \in acc.names
  BY <1>0, <1>1
<1>2. CASE m \notin acc.names
  <2>1. PICK s \in acc.done : m \in s
    BY <1>2 DEF Packed
  <2>2. PICK j \in acc.names : TRUE
    OBVIOUS
  <2>3. m < j
    BY <2>1, <2>2 DEF Packed, Before
  <2> QED
    BY <1>0, <2>2, <2>3
<1> QED
  BY <1>1, <1>2

LEMMA AddPacked ==
    ASSUME NEW acc \in Accs, NEW members \in SUBSET Identities,
           NEW sz \in [Identities -> Nat], NEW samples \in Nat,
           Packed(acc, members, sz, samples),
           NEW i \in Identities, \A m \in members : m < i
    PROVE  Packed(Add(acc, i, Cost(i, sz, samples)), members \cup {i}, sz, samples)
<1> DEFINE cost == Cost(i, sz, samples)
           new == Add(acc, i, cost)
           more == members \cup {i}
           full == acc.names
<1>0. /\ cost \in Nat /\ acc.total \in Nat /\ Identities \subseteq Nat
      /\ acc.done \subseteq SUBSET Identities /\ full \in SUBSET Identities
      /\ {MaxSamples, MaxShardMembers} \subseteq Nat \ {0}
  <2>1. cost \in Nat /\ Identities \subseteq Nat
    BY CostType, Numbered
  <2>2. {MaxSamples, MaxShardMembers} \subseteq Nat \ {0}
    BY FetchAssumption
  <2>3. acc.total \in Nat /\ acc.done \subseteq SUBSET Identities
        /\ full \in SUBSET Identities
    BY DEF Accs
  <2> QED
    BY <2>1, <2>2, <2>3
<1>1. i \notin members /\ i \notin full
  BY <1>0 DEF Packed
<1>2. SumOf(full \cup {i}, sz, samples) = acc.total + cost
  BY <1>0, <1>1, SumAdd DEF Packed
<1>3. IsFiniteSet(full) /\ Cardinality(full) \in Nat
      /\ Cardinality(full \cup {i}) = Cardinality(full) + 1
  BY <1>0, <1>1, SubsetFinite, FS_AddElement
<1>4. \A s \in acc.done : full # {} => Full(s, more, sz, samples)
  <2> SUFFICES ASSUME NEW s \in acc.done, full # {}, NEW m \in more,
                      \A j \in s : j < m,
                      \A x \in more : x < m => \E j \in s : x <= j
               PROVE  \/ SumOf(s \cup {m}, sz, samples) > MaxSamples
                      \/ Cardinality(s) >= MaxShardMembers
    BY DEF Full
  <2>1. CASE m \in members
    BY <2>1 DEF Packed, Full
  <2>2. CASE m = i
    <3>1. PICK x \in full : TRUE
      OBVIOUS
    <3>2. x \in members /\ x < i
      BY <3>1 DEF Packed
    <3>3. PICK j \in s : x <= j
      BY <2>2, <3>2
    <3>4. j < x
      BY <3>1 DEF Packed, Before
    <3> QED
      BY <1>0, <3>1, <3>3, <3>4
  <2> QED
    BY <2>1, <2>2
<1>5. CASE Fits(full, acc.total, cost)
  <2>1. /\ new.done = acc.done /\ new.names = full \cup {i}
        /\ new.total = acc.total + cost
    BY <1>5 DEF Add, Accs
  <2>2. Bounded(full \cup {i}, sz, samples)
    <3>1. CASE full = {}
      BY <3>1, FewBounded
    <3>2. CASE full # {}
      BY <1>0, <1>2, <1>3, <1>5, <3>2 DEF Fits, Bounded
    <3> QED
      BY <3>1, <3>2
  <2>3. \A s \in acc.done : Before(s, full \cup {i})
    <3> SUFFICES ASSUME NEW s \in acc.done, NEW x \in s, NEW y \in full \cup {i}
                 PROVE  x < y
      BY DEF Before
    <3>1. x \in members
      BY DEF Packed
    <3> QED
      BY <3>1 DEF Packed, Before
  <2>4. (UNION new.done) \cup new.names = more
    BY <2>1 DEF Packed
  <2>5. \A s \in acc.done : Full(s, more, sz, samples)
    BY <1>4 DEF Packed
  <2> HIDE DEF new, cost, more
  <2>6. Packed(new, more, sz, samples)
    BY <1>2, <2>1, <2>2, <2>3, <2>4, <2>5 DEF Packed
  <2> QED
    BY <2>6 DEF new, cost, more
<1>6. CASE ~Fits(full, acc.total, cost)
  <2>1. /\ new.done = acc.done \cup {full} /\ new.names = {i}
        /\ new.total = cost
    BY <1>6 DEF Add
  <2>2. full # {} /\ (acc.total + cost > MaxSamples \/ Cardinality(full) >= MaxShardMembers)
    BY <1>0, <1>3, <1>6 DEF Fits
  <2>3. Full(full, more, sz, samples)
    <3> SUFFICES ASSUME NEW m \in members, \A j \in full : j < m PROVE FALSE
      BY <1>2, <2>2 DEF Full
    <3>1. PICK j \in full : m <= j
      BY <2>2, LastIsLast
    <3>2. j < m
      BY <3>1
    <3>3. m \in Nat /\ j \in Nat
      BY <1>0, <3>1
    <3> HIDE DEF full
    <3> QED
      BY <3>1, <3>2, <3>3
  <2>4. \A s \in new.done : Before(s, {i})
    <3> SUFFICES ASSUME NEW s \in new.done, NEW x \in s PROVE x < i
      BY DEF Before
    <3>1. x \in members
      BY <2>1 DEF Packed
    <3> QED
      BY <3>1
  <2>5. \A s, t \in new.done : s = t \/ Before(s, t) \/ Before(t, s)
    BY <2>1 DEF Packed
  <2>6. Bounded({i}, sz, samples) /\ SumOf({i}, sz, samples) = cost
    BY FewBounded, SumOne
  <2>7. (UNION new.done) \cup new.names = more
    BY <2>1 DEF Packed
  <2>8. \A s \in new.done : Full(s, more, sz, samples)
    BY <1>4, <2>1, <2>2, <2>3
  <2> HIDE DEF new, cost, more
  <2>9. Packed(new, more, sz, samples)
    BY <2>1, <2>2, <2>4, <2>5, <2>6, <2>7, <2>8 DEF Packed
  <2> QED
    BY <2>9 DEF new, cost, more
<1> QED
  BY <1>5, <1>6

\* p splits some identities.
Splits(p, some) ==
    /\ UNION p = some /\ {} \notin p
    /\ \A s, t \in p : s # t => s \cap t = {}

\* The packing of a group splits it into shards that keep to their bounds and
\* could not have grown (BuildShards).
LEMMA PackFits ==
    ASSUME NEW members \in SUBSET Identities, NEW sz \in [Identities -> Nat],
           NEW samples \in Nat
    PROVE  /\ Splits(Pack(members, sz, samples), members)
           /\ \A s \in Pack(members, sz, samples) :
                 Bounded(s, sz, samples) /\ Full(s, members, sz, samples)
<1> DEFINE P == Packing(members, sz, samples)
           end == P[N]
           sofar(n) == members \cap 1..n
           S == {n \in 0..N : Packed(P[n], sofar(n), sz, samples)}
           p == Pack(members, sz, samples)
<1>0. N \in Nat /\ Identities = 1..N
  BY Numbered
<1>1. /\ P \in [0..N -> Accs]
      /\ P[0] = [done |-> {}, names |-> {}, total |-> 0]
      /\ \A n \in 1..N : P[n] = IF n \in members
                                THEN Add(P[n - 1], n, Cost(n, sz, samples))
                                ELSE P[n - 1]
  <2>1. Packs(P, members, sz, samples)
    BY PackingDef
  <2> HIDE DEF P
  <2> QED
    BY <2>1 DEF Packs
<1> HIDE DEF P
<1>2. 0 \in S
  <2>1. sofar(0) = {}
    BY <1>0
  <2>2. P[0].done = {} /\ P[0].names = {} /\ P[0].total = 0
    BY <1>1
  <2>3. SumOf({}, sz, samples) = 0 /\ Bounded({}, sz, samples)
    <3>1. Cardinality({}) = 0
      BY FS_EmptySet
    <3> QED
      BY <3>1, SumEmpty DEF Bounded
  <2>4. Packed(P[0], {}, sz, samples)
    BY <2>2, <2>3 DEF Packed
  <2> QED
    BY <1>0, <2>1, <2>4
<1>3. \A n \in 1..N : n - 1 \in S => n \in S
  <2> SUFFICES ASSUME NEW n \in 1..N, n - 1 \in S PROVE Packed(P[n], sofar(n), sz, samples)
    <3>1. \A n \in 1..N : n \in 0..N
      BY <1>0
    <3> HIDE DEF sofar
    <3> QED
      BY <3>1
  <2>1. Packed(P[n - 1], sofar(n - 1), sz, samples) /\ P[n - 1] \in Accs
    BY <1>0, <1>1
  <2>2. CASE n \in members
    <3>1. sofar(n) = sofar(n - 1) \cup {n}
      BY <1>0, <2>2
    <3>2. \A m \in sofar(n - 1) : m < n
      BY <1>0
    <3>3. sofar(n - 1) \in SUBSET Identities /\ n \in Identities
      BY <1>0
    <3>4. P[n] = Add(P[n - 1], n, Cost(n, sz, samples))
      BY <1>1, <2>2
    <3> HIDE DEF sofar
    <3>5. Packed(Add(P[n - 1], n, Cost(n, sz, samples)), sofar(n - 1) \cup {n}, sz, samples)
      BY <2>1, <3>2, <3>3, AddPacked
    <3> QED
      BY <3>1, <3>4, <3>5
  <2>3. CASE n \notin members
    <3>1. sofar(n) = sofar(n - 1)
      BY <1>0, <2>3
    <3>2. P[n] = P[n - 1]
      BY <1>1, <2>3
    <3> QED
      BY <2>1, <3>1, <3>2
  <2> QED
    BY <2>2, <2>3
<1> HIDE DEF S
<1>4. 0..N \subseteq S
  BY <1>0, <1>2, <1>3, UpTo
<1>b. members \subseteq Nat
  BY <1>0
<1>5. Packed(end, members, sz, samples) /\ end \in Accs
  <2>1. N \in 0..N
    BY <1>0
  <2>2. sofar(N) = members
    <3>1. members \subseteq 1..N
      BY <1>0
    <3> QED
      BY <3>1
  <2> QED
    BY <1>1, <1>4, <2>1, <2>2 DEF S
<1>6. p = (end.done \cup {end.names}) \ {{}}
  BY DEF Pack, P, N
<1> HIDE DEF p, end
<1>7. UNION p = members /\ {} \notin p
  BY <1>5, <1>6 DEF Packed
<1>8. \A s, t \in p : s # t => s \cap t = {}
  <2> SUFFICES ASSUME NEW s \in p, NEW t \in p, s # t, NEW x \in s, x \in t PROVE FALSE
    OBVIOUS
  <2>1. Before(s, t) \/ Before(t, s)
    BY <1>5, <1>6 DEF Packed
  <2>2. x < x
    BY <2>1 DEF Before
  <2>3. x \in Nat
    <3>1. x \in members
      BY <1>7
    <3> QED
      BY <1>b, <3>1
  <2> QED
    BY <2>2, <2>3
<1>9. \A s \in p : Bounded(s, sz, samples)
  BY <1>5, <1>6 DEF Packed
<1>10. \A s \in p : Full(s, members, sz, samples)
  <2> SUFFICES ASSUME NEW s \in p PROVE Full(s, members, sz, samples)
    OBVIOUS
  <2>1. CASE s \in end.done
    BY <1>5, <2>1 DEF Packed
  <2>2. CASE s = end.names
    <3>1. s # {}
      BY <1>7
    <3> SUFFICES ASSUME NEW m \in members, \A j \in s : j < m PROVE FALSE
      BY DEF Full
    <3>2. PICK j \in s : m <= j
      BY <1>5, <2>2, <3>1, LastIsLast
    <3>3. j \in members
      BY <1>7, <3>2
    <3>4. j < m /\ j \in Nat /\ m \in Nat
      BY <1>b, <3>2, <3>3
    <3> QED
      BY <3>2, <3>4
  <2> QED
    BY <1>6, <2>1, <2>2
<1> QED
  BY <1>7, <1>8, <1>9, <1>10 DEF p, Splits

Mates(i, cands) == {j \in cands \ Malformed : Group[j] = Group[i]}

\* The shards of all groups (BuildShards).
LEMMA BuildFits ==
    ASSUME NEW cands \in SUBSET Identities, NEW sz \in [Identities -> Nat],
           NEW samples \in Nat
    PROVE  /\ Splits(BuildShards(cands, sz, samples), cands \ Malformed)
           /\ \A s \in BuildShards(cands, sz, samples) :
                 /\ Bounded(s, sz, samples)
                 /\ \A i \in s : /\ s \subseteq Mates(i, cands)
                                 /\ Full(s, Mates(i, cands), sz, samples)
<1> DEFINE members(g) == {i \in cands \ Malformed : Group[i] = g}
           p == BuildShards(cands, sz, samples)
           pack(g) == Pack(members(g), sz, samples)
           groups == {Group[i] : i \in cands}
<1>1. ASSUME NEW g
      PROVE  /\ Splits(pack(g), members(g))
             /\ \A s \in pack(g) : Bounded(s, sz, samples) /\ Full(s, members(g), sz, samples)
  <2>1. members(g) \in SUBSET Identities
    OBVIOUS
  <2> HIDE DEF members
  <2> QED
    BY <2>1, PackFits
<1>2. p = UNION {pack(g) : g \in groups}
  BY DEF BuildShards
<1> HIDE DEF pack, p
<1>3. UNION p = cands \ Malformed
  <2>1. ASSUME NEW i \in UNION p PROVE i \in cands \ Malformed
    <3>1. PICK g \in groups : \E s \in pack(g) : i \in s
      BY <1>2, <2>1
    <3>2. i \in members(g)
      BY <1>1, <3>1 DEF Splits
    <3> QED
      BY <3>2
  <2>2. ASSUME NEW i \in cands \ Malformed PROVE i \in UNION p
    <3>1. i \in members(Group[i]) /\ Group[i] \in groups
      BY <2>2
    <3>2. PICK s \in pack(Group[i]) : i \in s
      BY <1>1, <3>1 DEF Splits
    <3> QED
      BY <1>2, <3>1, <3>2
  <2> QED
    BY <2>1, <2>2
<1>4. {} \notin p
  BY <1>1, <1>2 DEF Splits
<1>5. \A s, t \in p : s # t => s \cap t = {}
  <2> SUFFICES ASSUME NEW s \in p, NEW t \in p, s # t, NEW x \in s, x \in t PROVE FALSE
    OBVIOUS
  <2>1. PICK g \in groups : s \in pack(g)
    BY <1>2
  <2>2. PICK h \in groups : t \in pack(h)
    BY <1>2
  <2>3. x \in members(g) /\ x \in members(h)
    BY <1>1, <2>1, <2>2 DEF Splits
  <2>4. g = h
    BY <2>3
  <2> QED
    BY <1>1, <2>1, <2>2, <2>4 DEF Splits
<1>6. ASSUME NEW s \in p
      PROVE  /\ Bounded(s, sz, samples)
             /\ \A i \in s : /\ s \subseteq Mates(i, cands)
                             /\ Full(s, Mates(i, cands), sz, samples)
  <2>1. PICK g \in groups : s \in pack(g)
    BY <1>2, <1>6
  <2>2. s \subseteq members(g)
    BY <1>1, <2>1 DEF Splits
  <2>3. \A i \in s : Mates(i, cands) = members(g)
    BY <2>2 DEF Mates
  <2>4. Bounded(s, sz, samples) /\ Full(s, members(g), sz, samples)
    BY <1>1, <2>1
  <2> HIDE DEF members
  <2> QED
    BY <2>2, <2>3, <2>4
<1> QED
  BY <1>3, <1>4, <1>5, <1>6 DEF Splits, p

\* What ShardsFit says, of any plan for any sizes.
Planned(p, sz, samples) ==
    /\ Splits(p, Identities \ Malformed)
    /\ \A s \in p :
          /\ \A i, j \in s : Group[i] = Group[j]
          /\ Bounded(s, sz, samples)
          /\ Cardinality(s) > 1 => \A i \in s : sz[i] # 0
          /\ \A i \in Identities : Follows(i, s, sz) =>
                \/ SumOf(s \cup {i}, sz, samples) > MaxSamples
                \/ Cardinality(s) >= MaxShardMembers

\* The plan of a signal (plan).
LEMMA PlanFits ==
    ASSUME NEW sz \in [Identities -> Nat], NEW samples \in Nat
    PROVE  Planned(PlanOf(sz, samples), sz, samples)
<1> DEFINE unsized == {i \in Identities : sz[i] = 0}
           sized == Identities \ unsized
           big == BuildShards(sized, sz, samples)
           one(i) == BuildShards({i}, sz, samples)
           p == PlanOf(sz, samples)
<1>1. p = big \cup UNION {one(i) : i \in unsized}
  BY DEF PlanOf
<1>2. /\ Splits(big, sized \ Malformed)
      /\ \A s \in big : /\ Bounded(s, sz, samples)
                        /\ \A i \in s : /\ s \subseteq Mates(i, sized)
                                        /\ Full(s, Mates(i, sized), sz, samples)
  <2>1. sized \in SUBSET Identities
    OBVIOUS
  <2> HIDE DEF sized
  <2> QED
    BY <2>1, BuildFits
<1>3. ASSUME NEW i \in unsized
      PROVE  /\ Splits(one(i), {i} \ Malformed)
             /\ \A s \in one(i) : s = {i}
  <2>1. {i} \in SUBSET Identities
    BY <1>3
  <2>2. Splits(one(i), {i} \ Malformed)
    BY <2>1, BuildFits
  <2> HIDE DEF one
  <2> QED
    BY <2>2 DEF Splits
<1> HIDE DEF big, one, p
<1>4. UNION p = Identities \ Malformed
  <2>1. ASSUME NEW i \in UNION p PROVE i \in Identities \ Malformed
    <3>1. PICK s \in p : i \in s
      BY <2>1
    <3>2. CASE s \in big
      BY <1>2, <3>1, <3>2 DEF Splits
    <3>3. CASE \E u \in unsized : s \in one(u)
      <4>1. PICK u \in unsized : s \in one(u)
        BY <3>3
      <4>2. i \in {u} \ Malformed
        BY <1>3, <3>1, <4>1 DEF Splits
      <4> QED
        BY <4>2
    <3> QED
      BY <1>1, <3>1, <3>2, <3>3
  <2>2. ASSUME NEW i \in Identities \ Malformed PROVE i \in UNION p
    <3>1. CASE i \in sized
      <4>1. PICK s \in big : i \in s
        BY <1>2, <2>2, <3>1 DEF Splits
      <4> QED
        BY <1>1, <4>1
    <3>2. CASE i \in unsized
      <4>1. PICK s \in one(i) : i \in s
        BY <1>3, <2>2, <3>2 DEF Splits
      <4> QED
        BY <1>1, <3>2, <4>1
    <3> QED
      BY <3>1, <3>2
  <2> QED
    BY <2>1, <2>2
<1>5. {} \notin p
  BY <1>1, <1>2, <1>3 DEF Splits
<1>6. ASSUME NEW s \in p
      PROVE  \/ s \in big /\ s \subseteq sized
             \/ \E u \in unsized : s = {u}
  BY <1>1, <1>2, <1>3, <1>6 DEF Splits
<1>7. \A s, t \in p : s # t => s \cap t = {}
  <2> SUFFICES ASSUME NEW s \in p, NEW t \in p, s # t PROVE s \cap t = {}
    OBVIOUS
  <2>1. CASE s \in big /\ t \in big
    BY <1>2, <2>1 DEF Splits
  <2>2. CASE ~(s \in big /\ t \in big)
    BY <1>6, <2>2
  <2> QED
    BY <2>1, <2>2
<1>8. ASSUME NEW s \in p
      PROVE  /\ \A i, j \in s : Group[i] = Group[j]
             /\ Bounded(s, sz, samples)
             /\ Cardinality(s) > 1 => \A i \in s : sz[i] # 0
             /\ \A i \in Identities : Follows(i, s, sz) =>
                   \/ SumOf(s \cup {i}, sz, samples) > MaxSamples
                   \/ Cardinality(s) >= MaxShardMembers
  <2>1. CASE s \in big /\ s \subseteq sized
    <3>1. \A i, j \in s : Group[i] = Group[j]
      <4> SUFFICES ASSUME NEW i \in s, NEW j \in s PROVE Group[i] = Group[j]
        OBVIOUS
      <4>1. s \subseteq Mates(i, sized)
        BY <1>2, <2>1
      <4> QED
        BY <4>1 DEF Mates
    <3>2. ASSUME NEW i \in Identities, Follows(i, s, sz)
          PROVE  \/ SumOf(s \cup {i}, sz, samples) > MaxSamples
                 \/ Cardinality(s) >= MaxShardMembers
      <4>1. PICK j \in s : TRUE
        BY <1>5, <1>8
      <4> DEFINE mates == Mates(j, sized)
      <4>2. mates = {k \in Identities \ Malformed : sz[k] # 0 /\ Group[k] = Group[i]}
        BY <3>2, <4>1 DEF Follows, Mates
      <4>3. /\ i \in mates /\ \A k \in s : k < i
            /\ \A k \in mates : k < i => \E x \in s : k <= x
        BY <3>2, <4>2 DEF Follows
      <4>4. Full(s, mates, sz, samples)
        BY <1>2, <2>1, <4>1
      <4> HIDE DEF mates
      <4> QED
        BY <4>3, <4>4 DEF Full
    <3> QED
      BY <1>2, <2>1, <3>1, <3>2
  <2>2. CASE \E u \in unsized : s = {u}
    <3>1. PICK u \in unsized : s = {u}
      BY <2>2
    <3>2. Cardinality(s) = 1 /\ Bounded(s, sz, samples)
      BY <3>1, FewBounded, FS_Singleton
    <3>3. \A i \in Identities : ~Follows(i, s, sz)
      BY <3>1 DEF Follows
    <3> QED
      BY <3>1, <3>2, <3>3
  <2> QED
    BY <1>6, <1>8, <2>1, <2>2
<1> QED
  BY <1>4, <1>5, <1>7, <1>8 DEF Planned, Splits, p

-----------------------------------------------------------------------------
(* The fetch *)

Asked == Identities \ Malformed

\* Every variable of the fetch has its type.
FetchTypes ==
    /\ signal \in 0..Len(Required)
    /\ size \in Sizes /\ points \in Instants \cup {1}
    /\ open \subseteq Queries
    /\ tried \subseteq open /\ halfway \subseteq open
    /\ got \in [Identities -> SUBSET (1..Len(Required))]
    /\ errs \subseteq Asked /\ failed \subseteq Identities
    /\ answer \in [Identities -> {"none", "inputs", "error"}]
    /\ cancelled \in BOOLEAN /\ excused \in BOOLEAN

\* The plan is the signal's.
PlanIsSignals ==
    IF signal = 0 THEN plan = {} ELSE plan = PlanOf(size, Samples[signal] * points)

\* Only open reads are at the client, no two of them ask for an identity, and
\* none is left between fetches.
ReadsApart ==
    /\ \A q \in Queries : at[q] # "idle" => q \in open
    /\ \A q, r \in open : q # r => q \cap r = {}
    /\ signal = 0 => open = {}

\* Of each identity the signal is being read, failed or set: one of them.
Accounted ==
    signal # 0 => \A i \in Asked :
       /\ i \in UNION open => i \notin errs /\ signal \notin got[i]
       /\ i \in errs => signal \notin got[i]
       /\ i \in UNION open \/ i \in errs \/ signal \in got[i]

\* The signals before it are settled: those that set no values failed the
\* identity where they are required.
Settled ==
    signal # 0 => \A i \in Identities :
       /\ got[i] \subseteq 1..signal
       /\ i \in failed <=>
             i \in Asked /\ \E s \in 1..(signal - 1) : Required[s] /\ s \notin got[i]

Sick(i) == \E s \in 1..Len(Required) : Required[s] /\ <<s, {i}>> \in Unanswerable

\* Unless the client turned a query away, what failed cannot be answered.
Caused ==
    signal # 0 /\ ~excused =>
       /\ \A i \in errs : <<signal, {i}>> \in Unanswerable
       /\ \A i \in failed : Sick(i)

FInv ==
    /\ IInv /\ FetchTypes /\ PlanIsSignals /\ ReadsApart
    /\ Accounted /\ Settled /\ Caused /\ DeniedForCause

LEMMA FInvInit == FInit => FInv
<1> SUFFICES ASSUME FInit PROVE FInv
  OBVIOUS
<1>1. IInv
  BY InitIInv DEF FInit
<1>2. FetchTypes
  <2>1. 0 \in 0..Len(Required)
    BY FetchAssumption
  <2>2. [i \in Identities |-> {}] \in [Identities -> SUBSET (1..Len(Required))]
    OBVIOUS
  <2>3. [i \in Identities |-> "none"] \in [Identities -> {"none", "inputs", "error"}]
    OBVIOUS
  <2> QED
    BY <2>1, <2>2, <2>3 DEF FInit, FetchTypes
<1>3. PlanIsSignals /\ ReadsApart /\ Accounted /\ Settled /\ Caused
  BY FetchAssumption DEF FInit, PlanIsSignals, ReadsApart, Accounted, Settled, Caused, Init
<1>4. DeniedForCause
  BY DEF FInit, DeniedForCause
<1> QED
  BY <1>1, <1>2, <1>3, <1>4 DEF FInv

\* A step of the fetch is a step of the client, or none of its business.
LEMMA ClientStep == [FNext]_pvars => [Next]_vars
<1> SUFFICES ASSUME [FNext]_pvars PROVE [Next]_vars
  OBVIOUS
<1>1. CASE Begin \/ NextSignal \/ End \/ Cancel \/ UNCHANGED pvars
  BY <1>1 DEF Begin, NextSignal, End, Cancel, pvars
<1>2. CASE Prometheus \/ CoolsDown
  BY <1>2 DEF Prometheus, CoolsDown, Next
<1>3. ASSUME NEW q \in Queries, ReadStep(q) PROVE [Next]_vars
  <2>1. q \in Callers
    BY FetchAssumption
  <2>2. Call(q) \/ Answer(q) \/ UNCHANGED vars
    BY <1>3 DEF ReadStep, Allowed, Refused, Queued, QueueAborted, Rechecked, Answered,
       QueryFailed, Call, Answer
  <2> QED
    BY <2>1, <2>2 DEF Next
<1> QED
  BY <1>1, <1>2, <1>3 DEF FNext

LEMMA SamplesType ==
    ASSUME NEW s \in 1..Len(Required), NEW pts \in Instants \cup {1}
    PROVE  Samples[s] * pts \in Nat
<1>1. Samples[s] \in Nat /\ pts \in Nat
  BY FetchAssumption
<1> QED
  BY <1>1, Product

\* The reads a signal starts with.
LEMMA FreshPlan ==
    ASSUME NEW s \in 1..Len(Required), NEW sz \in Sizes, NEW pts \in Instants \cup {1}
    PROVE  /\ PlanOf(sz, Samples[s] * pts) \subseteq Queries
           /\ UNION PlanOf(sz, Samples[s] * pts) = Asked
           /\ \A q, r \in PlanOf(sz, Samples[s] * pts) : q # r => q \cap r = {}
<1>1. sz \in [Identities -> Nat]
  BY FetchAssumption
<1> DEFINE p == PlanOf(sz, Samples[s] * pts)
<1>2. Splits(p, Asked)
  <2>1. Planned(p, sz, Samples[s] * pts)
    BY <1>1, SamplesType, PlanFits
  <2> QED
    BY <2>1 DEF Planned, Asked
<1> HIDE DEF p
<1>3. p \subseteq Queries
  BY <1>2 DEF Splits, Queries, Asked
<1> QED
  BY <1>2, <1>3 DEF Splits, p

\* A signal starts with nothing read: what that leaves, whichever it is.
LEMMA FreshSignal ==
    ASSUME NEW s \in 1..Len(Required), IInv, signal' = s,
           size' \in Sizes, points' \in Instants \cup {1},
           Shards(s, size', points'), UNCHANGED vars,
           \A q \in Queries : at[q] = "idle",
           got' \in [Identities -> SUBSET (1..Len(Required))],
           \A i \in Identities : got'[i] \subseteq 1..(s - 1),
           failed' \subseteq Identities,
           answer' \in [Identities -> {"none", "inputs", "error"}],
           cancelled' \in BOOLEAN, excused' \in BOOLEAN,
           \A i \in Identities : i \in failed' <=>
              i \in Asked /\ \E t \in 1..(s - 1) : Required[t] /\ t \notin got'[i],
           ~excused' => \A i \in failed' : Sick(i)
    PROVE  FInv'
<1> DEFINE p == PlanOf(size', Samples[s] * points')
<1>0. s \in Nat /\ s # 0 /\ s <= Len(Required) /\ Len(Required) \in Nat
  BY FetchAssumption
<1>1. p \subseteq Queries /\ UNION p = Asked /\ \A q, r \in p : q # r => q \cap r = {}
  BY FreshPlan
<1>2. plan' = p /\ open' = p /\ tried' = {} /\ halfway' = {} /\ errs' = {}
  BY DEF Shards
<1> HIDE DEF p
<1>3. IInv'
  BY NextIInv
<1>4. FetchTypes'
  BY <1>0, <1>1, <1>2 DEF FetchTypes
<1>5. PlanIsSignals'
  BY <1>0, <1>2 DEF PlanIsSignals, p
<1>6. ReadsApart'
  BY <1>0, <1>1, <1>2 DEF ReadsApart, vars
<1>7. Accounted'
  BY <1>0, <1>1, <1>2 DEF Accounted, Asked
<1>8. Settled'
  BY <1>0 DEF Settled
<1>9. Caused' /\ DeniedForCause'
  <2>1. \A i \in failed' : Sick(i) <=> Sick(i)'
    BY DEF Sick
  <2> QED
    BY <1>0, <1>2, <2>1 DEF Caused, DeniedForCause
<1> QED
  BY <1>3, <1>4, <1>5, <1>6, <1>7, <1>8, <1>9 DEF FInv

LEMMA BeginStep == FInv /\ Begin => FInv'
<1> SUFFICES ASSUME FInv, Begin PROVE FInv'
  OBVIOUS
<1>1. 1 \in 1..Len(Required)
  BY FetchAssumption
<1>2. \A q \in Queries : at[q] = "idle"
  BY DEF FInv, ReadsApart, Begin
<1>3. PICK sz \in Sizes, pts \in Instants : size' = sz /\ points' = pts /\ Shards(1, sz, pts)
  BY DEF Begin
<1>4. got' = [i \in Identities |-> {}] /\ answer' = [i \in Identities |-> "none"]
  BY DEF Begin
<1>5. answer' \in [Identities -> {"none", "inputs", "error"}]
  BY <1>4
<1>6. got' \in [Identities -> SUBSET (1..Len(Required))]
      /\ \A i \in Identities : got'[i] \subseteq 1..(1 - 1)
  BY <1>4
<1>7. 1..(1 - 1) = {}
  OBVIOUS
<1> QED
  BY <1>1, <1>2, <1>3, <1>5, <1>6, <1>7, FreshSignal DEF Begin, FInv

\* When nothing is open what failed the identity is what set no values.
LEMMA SignalDone ==
    ASSUME FInv, signal # 0, open = {}, NEW i \in Identities
    PROVE  /\ i \in failed \cup Failing(signal) <=>
                i \in Asked /\ \E t \in 1..signal : Required[t] /\ t \notin got[i]
           /\ ~excused /\ i \in failed \cup Failing(signal) => Sick(i)
<1>0. signal \in 1..Len(Required) /\ signal \in Nat /\ Len(Required) \in Nat
  BY FetchAssumption DEF FInv, FetchTypes
<1>1. /\ i \in failed <=> i \in Asked /\ \E s \in 1..(signal - 1) : Required[s] /\ s \notin got[i]
      /\ i \in Asked => (i \in errs <=> signal \notin got[i])
      /\ i \in errs => i \in Asked
  BY <1>0 DEF FInv, Settled, Accounted, FetchTypes
<1>2. 1..signal = (1..(signal - 1)) \cup {signal}
  BY <1>0
<1>3. Failing(signal) = IF Required[signal] THEN errs ELSE {}
  BY DEF Failing
<1>4. Required[signal] \in BOOLEAN
  BY <1>0, FetchAssumption
<1>5. i \in failed \cup Failing(signal) <=>
                i \in Asked /\ \E t \in 1..signal : Required[t] /\ t \notin got[i]
  BY <1>1, <1>2, <1>3, <1>4
<1>6. ASSUME ~excused, i \in failed \cup Failing(signal) PROVE Sick(i)
  <2>1. CASE i \in failed
    BY <1>6, <2>1 DEF FInv, Caused
  <2>2. CASE i \in Failing(signal)
    <3>1. Required[signal] /\ i \in errs
      BY <1>3, <2>2
    <3> QED
      BY <1>0, <1>6, <3>1 DEF FInv, Caused, Sick
  <2> QED
    BY <1>6, <2>1, <2>2
<1> QED
  BY <1>5, <1>6

LEMMA NextSignalStep == FInv /\ NextSignal => FInv'
<1> SUFFICES ASSUME FInv, NextSignal PROVE FInv'
  OBVIOUS
<1> DEFINE s == signal + 1
<1>0. /\ s \in 1..Len(Required) /\ signal # 0 /\ s - 1 = signal /\ signal' = s
      /\ open = {}
  BY FetchAssumption DEF NextSignal, FInv, FetchTypes
<1>1. \A q \in Queries : at[q] = "idle"
  BY <1>0 DEF FInv, ReadsApart
<1>2. \A i \in Identities : got[i] \subseteq 1..signal
  BY <1>0 DEF FInv, Settled
<1>3. failed' = failed \cup Failing(signal)
  BY DEF NextSignal
<1>4. failed' \subseteq Identities
  BY <1>3 DEF Failing, FInv, FetchTypes, Asked
<1>5. \A i \in Identities : i \in failed' <=>
         i \in Asked /\ \E t \in 1..signal : Required[t] /\ t \notin got[i]
  BY <1>0, <1>3, SignalDone
<1>6. ~excused => \A i \in failed' : Sick(i)
  BY <1>0, <1>3, <1>4, SignalDone
<1>7. UNCHANGED <<vars, size, points, got, answer, cancelled, excused>>
      /\ Shards(s, size', points')
  BY DEF NextSignal, Shards
<1> HIDE DEF s
<1>8. /\ IInv /\ size' \in Sizes /\ points' \in Instants \cup {1}
      /\ got' \in [Identities -> SUBSET (1..Len(Required))]
      /\ answer' \in [Identities -> {"none", "inputs", "error"}]
      /\ cancelled' \in BOOLEAN /\ excused' \in BOOLEAN
  BY <1>7 DEF FInv, FetchTypes
<1> QED
  BY <1>0, <1>1, <1>2, <1>4, <1>5, <1>6, <1>7, <1>8, FreshSignal

LEMMA EndStep == FInv /\ End => FInv'
<1> SUFFICES ASSUME FInv, End PROVE FInv'
  OBVIOUS
<1>0. signal # 0 /\ open = {} /\ signal = Len(Required) /\ Len(Required) \in Nat
  BY FetchAssumption DEF End
<1>1. /\ failed' = failed \cup Failing(signal) /\ signal' = 0 /\ plan' = {}
      /\ answer' = [i \in Identities |-> IF i \in failed' THEN "error" ELSE "inputs"]
      /\ UNCHANGED <<vars, size, points, open, tried, halfway, got, errs, cancelled, excused>>
  BY DEF End
<1>2. IInv'
  BY <1>1, NextIInv DEF FInv
<1>3. failed' \subseteq Identities
  BY <1>1 DEF Failing, FInv, FetchTypes, Asked
<1>4. FetchTypes'
  BY <1>0, <1>1, <1>3 DEF FInv, FetchTypes
<1>5. PlanIsSignals' /\ ReadsApart' /\ Accounted' /\ Settled' /\ Caused'
  BY <1>0, <1>1 DEF FInv, PlanIsSignals, ReadsApart, Accounted, Settled, Caused, vars
<1>6. DeniedForCause'
  <2> SUFFICES ASSUME ~excused, NEW i \in Identities, answer'[i] = "error" PROVE Sick(i)
    BY <1>1 DEF DeniedForCause, Sick
  <2>1. i \in failed \cup Failing(signal)
    BY <1>1
  <2> QED
    BY <1>0, <2>1, SignalDone
<1> QED
  BY <1>2, <1>4, <1>5, <1>6 DEF FInv

\* What becomes of the read of q: it goes on; it is split into reads of one;
\* its identities fail, one alone unless the context ended; it sets values.
GoesOn(q) ==
    /\ UNCHANGED <<open, errs, got>>
    /\ tried' \subseteq open' /\ halfway' \subseteq open'

Falls(q) ==
    /\ open' = (open \ {q}) \cup {{i} : i \in q}
    /\ UNCHANGED <<errs, got>>
    /\ tried' \subseteq open' /\ halfway' \subseteq open'

Loses(q) ==
    /\ Cardinality(q) = 1 \/ cancelled
    /\ open' = open \ {q} /\ errs' = errs \cup q /\ UNCHANGED got
    /\ tried' \subseteq open' /\ halfway' \subseteq open'

Sets(q) ==
    /\ open' = open \ {q} /\ UNCHANGED errs
    /\ got' = [i \in Identities |-> IF i \in q THEN got[i] \cup {signal} ELSE got[i]]
    /\ tried' \subseteq open' /\ halfway' \subseteq open'

LEMMA FailedRead ==
    ASSUME FInv, NEW q \in open, ReadFails(q)
    PROVE  UNCHANGED Fetch /\ (GoesOn(q) \/ Falls(q) \/ Loses(q))
<1>0. tried \subseteq open /\ halfway \subseteq open
  BY DEF FInv, FetchTypes
<1>1. UNCHANGED Fetch /\ got' = got /\ halfway' = halfway \ {q}
  BY DEF ReadFails
<1>2. CASE q \notin tried /\ ~cancelled
  BY <1>0, <1>1, <1>2 DEF ReadFails, GoesOn
<1>3. CASE ~(q \notin tried /\ ~cancelled)
  <2>1. /\ tried' = tried \ {q} /\ open' = (open \ {q}) \cup Fallback(q)
        /\ errs' = IF Fallback(q) = {} THEN errs \cup q ELSE errs
    BY <1>3 DEF ReadFails
  <2>2. CASE Cardinality(q) = 1 \/ cancelled
    <3>1. Fallback(q) = {}
      BY <2>2 DEF Fallback
    <3> QED
      BY <1>0, <1>1, <2>1, <2>2, <3>1 DEF Loses
  <2>3. CASE ~(Cardinality(q) = 1 \/ cancelled)
    <3>1. Fallback(q) = {{i} : i \in q}
      BY <2>3 DEF Fallback
    <3>2. q # {}
      BY DEF FInv, FetchTypes, Queries
    <3>3. Fallback(q) # {}
      BY <3>1, <3>2
    <3> QED
      BY <1>0, <1>1, <2>1, <3>1, <3>3 DEF Falls
  <2> QED
    BY <2>2, <2>3
<1> QED
  BY <1>2, <1>3

LEMMA EndedRead ==
    ASSUME FInv, NEW q \in open, ReadEnds(q)
    PROVE  UNCHANGED Fetch /\ (GoesOn(q) \/ Sets(q))
  BY DEF FInv, FetchTypes, ReadEnds, GoesOn, Sets

\* Any of these keeps the invariant.
LEMMA ReadKeeps ==
    ASSUME FInv, [Next]_vars, signal # 0, NEW q \in open, UNCHANGED Fetch,
           GoesOn(q) \/ Falls(q) \/ Loses(q) \/ Sets(q),
           \A r \in Queries : at'[r] # "idle" => r \in open /\ (r = q => GoesOn(q)),
           excused' \in BOOLEAN, excused => excused',
           Loses(q) /\ ~excused' => Cardinality(q) = 1 /\ <<signal, q>> \in Unanswerable
    PROVE  FInv'
<1>0. /\ q \in Queries /\ q \subseteq Asked /\ q # {} /\ IsFiniteSet(q)
      /\ signal \in 1..Len(Required)
      /\ got \in [Identities -> SUBSET (1..Len(Required))]
  <2>1. q \in Queries /\ signal \in 1..Len(Required)
        /\ got \in [Identities -> SUBSET (1..Len(Required))]
    BY FetchAssumption DEF FInv, FetchTypes
  <2>2. q \subseteq Asked /\ q # {}
    BY <2>1 DEF Queries, Asked
  <2>3. IsFiniteSet(q)
    BY <2>2, SubsetFinite DEF Asked
  <2> QED
    BY <2>1, <2>2, <2>3
<1>1. UNCHANGED <<signal, size, points, plan, failed, answer, cancelled>>
  BY DEF Fetch
<1>2. IInv'
  BY NextIInv DEF FInv
<1>3. DeniedForCause' /\ PlanIsSignals'
  BY <1>1 DEF FInv, DeniedForCause, PlanIsSignals
<1>4. \A r, s \in open : r # s => r \cap s = {}
  BY DEF FInv, ReadsApart
<1>5. /\ open' \subseteq Queries /\ UNION open' \subseteq UNION open
      /\ \A r, s \in open' : r # s => r \cap s = {}
      /\ \A r \in open : r # q => r \in open'
  <2>1. CASE GoesOn(q)
    BY <1>4, <2>1 DEF GoesOn, FInv, FetchTypes
  <2>2. CASE Loses(q) \/ Sets(q)
    BY <1>4, <2>2 DEF Loses, Sets, FInv, FetchTypes
  <2>3. CASE Falls(q)
    <3>1. open' = (open \ {q}) \cup {{i} : i \in q}
      BY <2>3 DEF Falls
    <3>2. open' \subseteq Queries
      <4>1. \A i \in q : {i} \in Queries
        BY <1>0 DEF Queries, Asked
      <4>2. open \subseteq Queries
        BY DEF FInv, FetchTypes
      <4> QED
        BY <3>1, <4>1, <4>2
    <3>3. UNION open' \subseteq UNION open
      BY <3>1
    <3>4. \A r, s \in open' : r # s => r \cap s = {}
      <4> SUFFICES ASSUME NEW r \in open', NEW s \in open', r # s,
                          NEW x \in r, x \in s
                   PROVE  FALSE
        OBVIOUS
      <4>1. \A t \in open' : (t \in open /\ t # q) \/ (\E i \in q : t = {i})
        BY <3>1
      <4>2. CASE x \in q
        <5>1. \A t \in open : t # q => x \notin t
          BY <1>4, <4>2
        <5>2. r = {x}
          BY <4>1, <5>1
        <5>3. s = {x}
          BY <4>1, <5>1
        <5> QED
          BY <5>2, <5>3
      <4>3. CASE x \notin q
        <5>1. r \in open /\ s \in open
          BY <4>1, <4>3
        <5> QED
          BY <1>4, <5>1
      <4> QED
        BY <4>2, <4>3
    <3> QED
      BY <3>1, <3>2, <3>3, <3>4
  <2> QED
    BY <2>1, <2>2, <2>3
<1>6. ReadsApart'
  <2>1. \A r \in Queries : at'[r] # "idle" => r \in open'
    BY <1>5 DEF GoesOn
  <2> QED
    BY <1>0, <1>1, <1>5, <2>1 DEF ReadsApart
<1>7. /\ tried' \subseteq open' /\ halfway' \subseteq open'
      /\ errs' \subseteq Asked
      /\ got' \in [Identities -> SUBSET (1..Len(Required))]
      /\ \A i \in Identities : got'[i] \subseteq got[i] \cup {signal}
  <2>1. errs \subseteq Asked
    BY DEF FInv, FetchTypes
  <2> QED
    BY <1>0, <2>1 DEF GoesOn, Falls, Loses, Sets
<1>8. FetchTypes'
  BY <1>1, <1>5, <1>7 DEF FInv, FetchTypes
<1>9. Settled'
  <2>1. \A i \in Identities, s \in 1..(signal - 1) : s \in got[i] <=> s \in got'[i]
    <3>1. \A s \in 1..(signal - 1) : s # signal
      BY <1>0
    <3> QED
      BY <1>0, <3>1 DEF GoesOn, Falls, Loses, Sets
  <2>2. \A i \in Identities : got[i] \subseteq 1..signal /\ signal \in 1..signal
    BY <1>0 DEF FInv, Settled
  <2> QED
    BY <1>1, <1>7, <2>1, <2>2 DEF FInv, Settled
<1>10. Accounted'
  <2> SUFFICES ASSUME NEW i \in Asked
               PROVE  /\ i \in UNION open' => i \notin errs' /\ signal \notin got'[i]
                      /\ i \in errs' => signal \notin got'[i]
                      /\ i \in UNION open' \/ i \in errs' \/ signal \in got'[i]
    BY <1>1 DEF Accounted, Asked
  <2>0. /\ i \in UNION open => i \notin errs /\ signal \notin got[i]
        /\ i \in errs => signal \notin got[i]
        /\ i \in UNION open \/ i \in errs \/ signal \in got[i]
        /\ i \in Identities
    BY DEF FInv, Accounted, Asked
  <2>a. i \in q => i \in UNION open
    OBVIOUS
  <2>1. CASE GoesOn(q)
    BY <2>0, <2>1 DEF GoesOn
  <2>2. CASE Falls(q)
    <3>1. UNION open' = UNION open
      <4>1. open' = (open \ {q}) \cup {{j} : j \in q}
        BY <2>2 DEF Falls
      <4>2. ASSUME NEW x \in UNION open PROVE x \in UNION open'
        <5>1. CASE x \in q
          <6>1. {x} \in open'
            BY <4>1, <5>1
          <6> QED
            BY <6>1
        <5>2. CASE x \notin q
          <6>1. PICK r \in open : x \in r
            BY <4>2
          <6>2. r \in open'
            BY <4>1, <5>2, <6>1
          <6> QED
            BY <6>1, <6>2
        <5> QED
          BY <5>1, <5>2
      <4> QED
        BY <1>5, <4>2
    <3> QED
      BY <2>0, <2>2, <3>1 DEF Falls
  <2>3. CASE Loses(q)
    <3>1. i \in UNION open' <=> i \in UNION open /\ i \notin q
      BY <1>4, <2>3 DEF Loses
    <3> QED
      BY <2>0, <2>a, <2>3, <3>1 DEF Loses
  <2>4. CASE Sets(q)
    <3>1. i \in UNION open' <=> i \in UNION open /\ i \notin q
      BY <1>4, <2>4 DEF Sets
    <3>2. got'[i] = IF i \in q THEN got[i] \cup {signal} ELSE got[i]
      BY <2>0, <2>4 DEF Sets
    <3>3. errs' = errs
      BY <2>4 DEF Sets
    <3> QED
      BY <2>0, <2>a, <3>1, <3>2, <3>3
  <2> QED
    BY <2>1, <2>2, <2>3, <2>4
<1>11. Caused'
  <2> SUFFICES ASSUME ~excused'
               PROVE  /\ \A i \in errs' : <<signal, {i}>> \in Unanswerable
                      /\ \A i \in failed : Sick(i)
    BY <1>1 DEF Caused, Sick
  <2>1. /\ \A i \in errs : <<signal, {i}>> \in Unanswerable
        /\ \A i \in failed : Sick(i)
    BY DEF FInv, Caused
  <2>2. CASE GoesOn(q) \/ Falls(q) \/ Sets(q)
    BY <2>1, <2>2 DEF GoesOn, Falls, Sets
  <2>3. CASE Loses(q)
    <3>1. Cardinality(q) = 1 /\ <<signal, q>> \in Unanswerable
      BY <2>3
    <3>2. PICK i : q = {i}
      BY <1>0, <3>1, FS_Singleton
    <3> QED
      BY <2>1, <2>3, <3>1, <3>2 DEF Loses
  <2> QED
    BY <2>2, <2>3
<1> QED
  BY <1>2, <1>3, <1>6, <1>8, <1>9, <1>10, <1>11 DEF FInv

LEMMA ReadStepKeeps ==
    ASSUME FInv, NEW q \in Queries, ReadStep(q)
    PROVE  /\ FInv'
           /\ \/ UNCHANGED fvars
              \/ /\ signal # 0 /\ q \in open /\ UNCHANGED Fetch
                 /\ GoesOn(q) \/ Falls(q) \/ Loses(q) \/ Sets(q)
<1>0. /\ at \in [Queries -> Places]
      /\ \A r \in Queries : at[r] # "idle" => r \in open
      /\ open # {} => signal # 0
      /\ excused \in BOOLEAN /\ cancelled \in BOOLEAN
  BY FetchAssumption DEF FInv, IInv, TypeOK, ReadsApart, FetchTypes
<1>1. [Next]_vars
  BY ClientStep DEF FNext
<1>2. q \in open /\ signal # 0
  <2>1. CASE Allowed(q) \/ Refused(q)
    BY <2>1 DEF Allowed, Refused, Asks
  <2>2. CASE ~(Allowed(q) \/ Refused(q))
    <3>1. at[q] \in {"queued", "acquired", "querying"}
      BY <2>2 DEF ReadStep, Queued, QueueAborted, Rechecked, Answered, QueryFailed,
         TakeSlot, AbortQueued, Recheck, Succeeds, Fails, Finish
    <3> QED
      BY <1>0, <3>1
  <2> QED
    BY <2>1, <2>2
<1>3. CASE UNCHANGED fvars /\ \A r \in Queries : at'[r] # "idle" => r \in open
  <2>1. UNCHANGED Fetch /\ GoesOn(q) /\ excused' = excused
    BY <1>3 DEF fvars, Fetch, GoesOn, FInv, FetchTypes
  <2>3. ~Loses(q)
    BY <1>2, <2>1 DEF GoesOn, Loses
  <2>4. FInv'
    BY <1>0, <1>1, <1>2, <1>3, <2>1, <2>3, ReadKeeps
  <2> QED
    BY <1>3, <2>4
<1>4. CASE /\ ReadFails(q) /\ excused' = TRUE
           /\ \A r \in Queries : at'[r] # "idle" => r \in open /\ r # q
  <2>1. UNCHANGED Fetch /\ (GoesOn(q) \/ Falls(q) \/ Loses(q))
    BY <1>2, <1>4, FailedRead
  <2>2. FInv'
    BY <1>0, <1>1, <1>2, <1>4, <2>1, ReadKeeps
  <2> QED
    BY <1>2, <2>1, <2>2
<1>5. CASE Allowed(q)
  <2>1. \A r \in Queries : at'[r] # "idle" => r \in open
    BY <1>0, <1>2, <1>5 DEF Allowed, allow, Goto
  <2> QED
    BY <1>3, <1>5, <2>1 DEF Allowed
<1>6. CASE Refused(q)
  <2>1. \A r \in Queries : at'[r] # "idle" => r \in open /\ r # q
    BY <1>0, <1>2, <1>6 DEF Refused, Asks, vars
  <2> QED
    BY <1>4, <1>6, <2>1 DEF Refused
<1>7. CASE Queued(q)
  <2>1. \A r \in Queries : at'[r] # "idle" => r \in open
    BY <1>0, <1>2, <1>7 DEF Queued, TakeSlot, Goto
  <2> QED
    BY <1>3, <1>7, <2>1 DEF Queued
<1>8. CASE QueueAborted(q)
  <2>1. \A r \in Queries : at'[r] # "idle" => r \in open /\ r # q
    BY <1>0, <1>2, <1>8 DEF QueueAborted, AbortQueued, Goto
  <2> QED
    BY <1>4, <1>8, <2>1 DEF QueueAborted
<1>9. CASE Rechecked(q) /\ MayQuery(q)
  <2>1. \A r \in Queries : at'[r] # "idle" => r \in open
    BY <1>0, <1>2, <1>9 DEF Rechecked, Recheck, Goto
  <2> QED
    BY <1>3, <1>9, <2>1 DEF Rechecked
<1>10. CASE Rechecked(q) /\ ~MayQuery(q)
  <2>1. \A r \in Queries : at'[r] # "idle" => r \in open /\ r # q
    BY <1>0, <1>2, <1>10 DEF Rechecked, Recheck, Goto
  <2> QED
    BY <1>4, <1>10, <2>1 DEF Rechecked
<1>11. CASE Answered(q)
  <2>1. \A r \in Queries : at'[r] # "idle" => r \in open /\ r # q
    BY <1>0, <1>2, <1>11 DEF Answered, Succeeds, Finish, Goto
  <2>2. ReadEnds(q) /\ excused' = excused
    BY <1>11 DEF Answered, ReadEnds
  <2>3. UNCHANGED Fetch /\ (GoesOn(q) \/ Sets(q))
    BY <1>2, <2>2, EndedRead
  <2>4. Loses(q) => excused' \/ (Cardinality(q) = 1 /\ <<signal, q>> \in Unanswerable)
    <3>1. CASE Loses(q)
      <4>1. q # {} /\ q \cap errs = {}
        <5>1. q # {} /\ q \subseteq Asked /\ q \subseteq UNION open
          BY <1>2 DEF Queries, Asked
        <5> QED
          BY <1>2, <5>1 DEF FInv, Accounted
      <4>2. errs' = errs \cup q /\ errs' = errs
        BY <2>3, <3>1 DEF GoesOn, Sets, Loses
      <4> QED
        BY <4>1, <4>2
    <3> QED
      BY <3>1
  <2>5. FInv'
    BY <1>0, <1>1, <1>2, <2>1, <2>2, <2>3, <2>4, ReadKeeps
  <2> QED
    BY <1>2, <2>3, <2>5
<1>12. CASE QueryFailed(q)
  <2>1. \A r \in Queries : at'[r] # "idle" => r \in open /\ r # q
    BY <1>0, <1>2, <1>12 DEF QueryFailed, Fails, Finish, Goto
  <2>2. /\ ReadFails(q) /\ excused' = (excused \/ ~healthy \/ cancelled)
        /\ <<signal, q>> \in Unanswerable \/ ~healthy \/ cancelled
    BY <1>12 DEF QueryFailed
  <2>3. UNCHANGED Fetch /\ (GoesOn(q) \/ Falls(q) \/ Loses(q))
    BY <1>2, <2>2, FailedRead
  <2>4. healthy \in BOOLEAN
    BY DEF FInv, IInv, TypeOK
  <2>5. excused' \in BOOLEAN /\ (excused => excused')
    BY <1>0, <2>2, <2>4
  <2>6. Loses(q) /\ ~excused' => Cardinality(q) = 1 /\ <<signal, q>> \in Unanswerable
    BY <1>0, <2>2, <2>4 DEF Loses
  <2>7. FInv'
    BY <1>0, <1>1, <1>2, <2>1, <2>3, <2>5, <2>6, ReadKeeps
  <2> QED
    BY <1>2, <2>3, <2>7
<1> QED
  BY <1>5, <1>6, <1>7, <1>8, <1>9, <1>10, <1>11, <1>12 DEF ReadStep

LEMMA FNextInv == FInv /\ [FNext]_pvars => FInv'
<1> SUFFICES ASSUME FInv, [FNext]_pvars PROVE FInv'
  OBVIOUS
<1>1. [Next]_vars
  BY ClientStep
<1>2. IInv'
  BY <1>1, NextIInv DEF FInv
<1>3. CASE Begin
  BY <1>3, BeginStep
<1>4. CASE NextSignal
  BY <1>4, NextSignalStep
<1>5. CASE End
  BY <1>5, EndStep
<1>6. CASE Cancel
  <2>1. /\ UNCHANGED <<vars, signal, size, points, plan, open, tried, halfway, got,
                       errs, failed, answer, excused>>
        /\ cancelled' \in BOOLEAN
    BY <1>6 DEF Cancel
  <2> QED
    BY <1>2, <2>1 DEF FInv, FetchTypes, PlanIsSignals, ReadsApart, Accounted, Settled,
       Caused, Sick, DeniedForCause, vars
<1>7. CASE Prometheus \/ CoolsDown \/ UNCHANGED pvars
  <2>1. UNCHANGED <<at, fvars>>
    BY <1>7 DEF Prometheus, CoolsDown, HealthChanges, Tick, pvars, vars
  <2> QED
    BY <1>2, <2>1 DEF FInv, FetchTypes, PlanIsSignals, ReadsApart, Accounted, Settled,
       Caused, Sick, DeniedForCause, fvars
<1>8. ASSUME NEW q \in Queries, ReadStep(q) PROVE FInv'
  BY <1>8, ReadStepKeeps
<1> QED
  BY <1>3, <1>4, <1>5, <1>6, <1>7, <1>8 DEF FNext

\* The invariant of the fetch.
THEOREM FetchInvariant == FSpec => []FInv
  BY FInvInit, FNextInv, PTL DEF FSpec

\* Every variable keeps its type: a fetch leaves no read behind, and only what
\* it asked for is read, retried or failed (FetchInputs, eachShard).
THEOREM FetchTypesHold == FSpec => []FTypeOK
<1>1. FInv => FTypeOK
  <2> SUFFICES ASSUME FInv PROVE FTypeOK
    OBVIOUS
  <2>1. plan \subseteq Queries
    <3>1. CASE signal = 0
      BY <3>1 DEF FInv, PlanIsSignals
    <3>2. CASE signal # 0
      <4>1. signal \in 1..Len(Required) /\ size \in Sizes /\ points \in Instants \cup {1}
        BY <3>2, FetchAssumption DEF FInv, FetchTypes
      <4> QED
        BY <3>2, <4>1, FreshPlan DEF FInv, PlanIsSignals
    <3> QED
      BY <3>1, <3>2
  <2> QED
    BY <2>1 DEF FInv, IInv, FetchTypes, FTypeOK, Asked
<1> QED
  BY <1>1, FetchInvariant, PTL

\* The shards of every plan read each well-formed identity once, within the
\* bounds and no smaller than they need be, for any identities, groups, sizes
\* and limits (BuildShards, plan).
THEOREM ShardsAlwaysFit == FSpec => []ShardsFit
<1>1. FInv => ShardsFit
  <2> SUFFICES ASSUME FInv, signal # 0 PROVE ShardsFit
    BY DEF ShardsFit
  <2> DEFINE samples == Samples[signal] * points
  <2>1. /\ signal \in 1..Len(Required) /\ points \in Instants \cup {1}
        /\ size \in [Identities -> Nat]
    BY FetchAssumption DEF FInv, FetchTypes
  <2>2. samples \in Nat
    BY <2>1, SamplesType
  <2>3. plan = PlanOf(size, samples)
    BY DEF FInv, PlanIsSignals
  <2>4. \A some : Total(some) = SumOf(some, size, samples)
    BY DEF Total
  <2> HIDE DEF samples
  <2>5. Planned(plan, size, samples)
    BY <2>1, <2>2, <2>3, PlanFits
  <2> QED
    BY <2>4, <2>5 DEF ShardsFit, Planned, Splits, Bounded
<1> QED
  BY <1>1, FetchInvariant, PTL

\* Unless the client turned a query away, an identity is denied its inputs
\* only because its own query for a required signal cannot be answered: no
\* shard mate's failure ever denies it (eachShard).
THEOREM AlwaysDeniedForCause == FSpec => []DeniedForCause
  BY FetchInvariant, PTL DEF FInv

\* The client keeps its own promises under a fetch: the circuit is open
\* exactly while the last MaxFailures answers failed (allow, failure).
THEOREM OpenEarnedUnderFetch == FSpec => []OpenIsEarned
  BY FetchInvariant, PTL DEF FInv, IInv

-----------------------------------------------------------------------------
(* The refinement *)

LEMMA PromiseInit == FInit => Promise!AInit
  BY DEF FInit, Promise!AInit, LostOf

lostNow == [i \in Identities |-> LostOf(i)]

\* What a read loses, an identity at a time.
LEMMA LostAfter ==
    ASSUME FInv, NEW q \in open, signal # 0, UNCHANGED Fetch,
           GoesOn(q) \/ Falls(q) \/ Loses(q) \/ Sets(q), NEW i \in Identities
    PROVE  LostOf(i)' = IF Loses(q) /\ i \in q THEN LostOf(i) \cup {signal} ELSE LostOf(i)
<1>0. /\ signal' = signal /\ signal \in Nat /\ q \subseteq Asked
      /\ got \in [Identities -> SUBSET (1..Len(Required))]
  BY FetchAssumption DEF Fetch, FInv, FetchTypes, Queries, Asked
<1>1. errs' = errs \cup (IF Loses(q) THEN q ELSE {})
  <2>1. CASE Loses(q)
    BY <2>1 DEF Loses
  <2>2. CASE ~Loses(q)
    BY <2>2 DEF GoesOn, Falls, Sets
  <2> QED
    BY <2>1, <2>2
<1>2. (1..(signal - 1)) \ got'[i] = (1..(signal - 1)) \ got[i]
  <2>1. signal \notin 1..(signal - 1)
    BY <1>0
  <2>2. got'[i] = got[i] \/ got'[i] = got[i] \cup {signal}
    BY <1>0 DEF GoesOn, Falls, Loses, Sets
  <2> QED
    BY <2>1, <2>2
<1>3. LostOf(i) = IF i \in Malformed THEN {}
                  ELSE ((1..(signal - 1)) \ got[i]) \cup (IF i \in errs THEN {signal} ELSE {})
  BY DEF LostOf
<1>4. LostOf(i)' = IF i \in Malformed THEN {}
                   ELSE ((1..(signal - 1)) \ got'[i]) \cup (IF i \in errs' THEN {signal} ELSE {})
  BY <1>0 DEF LostOf
<1>5. i \in q => i \notin Malformed
  BY <1>0 DEF Asked
<1> QED
  BY <1>1, <1>2, <1>3, <1>4, <1>5

\* What is still unread.
LEMMA UnreadAfter ==
    ASSUME FInv, NEW q \in open, GoesOn(q) \/ Falls(q) \/ Loses(q) \/ Sets(q)
    PROVE  /\ q # {} /\ q \subseteq UNION open /\ IsFiniteSet(q)
           /\ GoesOn(q) \/ Falls(q) => UNION open' = UNION open
           /\ Loses(q) \/ Sets(q) => UNION open' = (UNION open) \ q
<1>1. \A r \in open : r # q => r \cap q = {}
  BY DEF FInv, ReadsApart
<1>2. q \in Queries
  BY DEF FInv, FetchTypes
<1>3. q # {} /\ q \in SUBSET Identities
  BY <1>2 DEF Queries
<1>4. IsFiniteSet(q)
  BY <1>3, SubsetFinite
<1>5. ASSUME Falls(q) PROVE UNION open' = UNION open
  <2>1. open' = (open \ {q}) \cup {{i} : i \in q}
    BY <1>5 DEF Falls
  <2>2. ASSUME NEW x PROVE x \in UNION open' <=> x \in UNION open
    <3>1. x \in UNION {{i} : i \in q} <=> x \in q
      OBVIOUS
    <3>2. x \in UNION open' <=> x \in UNION (open \ {q}) \/ x \in UNION {{i} : i \in q}
      BY <2>1
    <3>3. x \in UNION open <=> x \in UNION (open \ {q}) \/ x \in q
      OBVIOUS
    <3> QED
      BY <3>1, <3>2, <3>3
  <2> QED
    BY <2>2
<1>6. ASSUME Loses(q) \/ Sets(q) PROVE UNION open' = (UNION open) \ q
  <2>1. open' = open \ {q}
    BY <1>6 DEF Loses, Sets
  <2> QED
    BY <1>1, <2>1
<1>7. GoesOn(q) => UNION open' = UNION open
  BY DEF GoesOn
<1> QED
  BY <1>3, <1>4, <1>5, <1>6, <1>7

\* Each end of a read is a step of the promise, or none.
LEMMA PromiseRead ==
    ASSUME FInv, NEW q \in open, signal # 0, UNCHANGED Fetch,
           GoesOn(q) \/ Falls(q) \/ Loses(q) \/ Sets(q)
    PROVE  [Promise!ANext]_(Promise!avars)
<1>0. UNCHANGED <<signal, cancelled, answer>>
  BY DEF Fetch
<1>1. q # {} /\ q \subseteq UNION open /\ IsFiniteSet(q)
  BY UnreadAfter
<1>2. CASE Loses(q)
  <2>1. UNION open' = (UNION open) \ q
    BY <1>2, UnreadAfter
  <2>2. lostNow' = [i \in Identities |-> IF i \in q THEN lostNow[i] \cup {signal}
                                         ELSE lostNow[i]]
    BY <1>2, LostAfter DEF lostNow
  <2>3. Promise!Lose(q)
    BY <1>0, <2>1, <2>2 DEF Promise!Lose, lostNow
  <2>4. CASE cancelled
    BY <1>1, <2>3, <2>4 DEF Promise!ANext, Promise!LoseTogether
  <2>5. CASE ~cancelled
    <3>1. Cardinality(q) = 1
      BY <1>2, <2>5 DEF Loses
    <3>2. PICK i : q = {i}
      BY <1>1, <3>1, FS_Singleton
    <3>3. i \in UNION open /\ Promise!Lose({i})
      BY <1>1, <2>3, <3>2
    <3> QED
      BY <3>3 DEF Promise!ANext, Promise!LoseOne
  <2> QED
    BY <2>4, <2>5
<1>3. CASE ~Loses(q)
  <2>1. lostNow' = lostNow
    BY <1>3, LostAfter DEF lostNow
  <2>2. CASE GoesOn(q) \/ Falls(q)
    <3>1. UNION open' = UNION open
      BY <2>2, UnreadAfter
    <3> QED
      BY <1>0, <2>1, <3>1 DEF Promise!avars, lostNow
  <2>3. CASE Sets(q)
    <3>1. UNION open' = (UNION open) \ q
      BY <2>3, UnreadAfter
    <3>2. Promise!Read
      BY <1>0, <1>1, <2>1, <3>1 DEF Promise!Read, lostNow
    <3> QED
      BY <3>2 DEF Promise!ANext
  <2> QED
    BY <1>3, <2>2, <2>3
<1> QED
  BY <1>2, <1>3

\* When nothing is open an identity has lost what set no values.
LEMMA LostWhenDone ==
    ASSUME FInv, signal # 0, open = {}, NEW i \in Identities
    PROVE  LostOf(i) = IF i \in Malformed THEN {} ELSE (1..signal) \ got[i]
<1>0. signal \in 1..Len(Required) /\ signal \in Nat
  BY FetchAssumption DEF FInv, FetchTypes
<1>1. CASE i \in Malformed
  BY <1>1 DEF LostOf
<1>2. CASE i \notin Malformed
  <2>1. i \in errs <=> signal \notin got[i]
    BY <1>2 DEF FInv, Accounted, Asked
  <2>2. LostOf(i) = ((1..(signal - 1)) \ got[i]) \cup (IF i \in errs THEN {signal} ELSE {})
    BY <1>2 DEF LostOf
  <2>3. 1..signal = (1..(signal - 1)) \cup {signal} /\ signal \notin 1..(signal - 1)
    BY <1>0
  <2> QED
    BY <1>2, <2>1, <2>2, <2>3
<1> QED
  BY <1>1, <1>2

LEMMA PromiseStart == ASSUME FInv, Begin PROVE Promise!Start
<1>1. 1 \in 1..Len(Required)
  BY FetchAssumption
<1>2. PICK sz \in Sizes, pts \in Instants : size' = sz /\ points' = pts /\ Shards(1, sz, pts)
  BY DEF Begin
<1>3. UNION open' = Asked
  BY <1>1, <1>2, FreshPlan DEF Shards
<1>4. lostNow' = [i \in Identities |-> {}]
  <2>1. ASSUME NEW i \in Identities PROVE LostOf(i)' = {}
    BY <1>2 DEF Begin, Shards, LostOf
  <2> QED
    BY <2>1 DEF lostNow
<1> QED
  BY <1>3, <1>4 DEF Promise!Start, Begin, lostNow, Asked

LEMMA PromiseAdvance == ASSUME FInv, NextSignal PROVE Promise!Advance
<1>0. /\ signal \in 1..(Len(Required) - 1) /\ open = {} /\ signal' = signal + 1
      /\ signal # 0 /\ signal + 1 \in 1..Len(Required)
      /\ size \in Sizes /\ points \in Instants \cup {1}
  BY FetchAssumption DEF NextSignal, FInv, FetchTypes
<1>1. /\ Shards(signal + 1, size, points)
      /\ UNCHANGED <<size, points, got, answer, cancelled>>
  BY <1>0 DEF NextSignal
<1>2. UNION open' = Asked
  BY <1>0, <1>1, FreshPlan DEF Shards
<1>3. lostNow' = lostNow
  <2>1. ASSUME NEW i \in Identities PROVE LostOf(i)' = LostOf(i)
    <3>1. LostOf(i) = IF i \in Malformed THEN {} ELSE (1..signal) \ got[i]
      BY <1>0, LostWhenDone
    <3>2. errs' = {} /\ signal' # 0 /\ signal' - 1 = signal /\ got' = got
      BY <1>0, <1>1 DEF Shards
    <3>3. LostOf(i)' = IF i \in Malformed THEN {} ELSE (1..signal) \ got[i]
      BY <3>2 DEF LostOf
    <3> QED
      BY <3>1, <3>3
  <2> QED
    BY <2>1 DEF lostNow
<1> QED
  BY <1>0, <1>1, <1>2, <1>3 DEF Promise!Advance, lostNow, Asked

LEMMA PromiseReturn == ASSUME FInv, End PROVE Promise!Return
<1>0. signal # 0 /\ open = {} /\ signal = Len(Required)
  BY FetchAssumption DEF End
<1>1. /\ failed' = failed \cup Failing(signal) /\ signal' = 0
      /\ answer' = [i \in Identities |-> IF i \in failed' THEN "error" ELSE "inputs"]
      /\ UNCHANGED <<open, got, cancelled>>
  BY DEF End
<1>2. ASSUME NEW i \in Identities
      PROVE  /\ LostOf(i)' = LostOf(i)
             /\ i \in failed' <=> \E s \in LostOf(i) : Required[s]
  <2>1. LostOf(i) = IF i \in Malformed THEN {} ELSE (1..signal) \ got[i]
    BY <1>0, LostWhenDone
  <2>2. answer'[i] # "none"
    BY <1>1
  <2>3. LostOf(i)' = IF i \in Malformed THEN {} ELSE (1..signal) \ got[i]
    BY <1>0, <1>1, <2>2 DEF LostOf
  <2>4. i \in failed' <=> i \in Asked /\ \E t \in 1..signal : Required[t] /\ t \notin got[i]
    BY <1>0, <1>1, SignalDone
  <2> QED
    BY <2>1, <2>3, <2>4 DEF Asked
<1>3. lostNow' = lostNow
  BY <1>2 DEF lostNow
<1>4. answer' = [i \in Identities |-> IF \E s \in lostNow[i] : Required[s]
                                      THEN "error" ELSE "inputs"]
  BY <1>1, <1>2 DEF lostNow
<1>5. UNION open = {} /\ UNION open' = UNION open
  BY <1>0, <1>1
<1> QED
  BY <1>0, <1>1, <1>3, <1>4, <1>5 DEF Promise!Return, lostNow

LEMMA PromiseStep == FInv /\ [FNext]_pvars => [Promise!ANext]_(Promise!avars)
<1> SUFFICES ASSUME FInv, [FNext]_pvars PROVE [Promise!ANext]_(Promise!avars)
  OBVIOUS
<1>1. CASE Begin
  BY <1>1, PromiseStart DEF Promise!ANext
<1>2. CASE NextSignal
  BY <1>2, PromiseAdvance DEF Promise!ANext
<1>3. CASE End
  BY <1>3, PromiseReturn DEF Promise!ANext
<1>4. CASE Cancel
  <2>1. lostNow' = lostNow
    BY <1>4 DEF Cancel, lostNow, LostOf
  <2>2. Promise!GiveUp
    BY <1>4, <2>1 DEF Cancel, Promise!GiveUp, lostNow
  <2> QED
    BY <2>2 DEF Promise!ANext
<1>5. CASE UNCHANGED fvars
  <2>1. lostNow' = lostNow
    BY <1>5 DEF fvars, lostNow, LostOf
  <2> QED
    BY <1>5, <2>1 DEF fvars, Promise!avars, lostNow
<1>6. CASE Prometheus \/ CoolsDown \/ UNCHANGED pvars
  BY <1>5, <1>6 DEF Prometheus, CoolsDown, pvars
<1>7. ASSUME NEW q \in Queries, ReadStep(q) PROVE [Promise!ANext]_(Promise!avars)
  BY <1>5, <1>7, ReadStepKeeps, PromiseRead
<1> QED
  BY <1>1, <1>2, <1>3, <1>4, <1>6, <1>7 DEF FNext

\* Shards, retries, fallbacks and the shared client never show: for any
\* identities, signals, limits and failures a fetch answers as if each
\* identity had been read on its own (FetchInputs, fetchSignals, eachShard).
THEOREM FetchKeepsPromise == FSpec => KeepsPromise
<1>1. FInit => Promise!AInit
  BY PromiseInit
<1>2. FInv /\ [FNext]_pvars => [Promise!ANext]_(Promise!avars)
  BY PromiseStep
<1> QED
  BY <1>1, <1>2, FetchInvariant, PTL DEF FSpec, KeepsPromise, Promise!ASpec
=============================================================================
