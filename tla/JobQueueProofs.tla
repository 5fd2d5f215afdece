--------------------------- MODULE JobQueueProofs ---------------------------
(***************************************************************************)
(* Theorems about module JobQueue, for any jobs, any threads that push,    *)
(* any number of levels and any size of runAging's buffer.                 *)
(***************************************************************************)
EXTENDS JobQueue, SequenceTheorems, FiniteSetTheorems, TLAPS

-----------------------------------------------------------------------------
(* The inductive invariant.                                                *)

(* The jobs of S behind job j, in the order of the lists.                  *)
After(j, S) == {k \in S : Precedes(j, k)}

(* h is the job a list of the jobs of S starts with, if there are any.     *)
StartsAt(h, S) == IF S = {} THEN h = NoJob ELSE IsFirst(h, S)

(* From h along nx, the nodes are the jobs of S in order.                  *)
IsList(h, nx, S) ==
  /\ S \subseteq Jobs
  /\ StartsAt(h, S)
  /\ \A j \in S : StartsAt(nx[j], After(j, S))

ListsKnown ==
  \A l \in Levels :
     /\ IsList(head[l], next, nodes(l))
     /\ size[l] = Cardinality(nodes(l))

(* The jobs in runAging's buffer.                                          *)
inBuffer == {aged[i] : i \in DOMAIN aged}

(* A job is in one place: one list, the buffer, out or with its thread.    *)
PlacesKnown ==
  /\ \A l, m \in Levels : l # m => nodes(l) \cap nodes(m) = {}
  /\ \A l \in Levels : \A j \in nodes(l) :
        status[j] = "READY" /\ j \notin out /\ j \notin inBuffer
  /\ \A j \in out : status[j] = "READY" /\ j \notin inBuffer
  /\ \A j \in inBuffer : status[j] = "READY"

(* No two threads push the same job, and the pushed one is in no list.     *)
PushesKnown ==
  /\ \A t \in Thread : tpc[t] = "off" <=> tjob[t] = NoJob
  /\ \A t \in Pusher :
        tjob[t] # NoJob => status[tjob[t]] = "WAITING" \/ tjob[t] \in out
  /\ tjob[AgingThread] # NoJob => apc = "push" /\ tjob[AgingThread] = aged[1]
  /\ \A t, u \in Thread : t # u /\ tjob[t] = tjob[u] => tjob[t] = NoJob

(* The buffer is in order, and empty before a drain.                       *)
BufferKnown ==
  /\ apc \in {"sleep", "drain"} => aged = <<>>
  /\ apc = "push" => aged # <<>>
  /\ apc = "sleep" => alvl = 1
  /\ Cardinality(inBuffer) = Len(aged)
  /\ \A i, k \in DOMAIN aged : i < k => Precedes(aged[i], aged[k])

(* A thread walks with the mutex of its level, and stands on neighbours.   *)
Walks(t, l) ==
  /\ owner[l] = t
  /\ IF prev[t] = NoJob
     THEN cur[t] = head[l]
     ELSE prev[t] \in nodes(l) /\ cur[t] = next[prev[t]]

(* A push has passed only jobs its own goes behind.                        *)
WalksKnown ==
  /\ \A t \in Thread : tpc[t] = "scan" =>
        /\ Walks(t, targetLevel(t))
        /\ prev[t] # NoJob => Precedes(prev[t], tjob[t])
  /\ apc = "walk" => Walks(AgingThread, alvl)

(* The nodes a walk over S has still to see, behind p.                     *)
ahead(p, S) == IF p = NoJob THEN S ELSE After(p, S)

(* Of the nodes it has seen, a drain took those that were aged, and only   *)
(* those.                                                                  *)
DrainKnown ==
  apc = "walk" =>
    LET rest == ahead(prev[AgingThread], nodes(alvl))
    IN /\ \A j \in inBuffer : aging_ticks[j] >= AGING_THRESHOLD
       /\ \A j \in inBuffer : \A k \in rest : Precedes(j, k)
       /\ \A j \in nodes(alvl) \ rest : aging_ticks[j] < AGING_THRESHOLD

(* hasBetterCandidate looks no further than the level it was asked about.  *)
AskKnown ==
  /\ dpc \in {"empty", "top"} => asked \in Asked /\ dlvl <= asked.lvl
  /\ dpc = "top" => dlvl = asked.lvl
  /\ dpc = "idle" => dlvl = 0

Inv ==
  /\ TypeOK /\ ListsKnown /\ PlacesKnown /\ PushesKnown /\ BufferKnown
  /\ WalksKnown /\ DrainKnown /\ AskKnown

-----------------------------------------------------------------------------
(* The lists.                                                              *)

LEMMA Order ==
  ASSUME NEW i \in Jobs, NEW j \in Jobs
  PROVE  /\ ~ Precedes(i, i)
         /\ i # j => Precedes(i, j) \/ Precedes(j, i)
         /\ ~ (Precedes(i, j) /\ Precedes(j, i))
         /\ \A k \in Jobs : Precedes(i, j) /\ Precedes(j, k) => Precedes(i, k)
<1>1. ASSUME NEW k \in Jobs
      PROVE  PriorityOf[k] \in Nat /\ SubmitTime[k] \in Nat
  BY JobAssumption DEF Priorities
<1> QED
  BY <1>1, JobAssumption DEF Precedes

LEMMA InsertHereIsOrder ==
  ASSUME NEW i, NEW j
  PROVE  insertHere(i, j) <=> Precedes(i, j)
BY DEF insertHere, Precedes

(* Induction on numbers, as a minimal counterexample.                      *)
LEMMA MinimalNumber ==
  ASSUME NEW B \in SUBSET Nat, B # {}
  PROVE  \E n \in B : \A m \in B : n <= m
<1>1. PICK b \in B : TRUE
  OBVIOUS
<1> DEFINE T == {0 .. n : n \in {m \in B : m <= b}}
<1>2. IsFiniteSet(0 .. b) /\ T \subseteq SUBSET (0 .. b) /\ 0 .. b \in T
  <2>1. 0 \in Int /\ b \in Int
    OBVIOUS
  <2>2. IsFiniteSet(0 .. b)
    BY <2>1, FS_Interval
  <2>3. \A m \in Nat : m <= b => 0 .. m \subseteq 0 .. b
    OBVIOUS
  <2> QED
    BY <2>2, <2>3
<1>3. IsWellFoundedOn(StrictSubsetOrdering(0 .. b), SUBSET (0 .. b))
  BY <1>2, FS_StrictSubsetOrderingWellFounded, FS_FiniteSubsetsOfFinite
<1>4. PICK X \in T : \A Y \in T : ~ (<<Y, X>> \in StrictSubsetOrdering(0 .. b))
  <2> HIDE DEF T
  <2> QED
    BY <1>2, <1>3, WFMin
<1>5. PICK n \in B : n <= b /\ X = 0 .. n
  BY <1>4
<1>6. ASSUME NEW m \in B, m < n
      PROVE  FALSE
  <2>1. 0 .. m \in T /\ 0 .. m \subseteq X /\ n \in X /\ n \notin 0 .. m
    BY <1>5, <1>6
  <2> QED
    BY <1>2, <1>4, <2>1 DEF StrictSubsetOrdering
<1> QED
  BY <1>6

(* The first n nodes from h along nx, the way nodeAt finds them.           *)
IsChain(f, h, nx, n) ==
  f = [m \in 1 .. n |->
         IF m = 1 THEN h
         ELSE IF f[m - 1] = NoJob THEN NoJob ELSE nx[f[m - 1]]]

LEMMA ChainExists ==
  ASSUME NEW h, NEW nx, NEW n \in Nat
  PROVE  \E f : IsChain(f, h, nx, n)
<1> DEFINE B == {m \in Nat : ~ \E f : IsChain(f, h, nx, m)}
<1> SUFFICES ASSUME B # {} PROVE FALSE
  OBVIOUS
<1>1. PICK m \in B : \A k \in B : m <= k
  <2>1. B \in SUBSET Nat
    OBVIOUS
  <2> HIDE DEF B
  <2> QED
    BY <2>1, MinimalNumber
<1>2. CASE m = 0
  <2>1. IsChain([k \in 1 .. 0 |-> h], h, nx, 0)
    BY DEF IsChain
  <2> QED
    BY <1>2, <2>1
<1>3. CASE m # 0
  <2>1. m - 1 \in Nat /\ m - 1 \notin B
    BY <1>1, <1>3
  <2>2. PICK f : IsChain(f, h, nx, m - 1)
    BY <2>1
  <2> DEFINE g == [k \in 1 .. m |->
                     IF k = 1 THEN h
                     ELSE IF f[k - 1] = NoJob THEN NoJob ELSE nx[f[k - 1]]]
  <2>3. ASSUME NEW k \in 1 .. m, k # m
        PROVE  g[k] = f[k]
    <3>1. k \in 1 .. m - 1
      BY <2>3, <2>1
    <3> QED
      BY <2>2, <3>1 DEF IsChain
  <2>4. ASSUME NEW k \in 1 .. m, k # 1
        PROVE  g[k - 1] = f[k - 1]
    <3>1. k - 1 \in 1 .. m /\ k - 1 # m
      BY <2>4
    <3> QED
      BY <2>3, <3>1
  <2>5. IsChain(g, h, nx, m)
    BY <2>4 DEF IsChain
  <2> QED
    BY <2>5
<1> QED
  BY <1>2, <1>3

(* The nodes from h along nx, the way nodes collects them.                 *)
chainSet(h, nx) ==
  LET f[n \in 1 .. Cardinality(Jobs)] ==
        IF n = 1 THEN h ELSE IF f[n - 1] = NoJob THEN NoJob ELSE nx[f[n - 1]]
  IN {f[n] : n \in 1 .. Cardinality(Jobs)} \ {NoJob}

LEMMA NodesAreChain ==
  /\ \A l : nodes(l) = chainSet(head[l], next)
  /\ \A l : nodes(l)' = chainSet(head'[l], next')
BY DEF nodes, nodeAt, chainSet

(* The nodes of a list are the jobs it is a list of.                       *)
LEMMA ChainIsList ==
  ASSUME NEW h, NEW nx, NEW S, IsList(h, nx, S)
  PROVE  chainSet(h, nx) = S
<1> DEFINE N == Cardinality(Jobs)
           f == CHOOSE f : IsChain(f, h, nx, N)
           seen(n) == {f[i] : i \in 1 .. n - 1} \ {NoJob}
           Good(n) ==
             /\ seen(n) \subseteq S
             /\ StartsAt(f[n], S \ seen(n))
             /\ \A i \in seen(n), k \in S \ seen(n) : Precedes(i, k)
             /\ IsFiniteSet(seen(n))
             /\ f[n] # NoJob => Cardinality(seen(n)) = n - 1
<1>1. N \in Nat /\ IsFiniteSet(Jobs)
  BY JobAssumption, FS_CardinalityType
<1>2. IsChain(f, h, nx, N)
  BY <1>1, ChainExists
<1>3. chainSet(h, nx) = {f[n] : n \in 1 .. N} \ {NoJob}
  BY DEF chainSet, IsChain
<1> HIDE DEF f
<1>4. S \subseteq Jobs /\ StartsAt(h, S) /\ \A j \in S : StartsAt(nx[j], After(j, S))
  BY DEF IsList
<1>5. N # 0 => Good(1)
  <2>1. seen(1) = {}
    OBVIOUS
  <2>2. N # 0 => f[1] = h
    BY <1>1, <1>2 DEF IsChain
  <2>3. IsFiniteSet({}) /\ Cardinality({}) = 0
    BY FS_EmptySet
  <2> QED
    BY <1>4, <2>1, <2>2, <2>3
<1>6. ASSUME NEW n \in 1 .. N, n + 1 \in 1 .. N, Good(n)
      PROVE  Good(n + 1)
  <2>1. f[n + 1] = IF f[n] = NoJob THEN NoJob ELSE nx[f[n]]
    BY <1>2, <1>6 DEF IsChain
  <2>2. seen(n + 1) = seen(n) \cup ({f[n]} \ {NoJob})
    <3>1. 1 .. (n + 1) - 1 = (1 .. n - 1) \cup {n}
      OBVIOUS
    <3> QED
      BY <3>1
  <2> HIDE DEF seen
  <2>3. CASE f[n] = NoJob
    <3>1. S \ seen(n) = {}
      BY <1>4, <1>6, <2>3, JobAssumption DEF StartsAt, IsFirst
    <3> QED
      BY <1>6, <2>1, <2>2, <2>3, <3>1 DEF StartsAt
  <2>4. CASE f[n] # NoJob
    <3> DEFINE j == f[n]
               R == S \ seen(n)
               R2 == S \ seen(n + 1)
    <3>1. j \in R /\ \A k \in R \ {j} : Precedes(j, k)
      BY <1>6, <2>4 DEF StartsAt, IsFirst
    <3>2. seen(n + 1) = seen(n) \cup {j} /\ j \notin seen(n)
      BY <2>2, <2>4, <3>1
    <3>3. R2 = After(j, S)
      <4>1. R2 = R \ {j}
        BY <3>2
      <4>2. ASSUME NEW k \in S, k \in seen(n + 1)
            PROVE  ~ Precedes(j, k)
        BY <1>4, <1>6, <3>1, <3>2, <4>2, Order
      <4> QED
        BY <3>1, <4>1, <4>2 DEF After
    <3>4. StartsAt(f[n + 1], R2)
      BY <1>4, <2>1, <2>4, <3>1, <3>3
    <3>5. \A i \in seen(n + 1), k \in R2 : Precedes(i, k)
      BY <1>6, <3>1, <3>2
    <3>6. IsFiniteSet(seen(n + 1)) /\ Cardinality(seen(n + 1)) = n
      BY <1>6, <2>4, <3>2, FS_AddElement
    <3> QED
      BY <1>6, <3>1, <3>2, <3>4, <3>5, <3>6
  <2> QED
    BY <2>3, <2>4
<1> HIDE DEF Good, N
<1>7. \A n \in 1 .. N : Good(n)
  <2> DEFINE B == {n \in 1 .. N : ~ Good(n)}
  <2> SUFFICES ASSUME B # {} PROVE FALSE
    OBVIOUS
  <2>1. PICK n \in B : \A m \in B : n <= m
    <3>1. B \in SUBSET Nat
      BY <1>1
    <3> HIDE DEF B
    <3> QED
      BY <3>1, MinimalNumber
  <2>2. n # 1
    BY <1>1, <1>5, <2>1
  <2>3. n - 1 \in 1 .. N /\ n - 1 \notin B
    BY <1>1, <2>1, <2>2
  <2>4. PICK m \in 1 .. N : m = n - 1 /\ m + 1 = n
    BY <2>3
  <2> QED
    BY <1>6, <2>1, <2>3, <2>4
<1>8. CASE N = 0
  <2>1. Jobs = {}
    BY <1>1, <1>8, FS_EmptySet DEF N
  <2> QED
    BY <1>3, <1>4, <1>8, <2>1
<1>9. CASE N # 0
  <2>1. N \in 1 .. N
    BY <1>1, <1>9
  <2>2. {f[n] : n \in 1 .. N} \ {NoJob} = seen(N) \cup ({f[N]} \ {NoJob})
    <3>1. 1 .. N = (1 .. N - 1) \cup {N}
      BY <1>1, <1>9
    <3> QED
      BY <3>1
  <2> HIDE DEF seen
  <2>3. Good(N)
    BY <1>7, <2>1
  <2>4. CASE f[N] = NoJob
    <3>1. S \ seen(N) = {}
      BY <1>4, <2>3, <2>4, JobAssumption DEF StartsAt, IsFirst, Good
    <3> QED
      BY <1>3, <2>2, <2>3, <2>4, <3>1 DEF Good
  <2>5. CASE f[N] # NoJob
    <3>1. f[N] \in S /\ f[N] \notin seen(N)
      BY <2>3, <2>5 DEF Good, StartsAt, IsFirst
    <3> DEFINE T == seen(N) \cup {f[N]}
    <3>2. T \subseteq S /\ T \subseteq Jobs
      BY <1>4, <2>3, <3>1 DEF Good
    <3>3. Cardinality(T) = N
      <4>1. IsFiniteSet(seen(N)) /\ Cardinality(seen(N)) = N - 1
        BY <2>3, <2>5 DEF Good
      <4>2. Cardinality(T) = Cardinality(seen(N)) + 1
        BY <3>1, <4>1, FS_AddElement
      <4> QED
        BY <1>1, <4>1, <4>2
    <3>4. T = Jobs
      <4> HIDE DEF T
      <4> QED
        BY <1>1, <3>2, <3>3, FS_Subset DEF N
    <3> QED
      BY <1>3, <1>4, <2>2, <2>5, <3>2, <3>4
  <2> QED
    BY <2>4, <2>5
<1> QED
  BY <1>8, <1>9

(* Nodes that are not in a list can change.                                *)
LEMMA ListFrame ==
  ASSUME NEW h, NEW nx, NEW S, IsList(h, nx, S),
         NEW nx2, \A k \in S : nx2[k] = nx[k]
  PROVE  IsList(h, nx2, S)
BY DEF IsList

(* A list that is not empty starts with its head, and cur # NoJob is in it. *)
LEMMA ListHead ==
  ASSUME NEW h, NEW nx, NEW S, IsList(h, nx, S)
  PROVE  /\ h \in S \cup {NoJob}
         /\ h = NoJob <=> S = {}
         /\ h # NoJob => IsFirst(h, S)
         /\ \A j \in S : nx[j] \in S \cup {NoJob}
         /\ \A j \in S : nx[j] # NoJob => Precedes(j, nx[j])
BY JobAssumption DEF IsList, StartsAt, IsFirst, After

(* link: a job goes in between two neighbours that it belongs between.     *)
LEMMA LinkedIsList ==
  ASSUME NEW h, NEW nx \in [Jobs -> Jobs \cup {NoJob}], NEW S, IsList(h, nx, S),
         NEW j \in Jobs \ S, NEW p, NEW c, NEW h2, NEW nx2,
         IF p = NoJob
         THEN c = h /\ h2 = j /\ nx2 = [nx EXCEPT ![j] = h]
         ELSE /\ p \in S /\ c = nx[p] /\ Precedes(p, j)
              /\ h2 = h /\ nx2 = [nx EXCEPT ![j] = nx[p], ![p] = j],
         c # NoJob => Precedes(j, c)
  PROVE  IsList(h2, nx2, S \cup {j})
<1>1. S \subseteq Jobs /\ StartsAt(h, S) /\ \A k \in S : StartsAt(nx[k], After(k, S))
  BY DEF IsList
<1> DEFINE T == S \cup {j}
<1>2. \A k \in S : k \in Jobs /\ k # NoJob /\ k # j
  BY <1>1, JobAssumption
<1>3. j # NoJob
  BY JobAssumption
<1>4. CASE p = NoJob
  <2>1. \A k \in S : Precedes(j, k) /\ ~ Precedes(k, j)
    <3>1. S # {} => c = h /\ h \in S /\ \A k \in S \ {h} : Precedes(h, k)
      BY <1>1, <1>4 DEF StartsAt, IsFirst
    <3> QED
      BY <1>2, <3>1, Order
  <2>2. StartsAt(h2, T)
    BY <1>4, <2>1 DEF StartsAt, IsFirst
  <2>3. After(j, T) = S /\ nx2[j] = h
    BY <1>4, <2>1, Order DEF After
  <2>4. ASSUME NEW k \in S
        PROVE  After(k, T) = After(k, S) /\ nx2[k] = nx[k]
    BY <1>2, <1>4, <2>1 DEF After
  <2> QED
    BY <1>1, <2>2, <2>3, <2>4 DEF IsList
<1>5. CASE p # NoJob
  <2>0. /\ p \in S /\ c = nx[p] /\ Precedes(p, j) /\ h2 = h
        /\ nx2[j] = c /\ nx2[p] = j /\ \A k \in Jobs \ {j, p} : nx2[k] = nx[k]
    BY <1>2, <1>5
  <2>1. \A k \in After(p, S) : Precedes(j, k) /\ ~ Precedes(k, j)
    <3>1. After(p, S) # {} =>
            c \in After(p, S) /\ \A k \in After(p, S) \ {c} : Precedes(c, k)
      BY <1>1, <2>0 DEF StartsAt, IsFirst
    <3>2. After(p, S) \subseteq S
      BY DEF After
    <3> QED
      BY <1>2, <2>0, <3>1, <3>2, Order
  <2>2. \A k \in S \ After(p, S) : Precedes(k, j) /\ ~ Precedes(j, k)
    <3>1. \A k \in S \ After(p, S) : k = p \/ Precedes(k, p)
      BY <1>2, <2>0, Order DEF After
    <3> QED
      BY <1>2, <2>0, <3>1, Order
  <2>3. After(j, T) = After(p, S)
    BY <2>1, <2>2, Order DEF After
  <2>4. StartsAt(h2, T)
    <3>1. h \in S /\ \A k \in S \ {h} : Precedes(h, k)
      BY <1>1, <2>0 DEF StartsAt, IsFirst
    <3>2. h \notin After(p, S)
      BY <1>2, <2>0, <3>1, Order DEF After
    <3> QED
      BY <2>0, <2>2, <3>1, <3>2 DEF StartsAt, IsFirst
  <2>5. StartsAt(nx2[p], After(p, T))
    <3>1. After(p, T) = After(p, S) \cup {j}
      BY <2>0 DEF After
    <3> QED
      BY <2>0, <2>1, <3>1 DEF StartsAt, IsFirst
  <2>6. ASSUME NEW k \in S, k # p
        PROVE  StartsAt(nx2[k], After(k, T))
    <3>1. nx2[k] = nx[k] /\ StartsAt(nx[k], After(k, S))
      BY <1>1, <1>2, <2>0, <2>6
    <3>2. CASE k \in After(p, S)
      <4>1. After(k, T) = After(k, S)
        BY <2>1, <3>2 DEF After
      <4> QED
        BY <3>1, <4>1
    <3>3. CASE k \notin After(p, S)
      <4>1. Precedes(k, p)
        BY <1>2, <2>0, <2>6, <3>3, Order DEF After
      <4>2. After(k, T) = After(k, S) \cup {j} /\ p \in After(k, S)
        BY <2>0, <2>2, <3>3, <4>1 DEF After
      <4>3. nx[k] \in After(k, S) /\ \A i \in After(k, S) \ {nx[k]} : Precedes(nx[k], i)
        BY <3>1, <4>2 DEF StartsAt, IsFirst
      <4>4. nx[k] \notin After(p, S)
        <5>1. nx[k] = p \/ Precedes(nx[k], p)
          BY <4>2, <4>3
        <5>2. nx[k] \in S
          BY <4>3 DEF After
        <5> QED
          BY <1>2, <2>0, <5>1, <5>2, Order DEF After
      <4>5. Precedes(nx[k], j)
        BY <2>2, <4>3, <4>4 DEF After
      <4> QED
        BY <3>1, <4>2, <4>3, <4>5 DEF StartsAt, IsFirst
    <3> QED
      BY <3>2, <3>3
  <2>7. StartsAt(nx2[j], After(j, T))
    BY <1>1, <2>0, <2>3
  <2> QED
    BY <1>1, <2>4, <2>5, <2>6, <2>7 DEF IsList
<1> QED
  BY <1>4, <1>5

(* unlink: a node comes out from behind its neighbour, or from the front.  *)
LEMMA UnlinkedIsList ==
  ASSUME NEW h, NEW nx \in [Jobs -> Jobs \cup {NoJob}], NEW S, IsList(h, nx, S),
         NEW j \in S, NEW p, NEW h2, NEW nx2,
         IF p = NoJob
         THEN j = h /\ h2 = nx[j] /\ nx2 = [nx EXCEPT ![j] = NoJob]
         ELSE /\ p \in S /\ j = nx[p]
              /\ h2 = h /\ nx2 = [nx EXCEPT ![p] = nx[j], ![j] = NoJob]
  PROVE  IsList(h2, nx2, S \ {j})
<1>1. S \subseteq Jobs /\ StartsAt(h, S) /\ \A k \in S : StartsAt(nx[k], After(k, S))
  BY DEF IsList
<1> DEFINE T == S \ {j}
<1>2. \A k \in S : k \in Jobs /\ k # NoJob
  BY <1>1, JobAssumption
<1>4. CASE p = NoJob
  <2>1. \A k \in T : Precedes(j, k) /\ ~ Precedes(k, j)
    BY <1>1, <1>2, <1>4, Order DEF StartsAt, IsFirst
  <2>2. StartsAt(h2, T)
    <3>1. After(j, S) = T
      BY <1>2, <2>1, Order DEF After
    <3> QED
      BY <1>1, <1>4, <3>1
  <2>3. ASSUME NEW k \in T
        PROVE  After(k, T) = After(k, S) /\ nx2[k] = nx[k]
    BY <1>2, <1>4, <2>1 DEF After
  <2> QED
    BY <1>1, <2>2, <2>3 DEF IsList
<1>5. CASE p # NoJob
  <2>1. /\ p \in S /\ j = nx[p] /\ h2 = h
        /\ j \in After(p, S) /\ \A k \in After(p, S) \ {j} : Precedes(j, k)
    <3>1. p \in S /\ j = nx[p] /\ h2 = h
      BY <1>5
    <3> QED
      BY <1>1, <1>2, <3>1 DEF StartsAt, IsFirst
  <2>2. Precedes(p, j) /\ j # p
    BY <1>2, <2>1, Order DEF After
  <2>3. nx2[p] = nx[j] /\ \A k \in T \ {p} : nx2[k] = nx[k]
    BY <1>2, <1>5, <2>2
  <2>4. After(p, T) = After(j, S)
    BY <1>2, <2>1, <2>2, Order DEF After
  <2>5. StartsAt(h2, T)
    <3>1. h \in S /\ \A k \in S \ {h} : Precedes(h, k)
      BY <1>1, <2>1 DEF StartsAt, IsFirst
    <3>2. h # j
      BY <1>2, <2>1, <2>2, <3>1, Order
    <3> QED
      BY <2>1, <3>1, <3>2 DEF StartsAt, IsFirst
  <2>6. ASSUME NEW k \in T, k # p
        PROVE  StartsAt(nx2[k], After(k, T))
    <3>1. nx2[k] = nx[k] /\ StartsAt(nx[k], After(k, S))
      BY <1>1, <2>3, <2>6
    <3>2. CASE Precedes(k, p)
      <4>1. nx[k] \in After(k, S) /\ \A i \in After(k, S) \ {nx[k]} : Precedes(nx[k], i)
        BY <2>1, <3>1, <3>2 DEF StartsAt, IsFirst, After
      <4>2. nx[k] # j
        <5>1. p \in After(k, S)
          BY <2>1, <3>2 DEF After
        <5> QED
          BY <1>2, <2>1, <2>2, <4>1, <5>1, Order
      <4>3. After(k, T) = After(k, S) \ {j}
        BY DEF After
      <4> QED
        BY <3>1, <4>1, <4>2, <4>3 DEF StartsAt, IsFirst
    <3>3. CASE ~ Precedes(k, p)
      <4>1. k \in After(p, S)
        BY <1>2, <2>1, <2>6, <3>3, Order DEF After
      <4>2. Precedes(j, k)
        BY <2>1, <2>6, <4>1
      <4>3. After(k, T) = After(k, S)
        BY <1>2, <2>1, <4>2, Order DEF After
      <4> QED
        BY <3>1, <4>3
    <3> QED
      BY <3>2, <3>3
  <2>7. StartsAt(nx2[p], After(p, T))
    BY <1>1, <2>3, <2>4
  <2> QED
    BY <1>1, <2>5, <2>6, <2>7 DEF IsList
<1> QED
  BY <1>4, <1>5

-----------------------------------------------------------------------------
(* What the actions do to the lists.                                       *)

LEMMA Constants ==
  /\ AgingThread \in Thread /\ AgingThread \notin Pusher
  /\ \A t \in Thread : t # NoThread /\ (t \in Pusher \/ t = AgingThread)
  /\ LastLevel \in Levels \ {0} /\ 0 \in Levels /\ 1 \in Levels \ {0}
  /\ \A l \in Levels : l # LastLevel => l + 1 \in Levels \ {0}
  /\ \A l \in Levels \ {0} : l - 1 \in Levels
  /\ \A l \in Levels : l \in Int /\ l >= 0
  /\ NoJob \notin Jobs
BY JobAssumption, JobQueueAssumption DEF Thread, Levels, LastLevel

LEMMA QuietNodes ==
  UNCHANGED <<head, next>> => \A l : nodes(l)' = nodes(l)
BY NodesAreChain

LEMMA TargetInLevels ==
  ASSUME TypeOK, NEW t \in Thread, tjob[t] # NoJob
  PROVE  targetLevel(t) \in Levels /\ tjob[t] \in Jobs
<1>1. tjob[t] \in Jobs /\ mlfq_level[tjob[t]] \in Levels /\ alvl \in Levels \ {0}
  BY DEF TypeOK
<1>2. mlfq_level[tjob[t]] < LastLevel => mlfq_level[tjob[t]] + 1 \in Levels
  BY <1>1, Constants
<1> QED
  BY <1>1, <1>2, Constants DEF targetLevel

(* Where a thread that holds a mutex walks, and what it may link or        *)
(* unlink there.                                                           *)
LEMMA PushedIsNowhere ==
  ASSUME Inv, NEW t \in Thread, tjob[t] # NoJob
  PROVE  /\ tjob[t] \in Jobs
         /\ \A l \in Levels : tjob[t] \notin nodes(l)
<1>1. tjob[t] \in Jobs
  BY TargetInLevels DEF Inv
<1>0. \A l \in Levels : \A j \in nodes(l) :
        status[j] = "READY" /\ j \notin out /\ j \notin inBuffer
  BY DEF Inv, PlacesKnown
<1>2. CASE t \in Pusher
  <2>1. status[tjob[t]] = "WAITING" \/ tjob[t] \in out
    BY <1>2 DEF Inv, PushesKnown
  <2> QED
    BY <1>0, <1>1, <2>1
<1>3. CASE t = AgingThread
  <2>1. apc = "push" /\ tjob[t] = aged[1] /\ aged # <<>> /\ aged \in Seq(Jobs)
    BY <1>3 DEF Inv, PushesKnown, BufferKnown, TypeOK
  <2>2. tjob[t] \in inBuffer
    BY <2>1 DEF inBuffer
  <2> QED
    BY <1>0, <1>1, <2>2
<1> QED
  BY <1>1, <1>2, <1>3, Constants

LEMMA LinkNodes ==
  ASSUME Inv, NEW t \in Thread, LinkPush(t)
  PROVE  /\ targetLevel(t) \in Levels /\ tjob[t] \in Jobs
         /\ \A m \in Levels : tjob[t] \notin nodes(m)
         /\ \A m \in Levels :
              /\ m # targetLevel(t) => head'[m] = head[m] /\ nodes(m)' = nodes(m)
              /\ m = targetLevel(t) => nodes(m)' = nodes(m) \cup {tjob[t]}
              /\ IsList(head'[m], next', nodes(m)')
         /\ \A m \in Levels : m # targetLevel(t) =>
              \A k \in nodes(m) : next'[k] = next[k]
<1>0. tpc[t] = "scan" /\ tjob[t] # NoJob
  BY DEF LinkPush, Inv, PushesKnown
<1>1. PICK l \in Levels, j \in Jobs, p \in Jobs \cup {NoJob} :
        l = targetLevel(t) /\ j = tjob[t] /\ p = prev[t]
  BY <1>0, TargetInLevels DEF Inv, TypeOK
<1>2. \A m \in Levels : j \notin nodes(m)
  BY <1>0, <1>1, PushedIsNowhere
<1>3. /\ IF p = NoJob THEN cur[t] = head[l] ELSE p \in nodes(l) /\ cur[t] = next[p]
      /\ p # NoJob => Precedes(p, j)
      /\ cur[t] # NoJob => Precedes(j, cur[t])
      /\ link(l, j, p)
  BY <1>0, <1>1, InsertHereIsOrder DEF Inv, WalksKnown, Walks, LinkPush
<1>4. /\ next \in [Jobs -> Jobs \cup {NoJob}]
      /\ head \in [Levels -> Jobs \cup {NoJob}]
      /\ \A m \in Levels : IsList(head[m], next, nodes(m))
      /\ \A m \in Levels : m # l => nodes(m) \cap nodes(l) = {}
  BY <1>2 DEF Inv, TypeOK, ListsKnown, PlacesKnown
<1>5. IsList(head'[l], next', nodes(l) \cup {j})
  <2>1. IF p = NoJob
        THEN cur[t] = head[l] /\ head'[l] = j /\ next' = [next EXCEPT ![j] = head[l]]
        ELSE /\ p \in nodes(l) /\ cur[t] = next[p] /\ Precedes(p, j)
             /\ head'[l] = head[l] /\ next' = [next EXCEPT ![j] = next[p], ![p] = j]
    BY <1>2, <1>3, <1>4 DEF link
  <2>2. IsList(head[l], next, nodes(l)) /\ j \in Jobs \ nodes(l)
    BY <1>2, <1>4
  <2>3. PICK c : c = cur[t]
    OBVIOUS
  <2>4. c # NoJob => Precedes(j, c)
    BY <1>3, <2>3
  <2>5. IF p = NoJob
        THEN c = head[l] /\ head'[l] = j /\ next' = [next EXCEPT ![j] = head[l]]
        ELSE /\ p \in nodes(l) /\ c = next[p] /\ Precedes(p, j)
             /\ head'[l] = head[l] /\ next' = [next EXCEPT ![j] = next[p], ![p] = j]
    BY <2>1, <2>3
  <2>6. next \in [Jobs -> Jobs \cup {NoJob}]
    BY <1>4
  <2> QED
    BY <2>2, <2>4, <2>5, <2>6, LinkedIsList
<1>6. ASSUME NEW m \in Levels, m # l
      PROVE  /\ head'[m] = head[m] /\ IsList(head'[m], next', nodes(m))
             /\ \A k \in nodes(m) : next'[k] = next[k]
  <2>1. \A k \in nodes(m) : next'[k] = next[k]
    <3>1. \A k \in nodes(m) : k # j /\ k \in Jobs /\ (p # NoJob => k # p)
      BY <1>2, <1>3, <1>4, <1>6 DEF IsList
    <3> QED
      BY <1>3, <1>4, <3>1 DEF link
  <2>2. head'[m] = head[m]
    BY <1>3, <1>4, <1>6 DEF link
  <2> QED
    BY <1>4, <2>1, <2>2, ListFrame
<1>7. nodes(l)' = nodes(l) \cup {j}
  BY <1>5, ChainIsList, NodesAreChain
<1>8. \A m \in Levels : m # l => nodes(m)' = nodes(m)
  BY <1>6, ChainIsList, NodesAreChain
<1> QED
  BY <1>1, <1>2, <1>5, <1>6, <1>7, <1>8

LEMMA UnlinkNodes ==
  ASSUME Inv, NEW l \in Levels, NEW p, NEW j, unlink(l, j, p), j # NoJob,
         IF p = NoJob THEN j = head[l] ELSE p \in nodes(l) /\ j = next[p]
  PROVE  /\ j \in nodes(l)
         /\ \A m \in Levels :
              /\ m # l => head'[m] = head[m] /\ nodes(m)' = nodes(m)
              /\ m = l => nodes(m)' = nodes(m) \ {j}
              /\ IsList(head'[m], next', nodes(m)')
         /\ \A m \in Levels : m # l =>
              \A k \in nodes(m) : next'[k] = next[k]
<1>1. /\ next \in [Jobs -> Jobs \cup {NoJob}]
      /\ head \in [Levels -> Jobs \cup {NoJob}]
      /\ \A m \in Levels : IsList(head[m], next, nodes(m))
      /\ \A m \in Levels : m # l => nodes(m) \cap nodes(l) = {}
  BY DEF Inv, TypeOK, ListsKnown, PlacesKnown
<1>2. j \in nodes(l)
  BY <1>1, ListHead
<1>3. IsList(head'[l], next', nodes(l) \ {j})
  <2>1. IF p = NoJob
        THEN j = head[l] /\ head'[l] = next[j] /\ next' = [next EXCEPT ![j] = NoJob]
        ELSE /\ p \in nodes(l) /\ j = next[p]
             /\ head'[l] = head[l] /\ next' = [next EXCEPT ![p] = next[j], ![j] = NoJob]
    BY <1>1 DEF unlink
  <2> QED
    BY <1>1, <1>2, <2>1, UnlinkedIsList
<1>4. ASSUME NEW m \in Levels, m # l
      PROVE  /\ head'[m] = head[m] /\ IsList(head'[m], next', nodes(m))
             /\ \A k \in nodes(m) : next'[k] = next[k]
  <2>1. \A k \in nodes(m) : next'[k] = next[k]
    <3>1. \A k \in nodes(m) : k # j /\ k \in Jobs /\ (p # NoJob => k # p)
      BY <1>1, <1>2, <1>4 DEF IsList
    <3> QED
      BY <1>1, <3>1 DEF unlink
  <2>2. head'[m] = head[m]
    BY <1>1, <1>4 DEF unlink
  <2> QED
    BY <1>1, <2>1, <2>2, ListFrame
<1>5. nodes(l)' = nodes(l) \ {j}
  BY <1>3, ChainIsList, NodesAreChain
<1>6. \A m \in Levels : m # l => nodes(m)' = nodes(m)
  BY <1>4, ChainIsList, NodesAreChain
<1> QED
  BY <1>2, <1>3, <1>4, <1>5, <1>6

(* tryPop takes the head, with a mutex nobody holds; ...                   *)
LEMMA PopNodes ==
  ASSUME Inv, TryPop, head[dlvl] # NoJob
  PROVE  /\ dlvl \in Levels /\ head[dlvl] \in nodes(dlvl)
         /\ IsFirst(head[dlvl], nodes(dlvl))
         /\ unlink(dlvl, head[dlvl], NoJob)
         /\ \A m \in Levels :
              /\ m # dlvl => head'[m] = head[m] /\ nodes(m)' = nodes(m)
              /\ m = dlvl => nodes(m)' = nodes(m) \ {head[dlvl]}
              /\ IsList(head'[m], next', nodes(m)')
         /\ \A m \in Levels : m # dlvl =>
              \A k \in nodes(m) : next'[k] = next[k]
<1>1. dlvl \in Levels /\ unlink(dlvl, head[dlvl], NoJob)
  BY DEF TryPop, Inv, TypeOK
<1>2. IsFirst(head[dlvl], nodes(dlvl))
  BY <1>1, ListHead DEF Inv, ListsKnown
<1> QED
  BY <1>1, <1>2, UnlinkNodes

(* ... and drainAged the aged nodes it comes by.                           *)
drains ==
  /\ WalkDrain
  /\ aging_ticks[cur[AgingThread]] >= AGING_THRESHOLD

LEMMA DrainNodes ==
  ASSUME Inv, drains
  PROVE  /\ alvl \in Levels /\ cur[AgingThread] \in nodes(alvl)
         /\ unlink(alvl, cur[AgingThread], prev[AgingThread])
         /\ \A m \in Levels :
              /\ m # alvl => head'[m] = head[m] /\ nodes(m)' = nodes(m)
              /\ m = alvl => nodes(m)' = nodes(m) \ {cur[AgingThread]}
              /\ IsList(head'[m], next', nodes(m)')
         /\ \A m \in Levels : m # alvl =>
              \A k \in nodes(m) : next'[k] = next[k]
<1>1. /\ alvl \in Levels /\ cur[AgingThread] # NoJob
      /\ unlink(alvl, cur[AgingThread], prev[AgingThread])
  BY DEF drains, WalkDrain, atAging, drainDone, Inv, TypeOK
<1>2. Walks(AgingThread, alvl)
  BY DEF drains, WalkDrain, atAging, Inv, WalksKnown
<1> QED
  BY <1>1, <1>2, UnlinkNodes DEF Walks

-----------------------------------------------------------------------------
(* The types.                                                              *)

LEMMA AgingSteps ==
  ASSUME TypeOK, nextAgingLevel
  PROVE  apc' \in {"sleep", "drain"} /\ alvl' \in Levels \ {0}
BY Constants DEF TypeOK, nextAgingLevel

(* The node count of a list that is not empty is not 0.                    *)
LEMMA UnlinkTypes ==
  ASSUME Inv, NEW l \in Levels, NEW p, NEW j, unlink(l, j, p), j # NoJob,
         IF p = NoJob THEN j = head[l] ELSE p \in nodes(l) /\ j = next[p]
  PROVE  /\ head' \in [Levels -> Jobs \cup {NoJob}]
         /\ size' \in [Levels -> Nat]
         /\ next' \in [Jobs -> Jobs \cup {NoJob}]
         /\ size[l] \in Nat \ {0} /\ IsFiniteSet(nodes(l))
<1>1. j \in nodes(l)
  BY UnlinkNodes
<1>2. size[l] = Cardinality(nodes(l)) /\ nodes(l) \subseteq Jobs
  BY DEF Inv, ListsKnown, IsList
<1>3. IsFiniteSet(nodes(l))
  BY <1>2, FS_Subset, JobAssumption
<1>4. size[l] \in Nat \ {0}
  BY <1>1, <1>2, <1>3, FS_CardinalityType, FS_EmptySet
<1>5. /\ head \in [Levels -> Jobs \cup {NoJob}]
      /\ size \in [Levels -> Nat]
      /\ next \in [Jobs -> Jobs \cup {NoJob}]
  BY DEF Inv, TypeOK
<1>6. j \in Jobs /\ next[j] \in Jobs \cup {NoJob}
  BY <1>1, <1>2, <1>5
<1>7. head' \in [Levels -> Jobs \cup {NoJob}]
  BY <1>5, <1>6 DEF unlink
<1>8. next' \in [Jobs -> Jobs \cup {NoJob}]
  BY <1>5, <1>6 DEF unlink
<1>9. size' \in [Levels -> Nat]
  <2>1. size' = [size EXCEPT ![l] = size[l] - 1] /\ size[l] - 1 \in Nat
    BY <1>4 DEF unlink
  <2> QED
    BY <1>5, <2>1
<1> QED
  BY <1>3, <1>4, <1>7, <1>8, <1>9

LEMMA PopTypes ==
  ASSUME Inv, TryPop, head[dlvl] # NoJob
  PROVE  /\ head' \in [Levels -> Jobs \cup {NoJob}]
         /\ size' \in [Levels -> Nat]
         /\ next' \in [Jobs -> Jobs \cup {NoJob}]
BY PopNodes, UnlinkTypes

LEMMA DrainTypes ==
  ASSUME Inv, drains
  PROVE  /\ head' \in [Levels -> Jobs \cup {NoJob}]
         /\ size' \in [Levels -> Nat]
         /\ next' \in [Jobs -> Jobs \cup {NoJob}]
<1>1. Walks(AgingThread, alvl) /\ cur[AgingThread] # NoJob
  BY DEF drains, WalkDrain, atAging, drainDone, Inv, WalksKnown
<1> QED
  BY <1>1, DrainNodes, UnlinkTypes DEF Walks

LEMMA TypeInit == Init => TypeOK
<1>1. <<>> \in Seq(Jobs) /\ Len(<<>>) = 0 /\ 0 \in Nat
  OBVIOUS
<1>2. AGING_THRESHOLD \in Nat /\ 0 \in 0 .. AGING_THRESHOLD
  BY JobAssumption
<1>3. AGED_BUF \in Nat /\ 0 <= AGED_BUF
  BY JobQueueAssumption
<1>4. NotAsked \in Asked \cup {NotAsked} /\ FALSE \in BOOLEAN
  OBVIOUS
<1> SUFFICES ASSUME Init PROVE TypeOK
  OBVIOUS
<1>5. /\ head \in [Levels -> Jobs \cup {NoJob}]
      /\ size \in [Levels -> Nat]
      /\ owner \in [Levels -> Thread \cup {NoThread}]
      /\ next \in [Jobs -> Jobs \cup {NoJob}]
  BY <1>1 DEF Init
<1>6. /\ mlfq_level \in [Jobs -> Levels]
      /\ ticks_this_slice \in [Jobs -> Nat]
      /\ aging_ticks \in [Jobs -> 0 .. AGING_THRESHOLD]
      /\ status \in [Jobs -> {"WAITING", "READY"}]
  BY <1>1, <1>2, Constants DEF Init, LifecycleInit
<1>7. /\ out \subseteq Jobs
      /\ dpc \in {"idle", "empty", "top", "pop"} /\ dlvl \in Levels
      /\ asked \in Asked \cup {NotAsked} /\ better \in BOOLEAN
      /\ apc \in {"sleep", "drain", "walk", "push"} /\ alvl \in Levels \ {0}
      /\ aged \in Seq(Jobs) /\ Len(aged) <= AGED_BUF
  BY <1>1, <1>3, <1>4, Constants DEF Init
<1>8. /\ tpc \in [Thread -> {"off", "lock", "scan"}]
      /\ tjob \in [Thread -> Jobs \cup {NoJob}]
      /\ prev \in [Thread -> Jobs \cup {NoJob}]
      /\ cur \in [Thread -> Jobs \cup {NoJob}]
  BY DEF Init
<1> QED
  BY <1>5, <1>6, <1>7, <1>8 DEF TypeOK

LEMMA TypeNext ==
  ASSUME Inv, [Next]_vars
  PROVE  TypeOK'
<1> USE DEF TypeOK
<1>0. TypeOK /\ Thread = Pusher \cup {AgingThread}
  BY DEF Inv, Thread
<1>1. ASSUME NEW t \in Thread, NEW j \in Jobs, PushNew(t, j) \/ Requeue(t, j)
      PROVE  TypeOK'
  <2>1. beginPush(t, j)
    BY <1>1 DEF PushNew, Requeue
  <2> QED
    BY <1>0, <2>1
       DEF beginPush, listVars, fieldVars, dispatchVars, drainVars, walkVars
<1>2. ASSUME NEW t \in Thread, LockPush(t)
      PROVE  TypeOK'
  <2>1. targetLevel(t) \in Levels
    BY <1>0, <1>2, TargetInLevels DEF LockPush, Inv, PushesKnown
  <2> QED
    BY <1>0, <1>2, <2>1
       DEF LockPush, lockAndStart, fieldVars, dispatchVars, drainVars
<1>3. ASSUME NEW t \in Thread, ScanPush(t)
      PROVE  TypeOK'
  BY <1>0, <1>3
     DEF ScanPush, advance, listVars, fieldVars, dispatchVars, drainVars,
         pushVars
<1>4. ASSUME NEW t \in Thread, LinkPush(t)
      PROVE  TypeOK'
  <2>1. targetLevel(t) \in Levels /\ tjob[t] \in Jobs
    BY <1>4, LinkNodes
  <2>2. /\ aged' \in Seq(Jobs) /\ Len(aged') <= AGED_BUF
        /\ apc' \in {"sleep", "drain", "walk", "push"} /\ alvl' \in Levels \ {0}
    <3>1. CASE t # AgingThread
      BY <1>0, <1>4, <3>1 DEF LinkPush, drainVars
    <3>2. CASE t = AgingThread
      <4>1. aged # <<>>
        BY <1>4, <3>2, Constants DEF LinkPush, Inv, PushesKnown, BufferKnown
      <4>2. aged' \in Seq(Jobs) /\ Len(aged') = Len(aged) - 1 /\ Len(aged) \in Nat
        <5>1. aged' = Tail(aged)
          BY <1>4, <3>2 DEF LinkPush
        <5> QED
          BY <1>0, <4>1, <5>1, HeadTailProperties
      <4>3. \/ nextAgingLevel
            \/ UNCHANGED <<apc, alvl>>
        BY <1>4, <3>2 DEF LinkPush
      <4>4. AGED_BUF \in Nat
        BY JobQueueAssumption
      <4>5. Len(aged) <= AGED_BUF
        BY <1>0
      <4>6. Len(aged') <= AGED_BUF
        BY <4>2, <4>4, <4>5
      <4>7. /\ apc' \in {"sleep", "drain", "walk", "push"}
            /\ alvl' \in Levels \ {0}
        <5>1. CASE nextAgingLevel
          <6>1. apc' \in {"sleep", "drain"} /\ alvl' \in Levels \ {0}
            BY <1>0, <5>1, AgingSteps
          <6> QED
            BY <6>1
        <5>2. CASE UNCHANGED <<apc, alvl>>
          BY <1>0, <5>2
        <5> QED
          BY <4>3, <5>1, <5>2
      <4> QED
        BY <4>2, <4>6, <4>7
    <3> QED
      BY <3>1, <3>2
  <2>3. /\ head' \in [Levels -> Jobs \cup {NoJob}]
        /\ size' \in [Levels -> Nat]
        /\ next' \in [Jobs -> Jobs \cup {NoJob}]
    <3>1. link(targetLevel(t), tjob[t], prev[t])
      BY <1>4 DEF LinkPush
    <3>2. size[targetLevel(t)] + 1 \in Nat
      BY <1>0, <2>1
    <3>3. size' \in [Levels -> Nat]
      BY <1>0, <3>1, <3>2 DEF link
    <3>4. prev[t] \in Jobs \cup {NoJob}
      BY <1>0
    <3>5. head' \in [Levels -> Jobs \cup {NoJob}]
      <4>1. head' = head \/ head' = [head EXCEPT ![targetLevel(t)] = tjob[t]]
        BY <3>1 DEF link
      <4> QED
        BY <1>0, <2>1, <4>1
    <3>6. next' \in [Jobs -> Jobs \cup {NoJob}]
      <4>1. next \in [Jobs -> Jobs \cup {NoJob}] /\ head[targetLevel(t)] \in Jobs \cup {NoJob}
        BY <1>0, <2>1
      <4>2. CASE next' = [next EXCEPT ![tjob[t]] = head[targetLevel(t)]]
        BY <4>1, <4>2
      <4>3. CASE /\ prev[t] # NoJob
                 /\ next' = [next EXCEPT ![tjob[t]] = next[prev[t]], ![prev[t]] = tjob[t]]
        <5>1. next[prev[t]] \in Jobs \cup {NoJob}
          BY <3>4, <4>1, <4>3
        <5> QED
          BY <2>1, <4>1, <4>3, <5>1
      <4> QED
        BY <3>1, <4>2, <4>3 DEF link
    <3> QED
      BY <3>3, <3>5, <3>6
  <2>4. UNCHANGED dispatchVars
    BY <1>4 DEF LinkPush
  <2>5. /\ owner' \in [Levels -> Thread \cup {NoThread}]
        /\ mlfq_level' \in [Jobs -> Levels]
        /\ ticks_this_slice' \in [Jobs -> Nat]
        /\ aging_ticks' \in [Jobs -> 0 .. AGING_THRESHOLD]
        /\ status' \in [Jobs -> {"WAITING", "READY"}]
        /\ out' \subseteq Jobs
    <3>1. 0 \in Nat /\ 0 \in 0 .. AGING_THRESHOLD
      BY JobAssumption
    <3> QED
      BY <1>0, <1>4, <2>1, <3>1 DEF LinkPush
  <2>6. /\ tpc' \in [Thread -> {"off", "lock", "scan"}]
        /\ tjob' \in [Thread -> Jobs \cup {NoJob}]
        /\ prev' \in [Thread -> Jobs \cup {NoJob}]
        /\ cur' \in [Thread -> Jobs \cup {NoJob}]
    BY <1>0, <1>4 DEF LinkPush
  <2> QED
    BY <1>0, <2>2, <2>3, <2>4, <2>5, <2>6 DEF dispatchVars
<1>5. ASSUME NEW j \in Jobs, UseTick(j)
      PROVE  TypeOK'
  BY <1>0, <1>5
     DEF UseTick, listVars, dispatchVars, drainVars, walkVars, pushVars
<1>6. ASSUME NEW j \in Jobs, Ask(j)
      PROVE  TypeOK'
  BY <1>0, <1>6, Constants
     DEF Ask, atDispatch, fieldVars, drainVars, walkVars, pushVars, Asked
<1>7. ASSUME NEW l \in Levels, Tick(l)
      PROVE  TypeOK'
  <2>1. aging_ticks' \in [Jobs -> 0 .. AGING_THRESHOLD]
    <3>1. PICK f \in [Jobs -> 0 .. AGING_THRESHOLD] : f = aging_ticks
      BY <1>0
    <3>2. PICK h \in Nat : h = AGING_THRESHOLD
      BY JobAssumption
    <3>3. \A n \in 0 .. h : n # h => n + 1 \in 0 .. h
      BY <3>2
    <3> QED
      BY <1>7, <3>1, <3>2, <3>3 DEF Tick
  <2> QED
    BY <1>0, <1>7, <2>1
       DEF Tick, listVars, dispatchVars, drainVars, walkVars, pushVars
<1>8. CASE AskEmpty \/ AskTop
  <2>1. dlvl < asked.lvl => dlvl + 1 \in Levels
    <3>1. asked.lvl \in Levels
      BY <1>0, Constants DEF Asked, NotAsked
    <3> QED
      BY <1>0, <3>1, Constants DEF Levels, LastLevel
  <2>2. /\ asked' \in Asked \cup {NotAsked} /\ better' \in BOOLEAN
        /\ dpc' \in {"idle", "empty", "top", "pop"} /\ dlvl' \in Levels
    BY <1>0, <1>8, <2>1, Constants
       DEF AskEmpty, AskTop, atDispatch, answer
  <2> QED
    BY <1>0, <1>8, <2>2
       DEF AskEmpty, AskTop, atDispatch, fieldVars, drainVars, walkVars,
           pushVars
<1>9. CASE StartPop
  BY <1>0, <1>9, Constants
     DEF StartPop, atDispatch, fieldVars, drainVars, walkVars, pushVars
<1>10. CASE TryPop
  <2>1. CASE head[dlvl] = NoJob
    BY <1>0, <1>10, <2>1, Constants
       DEF TryPop, atDispatch, fieldVars, drainVars, walkVars, pushVars
  <2>2. CASE head[dlvl] # NoJob
    <3>1. /\ head' \in [Levels -> Jobs \cup {NoJob}]
          /\ size' \in [Levels -> Nat]
          /\ next' \in [Jobs -> Jobs \cup {NoJob}]
      BY <1>10, <2>2, PopTypes
    <3>2. /\ out' \subseteq Jobs
          /\ dpc' = "idle" /\ dlvl' \in Levels
      BY <1>0, <1>10, <2>2, Constants DEF TryPop
    <3>3. UNCHANGED <<asked, better, owner, fieldVars, drainVars, walkVars, pushVars>>
      BY <1>10 DEF TryPop, atDispatch
    <3> QED
      BY <1>0, <3>1, <3>2, <3>3 DEF fieldVars, drainVars, walkVars, pushVars
  <2> QED
    BY <2>1, <2>2
<1>11. CASE StartAging \/ LockDrain
  <2>1. /\ alvl' \in Levels \ {0} /\ alvl \in Levels
        /\ AgingThread \in Thread
    BY <1>0, <1>11, Constants DEF StartAging, LockDrain
  <2>2. CASE StartAging
    <3>1. /\ UNCHANGED <<listVars, walkVars, aged, fieldVars, out, dispatchVars, pushVars>>
          /\ apc' = "drain"
      BY <2>2 DEF StartAging, atAging
    <3> QED
      BY <1>0, <2>1, <3>1
         DEF listVars, walkVars, fieldVars, dispatchVars, pushVars
  <2>3. CASE LockDrain
    <3>1. /\ UNCHANGED <<head, size, next, aged, fieldVars, out, dispatchVars, pushVars>>
          /\ apc' = "walk"
      BY <2>3 DEF LockDrain, atAging
    <3>2. /\ owner' \in [Levels -> Thread \cup {NoThread}]
          /\ prev' \in [Thread -> Jobs \cup {NoJob}]
          /\ cur' \in [Thread -> Jobs \cup {NoJob}]
      <4>1. /\ owner' = [owner EXCEPT ![alvl] = AgingThread]
            /\ prev' = [prev EXCEPT ![AgingThread] = NoJob]
            /\ cur' = [cur EXCEPT ![AgingThread] = head[alvl]]
        BY <2>3 DEF LockDrain, lockAndStart
      <4> QED
        BY <1>0, <2>1, <4>1
    <3> QED
      BY <1>0, <2>1, <3>1, <3>2 DEF fieldVars, dispatchVars, pushVars
  <2> QED
    BY <1>11, <2>2, <2>3
<1>12. CASE WalkDrain
  <2>0. cur[AgingThread] \in Jobs /\ Len(aged) # AGED_BUF
    BY <1>0, <1>12, Constants DEF WalkDrain, drainDone
  <2>1. CASE drains
    <3>1. /\ head' \in [Levels -> Jobs \cup {NoJob}]
          /\ size' \in [Levels -> Nat]
          /\ next' \in [Jobs -> Jobs \cup {NoJob}]
      BY <2>1, DrainTypes
    <3>2. aged' \in Seq(Jobs) /\ Len(aged') <= AGED_BUF
      <4>1. aged' = Append(aged, cur[AgingThread])
        BY <2>1 DEF drains, WalkDrain
      <4>2. aged' \in Seq(Jobs) /\ Len(aged') = Len(aged) + 1 /\ Len(aged) \in Nat
        BY <1>0, <2>0, <4>1, AppendProperties
      <4> QED
        BY <1>0, <2>0, <4>2, JobQueueAssumption
    <3>3. cur' \in [Thread -> Jobs \cup {NoJob}]
      BY <1>0, <2>0, <2>1 DEF drains, WalkDrain
    <3>4. UNCHANGED <<prev, owner, apc, alvl, fieldVars, out, dispatchVars, pushVars>>
      BY <2>1 DEF drains, WalkDrain, atAging
    <3> QED
      BY <1>0, <3>1, <3>2, <3>3, <3>4 DEF fieldVars, dispatchVars, pushVars
  <2>2. CASE ~ drains
    <3>1. /\ advance(AgingThread) /\ UNCHANGED <<head, size, next, aged>>
          /\ UNCHANGED <<owner, apc, alvl, fieldVars, out, dispatchVars, pushVars>>
      BY <1>12, <2>2 DEF drains, WalkDrain, atAging
    <3>2. /\ prev' \in [Thread -> Jobs \cup {NoJob}]
          /\ cur' \in [Thread -> Jobs \cup {NoJob}]
      BY <1>0, <2>0, <3>1 DEF advance
    <3> QED
      BY <1>0, <3>1, <3>2 DEF fieldVars, dispatchVars, pushVars
  <2> QED
    BY <2>1, <2>2
<1>13. CASE UnlockDrain
  <2>1. apc' \in {"sleep", "drain", "walk", "push"} /\ alvl' \in Levels \ {0}
    BY <1>0, <1>13, AgingSteps DEF UnlockDrain
  <2> QED
    BY <1>0, <1>13, <2>1, Constants
       DEF UnlockDrain, atAging, fieldVars, dispatchVars, pushVars
<1>14. CASE Promote
  <2>1. Head(aged) \in Jobs
    BY <1>0, <1>14 DEF Promote, Inv, BufferKnown
  <2> QED
    BY <1>0, <1>14, <2>1, Constants
       DEF Promote, beginPush, listVars, fieldVars, dispatchVars, drainVars,
           walkVars
<1>15. CASE UNCHANGED vars
  BY <1>0, <1>15
     DEF vars, listVars, fieldVars, dispatchVars, drainVars, walkVars, pushVars
<1> QED
  BY <1>1, <1>2, <1>3, <1>4, <1>5, <1>6, <1>7, <1>8, <1>9, <1>10, <1>11,
     <1>12, <1>13, <1>14, <1>15 DEF Next, Push

-----------------------------------------------------------------------------
(* The lists and the places of the jobs.                                   *)

(* Only three steps change a list.                                         *)
LEMMA ListSteps ==
  ASSUME Inv, [Next]_vars
  PROVE  \/ \E t \in Thread : LinkPush(t)
         \/ TryPop /\ head[dlvl] # NoJob
         \/ drains
         \/ /\ UNCHANGED <<head, next, size, status, out, aged>>
            /\ \A l : nodes(l)' = nodes(l)
<1> DEFINE Quiet == UNCHANGED <<head, next, size, status, out, aged>>
<1>1. ASSUME NEW t \in Thread, Push(t), ~ LinkPush(t)
      PROVE  Quiet
  BY <1>1
     DEF Push, PushNew, Requeue, beginPush, LockPush, ScanPush, lockAndStart,
         advance, listVars, fieldVars, drainVars
<1>2. ASSUME NEW j \in Jobs, UseTick(j) \/ Ask(j)
      PROVE  Quiet
  BY <1>2 DEF UseTick, Ask, atDispatch, listVars, fieldVars, drainVars
<1>3. ASSUME NEW l \in Levels, Tick(l)
      PROVE  Quiet
  BY <1>3 DEF Tick, listVars, drainVars
<1>4. AskEmpty \/ AskTop \/ StartPop => Quiet
  BY DEF AskEmpty, AskTop, StartPop, atDispatch, fieldVars, drainVars
<1>5. TryPop /\ head[dlvl] = NoJob => Quiet
  BY DEF TryPop, atDispatch, fieldVars, drainVars
<1>6. StartAging \/ LockDrain \/ UnlockDrain => Quiet
  BY DEF StartAging, LockDrain, UnlockDrain, atAging, fieldVars, listVars
<1>7. WalkDrain /\ ~ drains => Quiet
  BY DEF drains, WalkDrain, atAging, fieldVars
<1>8. Promote => Quiet
  BY DEF Promote, beginPush, listVars, fieldVars, drainVars
<1>9. UNCHANGED vars => Quiet
  BY DEF vars, listVars, fieldVars, drainVars
<1>10. Quiet => \A l : nodes(l)' = nodes(l)
  BY QuietNodes
<1> HIDE DEF Quiet
<1>11. \/ \E t \in Thread : LinkPush(t)
       \/ TryPop /\ head[dlvl] # NoJob
       \/ drains
       \/ Quiet
  BY <1>1, <1>2, <1>3, <1>4, <1>5, <1>6, <1>7, <1>8, <1>9 DEF Next
<1> QED
  BY <1>10, <1>11 DEF Quiet

(* A push by runAging takes the first job from the buffer.                 *)
LEMMA LinkBuffer ==
  ASSUME Inv, NEW t \in Thread, LinkPush(t)
  PROVE  /\ inBuffer' = inBuffer \ {tjob[t]}
         /\ t = AgingThread => tjob[t] \in inBuffer /\ aged' = Tail(aged)
                                 /\ aged # <<>> /\ tjob[t] = aged[1]
         /\ t # AgingThread => tjob[t] \notin inBuffer /\ UNCHANGED drainVars
                                 /\ t \in Pusher
<1>1. tpc[t] = "scan" /\ tjob[t] # NoJob
  BY DEF LinkPush, Inv, PushesKnown
<1>2. CASE t # AgingThread
  <2>1. t \in Pusher /\ UNCHANGED drainVars
    BY <1>2, Constants DEF LinkPush
  <2>2. status[tjob[t]] = "WAITING" \/ tjob[t] \in out
    BY <1>1, <2>1 DEF Inv, PushesKnown
  <2>3. tjob[t] \notin inBuffer
    <3>1. /\ \A j \in out : j \notin inBuffer
          /\ \A j \in inBuffer : status[j] = "READY"
      BY DEF Inv, PlacesKnown
    <3> QED
      BY <2>2, <3>1
  <2>4. inBuffer' = inBuffer
    BY <2>1 DEF inBuffer, drainVars
  <2> QED
    BY <1>2, <2>1, <2>3, <2>4
<1>3. CASE t = AgingThread
  <2>1. /\ aged # <<>> /\ aged \in Seq(Jobs) /\ tjob[t] = aged[1]
        /\ aged' = Tail(aged)
        /\ \A i, k \in DOMAIN aged : i < k => Precedes(aged[i], aged[k])
    BY <1>1, <1>3 DEF LinkPush, Inv, TypeOK, PushesKnown, BufferKnown
  <2>2. PICK n \in Nat : n = Len(aged) /\ n # 0 /\ DOMAIN aged = 1 .. n
    BY <2>1, EmptySeq, LenProperties
  <2>3. DOMAIN aged' = 1 .. n - 1 /\ \A i \in 1 .. n - 1 : aged'[i] = aged[i + 1]
    BY <2>1, <2>2, HeadTailProperties
  <2>4. \A i \in 2 .. n : aged[i] # aged[1]
    <3> TAKE i \in 2 .. n
    <3>1. i \in DOMAIN aged /\ 1 \in DOMAIN aged /\ 1 < i
      BY <2>2
    <3>2. aged[i] \in Jobs /\ aged[1] \in Jobs
      BY <2>1, <3>1
    <3> QED
      BY <2>1, <3>1, <3>2, Order
  <2>5. inBuffer = {aged[i] : i \in 1 .. n} /\ 1 \in 1 .. n
    BY <2>2 DEF inBuffer
  <2>6. inBuffer' = {aged[i] : i \in 2 .. n}
    <3>1. inBuffer' = {aged[i + 1] : i \in 1 .. n - 1}
      BY <2>3 DEF inBuffer
    <3>2. \A i \in 2 .. n : i - 1 \in 1 .. n - 1 /\ (i - 1) + 1 = i
      BY <2>2
    <3>3. \A i \in 1 .. n - 1 : i + 1 \in 2 .. n
      BY <2>2
    <3> QED
      BY <3>1, <3>2, <3>3
  <2>7. 1 .. n = {1} \cup (2 .. n)
    BY <2>2
  <2> QED
    BY <1>3, <2>1, <2>4, <2>5, <2>6, <2>7
<1> QED
  BY <1>2, <1>3

LEMMA DrainBuffer ==
  ASSUME Inv, drains
  PROVE  /\ aged' = Append(aged, cur[AgingThread])
         /\ inBuffer' = inBuffer \cup {cur[AgingThread]}
         /\ cur[AgingThread] \in Jobs /\ cur[AgingThread] \notin inBuffer
         /\ UNCHANGED <<apc, alvl, prev, owner>>
<1>1. /\ aged' = Append(aged, cur[AgingThread])
      /\ UNCHANGED <<apc, alvl, prev, owner>>
  BY DEF drains, WalkDrain
<1>2. cur[AgingThread] \in Jobs /\ cur[AgingThread] \notin inBuffer
  BY DrainNodes DEF Inv, ListsKnown, IsList, PlacesKnown
<1>3. aged \in Seq(Jobs)
  BY DEF Inv, TypeOK
<1>4. PICK n \in Nat : n = Len(aged) /\ DOMAIN aged = 1 .. n
  BY <1>3, LenProperties
<1>5. /\ DOMAIN aged' = 1 .. n + 1 /\ aged'[n + 1] = cur[AgingThread]
      /\ \A i \in 1 .. n : aged'[i] = aged[i]
  BY <1>1, <1>2, <1>3, <1>4, AppendProperties
<1>6. 1 .. n + 1 = (1 .. n) \cup {n + 1}
  BY <1>4
<1>7. inBuffer' = {aged'[i] : i \in 1 .. n + 1} /\ inBuffer = {aged[i] : i \in 1 .. n}
  BY <1>4, <1>5 DEF inBuffer
<1> QED
  BY <1>1, <1>2, <1>5, <1>6, <1>7

LEMMA ListsNext ==
  ASSUME Inv, [Next]_vars
  PROVE  ListsKnown'
<1>0. /\ \A l \in Levels : IsList(head[l], next, nodes(l)) /\ size[l] = Cardinality(nodes(l))
      /\ size \in [Levels -> Nat]
      /\ \A l \in Levels : IsFiniteSet(nodes(l))
  <2>1. \A l \in Levels : nodes(l) \subseteq Jobs
    BY DEF Inv, ListsKnown, IsList
  <2>2. \A l \in Levels : IsFiniteSet(nodes(l))
    BY <2>1, JobAssumption, FS_Subset
  <2> QED
    BY <2>2 DEF Inv, ListsKnown, TypeOK
<1>1. ASSUME NEW t \in Thread, LinkPush(t)
      PROVE  ListsKnown'
  <2>1. PICK l \in Levels, j \in Jobs : l = targetLevel(t) /\ j = tjob[t]
    BY <1>1, LinkNodes
  <2>2. \A m \in Levels :
          /\ m # l => nodes(m)' = nodes(m)
          /\ m = l => nodes(m)' = nodes(m) \cup {j}
          /\ IsList(head'[m], next', nodes(m)')
    BY <1>1, <2>1, LinkNodes
  <2>3. size' = [size EXCEPT ![l] = @ + 1]
    BY <1>1, <2>1 DEF LinkPush, link
  <2>4. Cardinality(nodes(l) \cup {j}) = Cardinality(nodes(l)) + 1
    BY <1>0, <1>1, <2>1, LinkNodes, FS_AddElement
  <2>5. \A m \in Levels : size'[m] = Cardinality(nodes(m)')
    BY <1>0, <2>2, <2>3, <2>4
  <2> QED
    BY <2>2, <2>5 DEF ListsKnown
<1>2. ASSUME NEW l \in Levels, NEW j, NEW p, j \in nodes(l), unlink(l, j, p),
             \A m \in Levels :
               /\ m # l => nodes(m)' = nodes(m)
               /\ m = l => nodes(m)' = nodes(m) \ {j}
               /\ IsList(head'[m], next', nodes(m)')
      PROVE  ListsKnown'
  <2>1. size' = [size EXCEPT ![l] = @ - 1]
    BY <1>2 DEF unlink
  <2>2. Cardinality(nodes(l) \ {j}) = Cardinality(nodes(l)) - 1
    BY <1>0, <1>2, FS_RemoveElement
  <2>3. \A m \in Levels : size'[m] = Cardinality(nodes(m)')
    BY <1>0, <1>2, <2>1, <2>2
  <2> QED
    BY <1>2, <2>3 DEF ListsKnown
<1>3. CASE TryPop /\ head[dlvl] # NoJob
  <2>1. PICK l \in Levels, j \in nodes(dlvl) : l = dlvl /\ j = head[l]
    BY <1>3, PopNodes
  <2> QED
    BY <1>2, <1>3, <2>1, PopNodes
<1>4. CASE drains
  <2>1. PICK l \in Levels, j \in nodes(alvl), p \in {prev[AgingThread]} :
        l = alvl /\ j = cur[AgingThread] /\ p = prev[AgingThread]
    BY <1>4, DrainNodes
  <2> QED
    BY <1>2, <1>4, <2>1, DrainNodes
<1>5. CASE /\ UNCHANGED <<head, next, size, status, out, aged>>
           /\ \A l : nodes(l)' = nodes(l)
  BY <1>0, <1>5 DEF ListsKnown
<1> QED
  BY <1>1, <1>3, <1>4, <1>5, ListSteps

LEMMA PlacesNext ==
  ASSUME Inv, [Next]_vars
  PROVE  PlacesKnown'
<1>0. /\ \A l, m \in Levels : l # m => nodes(l) \cap nodes(m) = {}
      /\ \A l \in Levels : \A j \in nodes(l) :
            status[j] = "READY" /\ j \notin out /\ j \notin inBuffer
      /\ \A j \in out : status[j] = "READY" /\ j \notin inBuffer
      /\ \A j \in inBuffer : status[j] = "READY"
      /\ status \in [Jobs -> {"WAITING", "READY"}]
  BY DEF Inv, PlacesKnown, TypeOK
<1>1. ASSUME NEW t \in Thread, LinkPush(t)
      PROVE  PlacesKnown'
  <2>1. PICK l \in Levels, j \in Jobs : l = targetLevel(t) /\ j = tjob[t]
    BY <1>1, LinkNodes
  <2>2. \A m \in Levels :
          /\ j \notin nodes(m)
          /\ m # l => nodes(m)' = nodes(m)
          /\ m = l => nodes(m)' = nodes(m) \cup {j}
    BY <1>1, <2>1, LinkNodes
  <2>3. /\ out' = out \ {j}
        /\ status' = [status EXCEPT ![j] = "READY"]
        /\ inBuffer' = inBuffer \ {j}
    BY <1>1, <2>1, LinkBuffer DEF LinkPush
  <2>4. \A k : status[k] = "READY" => status'[k] = "READY"
    BY <1>0, <2>3
  <2>5. status'[j] = "READY"
    BY <1>0, <2>3
  <2> QED
    BY <1>0, <2>2, <2>3, <2>4, <2>5 DEF PlacesKnown
<1>2. CASE TryPop /\ head[dlvl] # NoJob
  <2>1. PICK l \in Levels, j \in nodes(dlvl) : l = dlvl /\ j = head[l]
    BY <1>2, PopNodes
  <2>2. /\ j \in nodes(l)
        /\ \A m \in Levels : /\ m # l => nodes(m)' = nodes(m)
                             /\ m = l => nodes(m)' = nodes(m) \ {j}
    BY <1>2, <2>1, PopNodes
  <2>3. out' = out \cup {j} /\ status' = status /\ inBuffer' = inBuffer
    BY <1>2, <2>1 DEF TryPop, atDispatch, fieldVars, drainVars, inBuffer
  <2> QED
    BY <1>0, <2>2, <2>3 DEF PlacesKnown
<1>3. CASE drains
  <2>1. PICK l \in Levels, j \in nodes(alvl) : l = alvl /\ j = cur[AgingThread]
    BY <1>3, DrainNodes
  <2>2. /\ j \in nodes(l)
        /\ \A m \in Levels : /\ m # l => nodes(m)' = nodes(m)
                             /\ m = l => nodes(m)' = nodes(m) \ {j}
    BY <1>3, <2>1, DrainNodes
  <2>3. out' = out /\ status' = status /\ inBuffer' = inBuffer \cup {j}
    BY <1>3, <2>1, DrainBuffer DEF drains, WalkDrain, atAging, fieldVars
  <2> QED
    BY <1>0, <2>2, <2>3 DEF PlacesKnown
<1>4. CASE /\ UNCHANGED <<head, next, size, status, out, aged>>
           /\ \A l : nodes(l)' = nodes(l)
  <2>1. inBuffer' = inBuffer
    BY <1>4 DEF inBuffer
  <2> QED
    BY <1>0, <1>4, <2>1 DEF PlacesKnown
<1> QED
  BY <1>1, <1>2, <1>3, <1>4, ListSteps

-----------------------------------------------------------------------------
(* The buffer, the pushes and the calls of hasBetterCandidate.             *)

(* Where the aging thread is, its level and its buffer: who changes them.  *)
LEMMA DrainSteps ==
  ASSUME Inv, [Next]_vars
  PROVE  \/ LinkPush(AgingThread)
         \/ drains
         \/ UnlockDrain
         \/ /\ UNCHANGED <<alvl, aged>>
            /\ \/ apc = "sleep" /\ apc' = "drain"
               \/ LockDrain
               \/ apc' = apc
<1> DEFINE Rest == /\ UNCHANGED <<alvl, aged>>
                   /\ \/ apc = "sleep" /\ apc' = "drain"
                      \/ LockDrain
                      \/ apc' = apc
<1>1. ASSUME NEW t \in Thread, Push(t), t # AgingThread \/ ~ LinkPush(t)
      PROVE  Rest
  BY <1>1
     DEF Push, PushNew, Requeue, beginPush, LockPush, ScanPush, LinkPush,
         drainVars
<1>2. ASSUME NEW j \in Jobs, UseTick(j) \/ Ask(j)
      PROVE  Rest
  BY <1>2 DEF UseTick, Ask, atDispatch, drainVars
<1>3. ASSUME NEW l \in Levels, Tick(l)
      PROVE  Rest
  BY <1>3 DEF Tick, drainVars
<1>4. AskEmpty \/ AskTop \/ StartPop \/ TryPop => Rest
  BY DEF AskEmpty, AskTop, StartPop, TryPop, atDispatch, drainVars
<1>5. LockDrain => Rest
  BY DEF LockDrain
<1>6. WalkDrain /\ ~ drains => Rest
  BY DEF drains, WalkDrain
<1>7. Promote => Rest
  BY DEF Promote, beginPush, drainVars
<1>8. UNCHANGED vars => Rest
  BY DEF vars, drainVars
<1> HIDE DEF Rest
<1>9. \/ LinkPush(AgingThread)
      \/ drains
      \/ UnlockDrain
      \/ StartAging
      \/ Rest
  BY <1>1, <1>2, <1>3, <1>4, <1>5, <1>6, <1>7, <1>8 DEF Next
<1>10. CASE StartAging
  <2>1. alvl' = 1 /\ aged' = aged /\ apc = "sleep" /\ apc' = "drain"
    BY <1>10 DEF StartAging, atAging
  <2>2. alvl = 1
    BY <2>1 DEF Inv, BufferKnown
  <2> QED
    BY <2>1, <2>2
<1> QED
  BY <1>9, <1>10 DEF Rest

(* What a drain looks at is ahead of it.                                   *)
LEMMA DrainAhead ==
  ASSUME Inv, apc = "walk", cur[AgingThread] # NoJob
  PROVE  LET rest == ahead(prev[AgingThread], nodes(alvl))
         IN IsFirst(cur[AgingThread], rest)
<1>1. PICK l \in Levels : l = alvl
  BY DEF Inv, TypeOK
<1>2. Walks(AgingThread, l) /\ IsList(head[l], next, nodes(l))
  BY <1>1 DEF Inv, WalksKnown, ListsKnown
<1>3. CASE prev[AgingThread] = NoJob
  BY <1>1, <1>2, <1>3 DEF Walks, ahead, IsList, StartsAt
<1>4. CASE prev[AgingThread] # NoJob
  BY <1>1, <1>2, <1>4 DEF Walks, ahead, IsList, StartsAt
<1> QED
  BY <1>3, <1>4

LEMMA BufferNext ==
  ASSUME Inv, [Next]_vars
  PROVE  BufferKnown'
<1>0. /\ apc \in {"sleep", "drain"} => aged = <<>>
      /\ apc = "push" => aged # <<>>
      /\ Cardinality(inBuffer) = Len(aged)
      /\ \A i, k \in DOMAIN aged : i < k => Precedes(aged[i], aged[k])
      /\ aged \in Seq(Jobs)
      /\ IsFiniteSet(inBuffer)
  <2>1. aged \in Seq(Jobs)
    BY DEF Inv, TypeOK
  <2>2. inBuffer \subseteq Jobs
    BY <2>1 DEF inBuffer
  <2> QED
    BY <2>1, <2>2, FS_Subset, JobAssumption DEF Inv, BufferKnown
<1>1. PICK n \in Nat : n = Len(aged) /\ DOMAIN aged = 1 .. n
  BY <1>0, LenProperties
<1>2. CASE LinkPush(AgingThread)
  <2>1. /\ inBuffer' = inBuffer \ {tjob[AgingThread]} /\ tjob[AgingThread] \in inBuffer
        /\ aged' = Tail(aged) /\ aged # <<>>
    BY <1>2, LinkBuffer, Constants
  <2>2. /\ Len(aged') = n - 1 /\ DOMAIN aged' = 1 .. n - 1
        /\ \A i \in 1 .. n - 1 : aged'[i] = aged[i + 1]
    BY <1>0, <1>1, <2>1, HeadTailProperties
  <2>3. Cardinality(inBuffer') = Len(aged')
    BY <1>0, <1>1, <2>1, <2>2, FS_RemoveElement
  <2>4. ASSUME NEW i \in DOMAIN aged', NEW k \in DOMAIN aged', i < k
        PROVE  Precedes(aged'[i], aged'[k])
    <3>1. i + 1 \in DOMAIN aged /\ k + 1 \in DOMAIN aged /\ i + 1 < k + 1
      BY <1>1, <2>2, <2>4
    <3> QED
      BY <1>0, <2>2, <2>4, <3>1
  <2>5. apc = "push"
    BY <1>2, Constants DEF LinkPush, Inv, PushesKnown
  <2>6. IF aged' = <<>> THEN nextAgingLevel ELSE UNCHANGED <<apc, alvl>>
    BY <1>2 DEF LinkPush
  <2>7. /\ apc' \in {"sleep", "drain"} => aged' = <<>>
        /\ apc' = "push" => aged' # <<>>
        /\ apc' = "sleep" => alvl' = 1
    BY <2>5, <2>6 DEF nextAgingLevel
  <2> QED
    BY <2>3, <2>4, <2>7 DEF BufferKnown
<1>3. CASE drains
  <2>1. /\ aged' = Append(aged, cur[AgingThread])
        /\ inBuffer' = inBuffer \cup {cur[AgingThread]}
        /\ cur[AgingThread] \in Jobs /\ cur[AgingThread] \notin inBuffer
        /\ apc' = apc /\ apc = "walk"
    BY <1>3, DrainBuffer DEF drains, WalkDrain, atAging
  <2>2. /\ Len(aged') = n + 1 /\ DOMAIN aged' = 1 .. n + 1
        /\ \A i \in 1 .. n : aged'[i] = aged[i]
        /\ aged'[n + 1] = cur[AgingThread]
    BY <1>0, <1>1, <2>1, AppendProperties
  <2>3. Cardinality(inBuffer') = Len(aged')
    <3>1. Cardinality(inBuffer \cup {cur[AgingThread]}) = Cardinality(inBuffer) + 1
      BY <1>0, <2>1, FS_AddElement
    <3> QED
      BY <1>0, <1>1, <2>1, <2>2, <3>1
  <2>4. \A j \in inBuffer : Precedes(j, cur[AgingThread])
    <3>1. cur[AgingThread] # NoJob
      BY <2>1, Constants
    <3>2. cur[AgingThread] \in ahead(prev[AgingThread], nodes(alvl))
      BY <2>1, <3>1, DrainAhead DEF IsFirst
    <3> QED
      BY <2>1, <3>2 DEF Inv, DrainKnown
  <2>5. ASSUME NEW i \in DOMAIN aged', NEW k \in DOMAIN aged', i < k
        PROVE  Precedes(aged'[i], aged'[k])
    <3>1. i \in DOMAIN aged /\ aged'[i] = aged[i] /\ aged[i] \in inBuffer
      BY <1>1, <2>2, <2>5 DEF inBuffer
    <3>2. CASE k = n + 1
      BY <2>2, <2>4, <3>1, <3>2
    <3>3. CASE k # n + 1
      <4>1. k \in DOMAIN aged /\ aged'[k] = aged[k]
        BY <1>1, <2>2, <3>3
      <4> QED
        BY <1>0, <2>5, <3>1, <4>1
    <3> QED
      BY <3>2, <3>3
  <2> QED
    BY <2>1, <2>3, <2>5 DEF BufferKnown
<1>4. CASE UnlockDrain
  <2>1. aged' = aged /\ inBuffer' = inBuffer
    BY <1>4 DEF UnlockDrain, inBuffer
  <2>2. IF aged = <<>> THEN nextAgingLevel ELSE apc' = "push" /\ UNCHANGED alvl
    BY <1>4 DEF UnlockDrain
  <2>3. /\ apc' \in {"sleep", "drain"} => aged = <<>>
        /\ apc' = "push" => aged # <<>>
        /\ apc' = "sleep" => alvl' = 1
    BY <2>2 DEF nextAgingLevel
  <2> QED
    BY <1>0, <2>1, <2>3 DEF BufferKnown
<1>5. CASE /\ UNCHANGED <<alvl, aged>>
           /\ \/ apc = "sleep" /\ apc' = "drain"
              \/ LockDrain
              \/ apc' = apc
  <2>1. inBuffer' = inBuffer
    BY <1>5 DEF inBuffer
  <2>2. /\ apc' \in {"sleep", "drain"} => apc \in {"sleep", "drain"}
        /\ apc' = "push" => apc = "push"
        /\ apc' = "sleep" => apc = "sleep"
    BY <1>5 DEF LockDrain
  <2>3. apc = "sleep" => alvl = 1
    BY DEF Inv, BufferKnown
  <2> QED
    BY <1>0, <1>5, <2>1, <2>2, <2>3 DEF BufferKnown
<1> QED
  BY <1>2, <1>3, <1>4, <1>5, DrainSteps

(* tjob and tpc: a push begins, goes on and ends.                          *)
LEMMA PushSteps ==
  ASSUME Inv, [Next]_vars
  PROVE  \/ \E t \in Thread, j \in Jobs :
               /\ beginPush(t, j)
               /\ t \in Pusher => status[j] = "WAITING" \/ j \in out
               /\ t = AgingThread => apc = "push" /\ j = aged[1]
         \/ \E t \in Thread : LinkPush(t)
         \/ /\ \A t \in Thread : tpc'[t] = "off" <=> tpc[t] = "off"
            /\ UNCHANGED <<tjob, status>> /\ out \subseteq out'
            /\ apc = "push" => apc' = apc /\ aged' = aged
<1> DEFINE Rest == /\ \A t \in Thread : tpc'[t] = "off" <=> tpc[t] = "off"
                   /\ UNCHANGED <<tjob, status>> /\ out \subseteq out'
                   /\ apc = "push" => apc' = apc /\ aged' = aged
<1>1. ASSUME NEW t \in Thread, NEW j \in Jobs, PushNew(t, j) \/ Requeue(t, j)
      PROVE  /\ beginPush(t, j)
             /\ t \in Pusher /\ t # AgingThread
             /\ status[j] = "WAITING" \/ j \in out
  BY <1>1, Constants DEF PushNew, Requeue
<1>2. ASSUME NEW t \in Thread, LockPush(t)
      PROVE  Rest
  <2>1. tpc[t] = "lock" /\ tpc' = [tpc EXCEPT ![t] = "scan"]
    BY <1>2 DEF LockPush
  <2>2. tpc \in [Thread -> {"off", "lock", "scan"}]
    BY DEF Inv, TypeOK
  <2>3. \A u \in Thread : tpc'[u] = "off" <=> tpc[u] = "off"
    BY <2>1, <2>2
  <2> QED
    BY <1>2, <2>3 DEF LockPush, drainVars, fieldVars
<1>3. ASSUME NEW t \in Thread, ScanPush(t)
      PROVE  Rest
  BY <1>3 DEF ScanPush, pushVars, fieldVars, drainVars
<1>4. ASSUME NEW j \in Jobs, UseTick(j) \/ Ask(j)
      PROVE  Rest
  BY <1>4 DEF UseTick, Ask, atDispatch, drainVars, pushVars, fieldVars
<1>5. ASSUME NEW l \in Levels, Tick(l)
      PROVE  Rest
  BY <1>5 DEF Tick, drainVars, pushVars
<1>6. AskEmpty \/ AskTop \/ StartPop \/ TryPop => Rest
  BY DEF AskEmpty, AskTop, StartPop, TryPop, atDispatch, drainVars, pushVars,
         fieldVars
<1>7. StartAging \/ LockDrain \/ WalkDrain \/ UnlockDrain => Rest
  BY DEF StartAging, LockDrain, WalkDrain, UnlockDrain, atAging, pushVars,
         fieldVars
<1>8. ASSUME Promote
      PROVE  \E j \in Jobs : beginPush(AgingThread, j) /\ apc = "push" /\ j = aged[1]
  <2>1. aged \in Seq(Jobs) /\ aged # <<>> /\ apc = "push"
    BY <1>8 DEF Promote, Inv, TypeOK, BufferKnown
  <2>2. Head(aged) \in Jobs /\ Head(aged) = aged[1]
    BY <2>1
  <2> QED
    BY <1>8, <2>1, <2>2 DEF Promote
<1>9. UNCHANGED vars => Rest
  BY DEF vars, pushVars, drainVars, fieldVars
<1> HIDE DEF Rest
<1>10. \/ Rest
       \/ \E t \in Thread : LinkPush(t)
       \/ Promote
       \/ \E t \in Thread, j \in Jobs : PushNew(t, j) \/ Requeue(t, j)
  BY <1>2, <1>3, <1>4, <1>5, <1>6, <1>7, <1>9 DEF Next, Push
<1> QED
  BY <1>1, <1>8, <1>10, Constants DEF Rest

LEMMA PushesNext ==
  ASSUME Inv, [Next]_vars
  PROVE  PushesKnown'
<1>0. /\ \A t \in Thread : tpc[t] = "off" <=> tjob[t] = NoJob
      /\ \A t \in Pusher :
            tjob[t] # NoJob => status[tjob[t]] = "WAITING" \/ tjob[t] \in out
      /\ tjob[AgingThread] # NoJob => apc = "push" /\ tjob[AgingThread] = aged[1]
      /\ \A t, u \in Thread : t # u /\ tjob[t] = tjob[u] => tjob[t] = NoJob
      /\ tpc \in [Thread -> {"off", "lock", "scan"}]
      /\ tjob \in [Thread -> Jobs \cup {NoJob}]
      /\ status \in [Jobs -> {"WAITING", "READY"}]
      /\ Pusher \subseteq Thread
  BY DEF Inv, PushesKnown, TypeOK, Thread
<1>1. ASSUME NEW t \in Thread, NEW j \in Jobs, beginPush(t, j),
             t \in Pusher => status[j] = "WAITING" \/ j \in out,
             t = AgingThread => apc = "push" /\ j = aged[1]
      PROVE  PushesKnown'
  <2>1. /\ tpc' = [tpc EXCEPT ![t] = "lock"] /\ tjob' = [tjob EXCEPT ![t] = j]
        /\ \A u \in Thread : tjob[u] # j
        /\ UNCHANGED <<status, out, apc, aged>>
    BY <1>1 DEF beginPush, fieldVars, drainVars
  <2> QED
    BY <1>0, <1>1, <2>1, Constants DEF PushesKnown
<1>2. ASSUME NEW t \in Thread, LinkPush(t)
      PROVE  PushesKnown'
  <2>1. PICK j \in Jobs : j = tjob[t]
    BY <1>2, LinkNodes
  <2>2. /\ tpc' = [tpc EXCEPT ![t] = "off"] /\ tjob' = [tjob EXCEPT ![t] = NoJob]
        /\ out' = out \ {j} /\ status' = [status EXCEPT ![j] = "READY"]
        /\ t # AgingThread => UNCHANGED <<apc, aged>>
    BY <1>2, <2>1 DEF LinkPush, drainVars
  <2>3. \A u \in Thread : u # t => tjob[u] # j
    BY <1>0, <2>1, Constants
  <2> QED
    BY <1>0, <2>1, <2>2, <2>3, Constants DEF PushesKnown
<1>3. CASE /\ \A t \in Thread : tpc'[t] = "off" <=> tpc[t] = "off"
           /\ UNCHANGED <<tjob, status>> /\ out \subseteq out'
           /\ apc = "push" => apc' = apc /\ aged' = aged
  BY <1>0, <1>3 DEF PushesKnown
<1> QED
  BY <1>1, <1>2, <1>3, PushSteps

LEMMA AskNext ==
  ASSUME Inv, [Next]_vars
  PROVE  AskKnown'
<1>0. /\ dpc \in {"empty", "top"} => asked \in Asked /\ dlvl <= asked.lvl
      /\ dpc = "top" => dlvl = asked.lvl
      /\ dpc = "idle" => dlvl = 0
      /\ dlvl \in Levels
  BY DEF Inv, AskKnown, TypeOK
<1>1. CASE UNCHANGED dispatchVars
  BY <1>0, <1>1 DEF AskKnown, dispatchVars
<1>2. ASSUME NEW j \in Jobs, Ask(j)
      PROVE  AskKnown'
  <2>1. mlfq_level[j] \in Levels
    BY DEF Inv, TypeOK
  <2>2. asked' \in Asked /\ asked'.lvl = mlfq_level[j] /\ dlvl' = 0 /\ dpc' = "empty"
    BY <1>2, <2>1 DEF Ask, Asked
  <2> QED
    BY <2>1, <2>2, Constants DEF AskKnown
<1>3. CASE AskEmpty
  <2>1. dpc = "empty" /\ asked \in Asked /\ asked.lvl \in Levels
    BY <1>0, <1>3 DEF AskEmpty, atDispatch, Asked
  <2>2. \/ dpc' = "idle" /\ dlvl' = 0
        \/ dpc' = dpc /\ dlvl' = dlvl + 1 /\ asked' = asked /\ dlvl < asked.lvl
        \/ dpc' = "top" /\ dlvl' = dlvl /\ asked' = asked /\ ~ (dlvl < asked.lvl)
    BY <1>3 DEF AskEmpty, answer
  <2> QED
    BY <1>0, <2>1, <2>2, Constants DEF AskKnown
<1>4. CASE AskTop \/ StartPop \/ TryPop
  <2>1. dpc' \in {"idle", "pop"} /\ (dpc' = "idle" => dlvl' = 0)
    BY <1>4 DEF AskTop, StartPop, TryPop, atDispatch, answer
  <2> QED
    BY <2>1 DEF AskKnown
<1>5. \A t \in Thread : Push(t) => UNCHANGED dispatchVars
  BY DEF Push, PushNew, Requeue, beginPush, LockPush, ScanPush, LinkPush
<1>6. \A j \in Jobs : UseTick(j) => UNCHANGED dispatchVars
  BY DEF UseTick
<1>7. \A l \in Levels : Tick(l) => UNCHANGED dispatchVars
  BY DEF Tick
<1>8. StartAging \/ LockDrain \/ WalkDrain \/ UnlockDrain \/ Promote
        => UNCHANGED dispatchVars
  BY DEF StartAging, LockDrain, WalkDrain, UnlockDrain, atAging, Promote,
         beginPush
<1>9. UNCHANGED vars => UNCHANGED dispatchVars
  BY DEF vars, dispatchVars
<1> QED
  BY <1>1, <1>2, <1>3, <1>4, <1>5, <1>6, <1>7, <1>8, <1>9 DEF Next

-----------------------------------------------------------------------------
(* The walks.                                                              *)

(* A step leaves alone a walk of thread u over level l.                    *)
Stays(u, l) ==
  /\ owner'[l] = owner[l] /\ prev'[u] = prev[u] /\ cur'[u] = cur[u]
  /\ head'[l] = head[l] /\ nodes(l)' = nodes(l)
  /\ \A k \in nodes(l) : next'[k] = next[k]

LEMMA WalkStays ==
  ASSUME NEW u \in Thread, NEW l \in Levels, Walks(u, l), Stays(u, l)
  PROVE  Walks(u, l)'
BY DEF Walks, Stays

LEMMA TargetStays ==
  ASSUME NEW u \in Thread, tjob'[u] = tjob[u],
         u = AgingThread => alvl' = alvl,
         u # AgingThread =>
           /\ mlfq_level'[tjob[u]] = mlfq_level[tjob[u]]
           /\ ticks_this_slice'[tjob[u]] = ticks_this_slice[tjob[u]]
           /\ status'[tjob[u]] = status[tjob[u]]
  PROVE  targetLevel(u)' = targetLevel(u)
BY DEF targetLevel

(* A thread that scans a level has its mutex.                              *)
LEMMA ScanOwns ==
  ASSUME Inv, NEW u \in Thread, tpc[u] = "scan"
  PROVE  /\ targetLevel(u) \in Levels /\ owner[targetLevel(u)] = u
         /\ Walks(u, targetLevel(u))
         /\ tjob[u] \in Jobs
         /\ prev[u] # NoJob => Precedes(prev[u], tjob[u])
         /\ u = AgingThread => apc = "push"
<1>1. tjob[u] # NoJob
  BY DEF Inv, PushesKnown
<1>2. /\ Walks(u, targetLevel(u))
      /\ prev[u] # NoJob => Precedes(prev[u], tjob[u])
  BY DEF Inv, WalksKnown
<1> QED
  BY <1>1, <1>2, TargetInLevels DEF Inv, PushesKnown, Walks

LEMMA ScanSteps ==
  ASSUME Inv, [Next]_vars, NEW u \in Thread, tpc'[u] = "scan"
  PROVE  \/ LockPush(u)
         \/ ScanPush(u)
         \/ /\ tpc[u] = "scan" /\ tjob'[u] = tjob[u]
            /\ \E l \in Levels : /\ l = targetLevel(u) /\ targetLevel(u)' = l
                                 /\ Stays(u, l)
<1> DEFINE Rest == /\ tpc[u] = "scan" /\ tjob'[u] = tjob[u]
                   /\ \E l \in Levels : /\ l = targetLevel(u) /\ targetLevel(u)' = l
                                        /\ Stays(u, l)
<1>0. /\ tpc \in [Thread -> {"off", "lock", "scan"}]
      /\ tjob \in [Thread -> Jobs \cup {NoJob}]
      /\ prev \in [Thread -> Jobs \cup {NoJob}]
      /\ cur \in [Thread -> Jobs \cup {NoJob}]
      /\ owner \in [Levels -> Thread \cup {NoThread}]
      /\ mlfq_level \in [Jobs -> Levels]
      /\ ticks_this_slice \in [Jobs -> Nat]
      /\ status \in [Jobs -> {"WAITING", "READY"}]
      /\ u # NoThread /\ AgingThread # NoThread /\ AgingThread \in Thread
  BY Constants DEF Inv, TypeOK
(* Steps that change no list.                                              *)
<1>1. ASSUME UNCHANGED <<head, next>>,
             tpc[u] = "scan", tjob'[u] = tjob[u],
             prev'[u] = prev[u], cur'[u] = cur[u],
             \A l \in Levels : owner[l] = u => owner'[l] = u,
             mlfq_level'[tjob[u]] = mlfq_level[tjob[u]],
             ticks_this_slice'[tjob[u]] = ticks_this_slice[tjob[u]],
             status'[tjob[u]] = status[tjob[u]],
             alvl' = alvl \/ apc # "push"
      PROVE  Rest
  <2>1. PICK l \in Levels : l = targetLevel(u) /\ owner[l] = u
    BY <1>1, ScanOwns
  <2>2. u = AgingThread => alvl' = alvl
    BY <1>1, ScanOwns
  <2>3. targetLevel(u)' = targetLevel(u)
    BY <1>1, <2>2, TargetStays
  <2>4. nodes(l)' = nodes(l)
    BY <1>1, QuietNodes
  <2>5. Stays(u, l)
    BY <1>1, <2>1, <2>4 DEF Stays
  <2> QED
    BY <1>1, <2>1, <2>3, <2>5
<1> HIDE DEF Rest
<1>2. ASSUME NEW t \in Thread, beginPush(t, tjob'[t])
      PROVE  Rest
  <2>1. tpc' = [tpc EXCEPT ![t] = "lock"] /\ tpc[t] = "off"
    BY <1>2 DEF beginPush
  <2>2. t # u /\ tpc[u] = "scan"
    BY <1>0, <2>1
  <2>3. tjob'[u] = tjob[u]
    BY <1>0, <1>2, <2>2 DEF beginPush
  <2> QED
    BY <1>1, <1>2, <2>2, <2>3
       DEF beginPush, listVars, fieldVars, drainVars, walkVars
<1>3. ASSUME NEW t \in Thread, LockPush(t), t # u
      PROVE  Rest
  <2>1. tpc' = [tpc EXCEPT ![t] = "scan"]
    BY <1>3 DEF LockPush
  <2>2. tpc[u] = "scan"
    BY <1>0, <1>3, <2>1
  <2>3. lockAndStart(t, targetLevel(t)) /\ UNCHANGED <<head, next, fieldVars, drainVars, tjob>>
    BY <1>3 DEF LockPush
  <2>4. prev'[u] = prev[u] /\ cur'[u] = cur[u]
    BY <1>0, <1>3, <2>3 DEF lockAndStart
  <2>5. \A l \in Levels : owner[l] = u => owner'[l] = u
    BY <1>0, <2>3 DEF lockAndStart, isFree
  <2> QED
    BY <1>1, <2>2, <2>3, <2>4, <2>5 DEF fieldVars, drainVars
<1>4. ASSUME NEW t \in Thread, ScanPush(t), t # u
      PROVE  Rest
  <2>1. advance(t) /\ UNCHANGED <<listVars, fieldVars, drainVars, pushVars>>
    BY <1>4 DEF ScanPush
  <2>2. prev'[u] = prev[u] /\ cur'[u] = cur[u]
    BY <1>0, <1>4, <2>1 DEF advance
  <2> QED
    BY <1>1, <2>1, <2>2 DEF listVars, fieldVars, drainVars, pushVars
<1>5. ASSUME NEW t \in Thread, LinkPush(t)
      PROVE  Rest
  <2>1. /\ tpc[t] = "scan" /\ tpc' = [tpc EXCEPT ![t] = "off"]
        /\ tjob' = [tjob EXCEPT ![t] = NoJob]
        /\ prev' = [prev EXCEPT ![t] = NoJob] /\ cur' = [cur EXCEPT ![t] = NoJob]
        /\ t # AgingThread => UNCHANGED drainVars
    BY <1>5 DEF LinkPush
  <2>2. t # u /\ tpc[u] = "scan" /\ tjob'[u] = tjob[u]
        /\ prev'[u] = prev[u] /\ cur'[u] = cur[u]
    BY <1>0, <2>1
  <2>3. PICK l \in Levels, m \in Levels, i \in Jobs, j \in Jobs :
          /\ l = targetLevel(u) /\ m = targetLevel(t)
          /\ owner[l] = u /\ owner[m] = t
          /\ i = tjob[u] /\ j = tjob[t]
    BY <2>1, <2>2, ScanOwns
  <2>4. i # j /\ l # m
    BY <2>2, <2>3, Constants DEF Inv, PushesKnown
  <2>5. /\ owner' = [owner EXCEPT ![m] = NoThread]
        /\ mlfq_level' = [mlfq_level EXCEPT ![j] = m]
        /\ ticks_this_slice' = [ticks_this_slice EXCEPT ![j] = 0]
        /\ status' = [status EXCEPT ![j] = "READY"]
    BY <1>5, <2>3 DEF LinkPush
  <2>6. owner'[l] = owner[l] /\ mlfq_level'[i] = mlfq_level[i]
        /\ ticks_this_slice'[i] = ticks_this_slice[i] /\ status'[i] = status[i]
    BY <1>0, <2>4, <2>5
  <2>7. u = AgingThread => alvl' = alvl
    BY <2>1, <2>2 DEF drainVars
  <2>8. targetLevel(u)' = targetLevel(u)
    BY <2>2, <2>3, <2>6, <2>7, TargetStays
  <2>9. head'[l] = head[l] /\ nodes(l)' = nodes(l) /\ \A k \in nodes(l) : next'[k] = next[k]
    BY <1>5, <2>3, <2>4, LinkNodes
  <2> QED
    BY <2>2, <2>3, <2>6, <2>8, <2>9 DEF Stays, Rest
<1>6. ASSUME NEW j \in Jobs, UseTick(j) \/ Ask(j)
      PROVE  Rest
  <2>1. UNCHANGED <<head, next, owner, mlfq_level, status, drainVars, walkVars, pushVars>>
    BY <1>6 DEF UseTick, Ask, atDispatch, listVars, fieldVars
  <2>2. tpc[u] = "scan" /\ tjob[u] \in Jobs
    BY <2>1, ScanOwns DEF pushVars
  <2>3. ticks_this_slice'[tjob[u]] = ticks_this_slice[tjob[u]]
    BY <1>0, <1>6, <2>2 DEF UseTick, Ask, atDispatch, fieldVars
  <2> QED
    BY <1>1, <2>1, <2>2, <2>3 DEF drainVars, walkVars, pushVars
<1>7. ASSUME NEW l \in Levels, Tick(l)
      PROVE  Rest
  BY <1>1, <1>7 DEF Tick, listVars, drainVars, walkVars, pushVars
<1>8. ASSUME AskEmpty \/ AskTop \/ StartPop \/ (TryPop /\ head[dlvl] = NoJob)
      PROVE  Rest
  BY <1>1, <1>8
     DEF AskEmpty, AskTop, StartPop, TryPop, atDispatch, fieldVars, drainVars,
         walkVars, pushVars
<1>9. ASSUME NEW m \in Levels, owner[m] # u, owner' = owner,
             \A l \in Levels : l # m =>
               /\ head'[l] = head[l] /\ nodes(l)' = nodes(l)
               /\ \A k \in nodes(l) : next'[k] = next[k],
             prev'[u] = prev[u], cur'[u] = cur[u],
             UNCHANGED <<fieldVars, pushVars, alvl>>
      PROVE  Rest
  <2>1. tpc[u] = "scan" /\ tjob'[u] = tjob[u]
    BY <1>9 DEF pushVars
  <2>2. PICK l \in Levels : l = targetLevel(u) /\ owner[l] = u
    BY <2>1, ScanOwns
  <2>3. targetLevel(u)' = targetLevel(u)
    BY <1>9, <2>1, TargetStays DEF fieldVars
  <2> QED
    BY <1>9, <2>1, <2>2, <2>3 DEF Stays, Rest
<1>10. ASSUME TryPop /\ head[dlvl] # NoJob
       PROVE  Rest
  <2>1. PICK m \in Levels : m = dlvl
    BY <1>10, PopNodes
  <2>2. owner[m] # u /\ UNCHANGED <<owner, fieldVars, walkVars, pushVars, alvl>>
    BY <1>0, <1>10, <2>1 DEF TryPop, isFree, atDispatch, drainVars
  <2>3. \A l \in Levels : l # m =>
               /\ head'[l] = head[l] /\ nodes(l)' = nodes(l)
               /\ \A k \in nodes(l) : next'[k] = next[k]
    BY <1>10, <2>1, PopNodes
  <2> QED
    BY <1>9, <2>2, <2>3 DEF walkVars
<1>11. ASSUME WalkDrain
       PROVE  Rest
  <2>1. PICK m \in Levels : m = alvl /\ owner[m] = AgingThread
    BY <1>11 DEF WalkDrain, atAging, Inv, TypeOK, WalksKnown, Walks
  <2>2. tpc[u] = "scan"
    BY <1>11 DEF WalkDrain, atAging, pushVars
  <2>3. u # AgingThread
    BY <1>11, <2>2, ScanOwns DEF WalkDrain, atAging
  <2>4. /\ owner[m] # u
        /\ UNCHANGED <<owner, fieldVars, pushVars, alvl>>
        /\ prev'[u] = prev[u] /\ cur'[u] = cur[u]
    BY <1>0, <1>11, <2>1, <2>3 DEF WalkDrain, atAging, advance
  <2>5. CASE drains
    <3>1. \A l \in Levels : l # m =>
               /\ head'[l] = head[l] /\ nodes(l)' = nodes(l)
               /\ \A k \in nodes(l) : next'[k] = next[k]
      BY <2>1, <2>5, DrainNodes
    <3> QED
      BY <1>9, <2>4, <3>1
  <2>6. CASE ~ drains
    <3>1. UNCHANGED <<head, next>>
      BY <1>11, <2>6 DEF drains, WalkDrain
    <3>2. \A l \in Levels : l # m =>
               /\ head'[l] = head[l] /\ nodes(l)' = nodes(l)
               /\ \A k \in nodes(l) : next'[k] = next[k]
      BY <3>1, QuietNodes
    <3> QED
      BY <1>9, <2>4, <3>2
  <2> QED
    BY <2>5, <2>6
<1>12. ASSUME StartAging
       PROVE  Rest
  BY <1>1, <1>12 DEF StartAging, atAging, listVars, fieldVars, walkVars, pushVars
<1>13. ASSUME LockDrain
       PROVE  Rest
  <2>1. tpc[u] = "scan" /\ apc = "drain"
    BY <1>13 DEF LockDrain, atAging, pushVars
  <2>2. u # AgingThread
    BY <2>1, ScanOwns
  <2>3. lockAndStart(AgingThread, alvl) /\ UNCHANGED <<head, next, fieldVars, pushVars, alvl>>
    BY <1>13 DEF LockDrain, atAging
  <2>4. prev'[u] = prev[u] /\ cur'[u] = cur[u]
    BY <1>0, <2>2, <2>3 DEF lockAndStart
  <2>5. \A l \in Levels : owner[l] = u => owner'[l] = u
    BY <1>0, <2>3 DEF lockAndStart, isFree
  <2> QED
    BY <1>1, <2>1, <2>3, <2>4, <2>5 DEF fieldVars, pushVars
<1>14. ASSUME UnlockDrain
       PROVE  Rest
  <2>1. tpc[u] = "scan" /\ apc = "walk"
    BY <1>14 DEF UnlockDrain, atAging, pushVars
  <2>2. u # AgingThread /\ owner[alvl] = AgingThread
    BY <2>1, ScanOwns DEF Inv, WalksKnown, Walks
  <2>3. /\ owner' = [owner EXCEPT ![alvl] = NoThread]
        /\ prev' = [prev EXCEPT ![AgingThread] = NoJob]
        /\ cur' = [cur EXCEPT ![AgingThread] = NoJob]
        /\ UNCHANGED <<head, next, fieldVars, pushVars>>
    BY <1>14 DEF UnlockDrain, atAging
  <2>4. prev'[u] = prev[u] /\ cur'[u] = cur[u]
    BY <1>0, <2>2, <2>3
  <2>5. \A l \in Levels : owner[l] = u => owner'[l] = u
    BY <1>0, <2>2, <2>3
  <2> QED
    BY <1>1, <2>1, <2>3, <2>4, <2>5 DEF fieldVars, pushVars
<1>15. ASSUME UNCHANGED vars
       PROVE  Rest
  BY <1>1, <1>15 DEF vars, listVars, fieldVars, drainVars, walkVars, pushVars
<1>16. ASSUME NEW t \in Thread, NEW j \in Jobs, beginPush(t, j)
       PROVE  Rest
  <2>1. tjob'[t] = j
    BY <1>0, <1>16 DEF beginPush
  <2> QED
    BY <1>2, <1>16, <2>1
<1>17. ASSUME Promote
       PROVE  Rest
  <2>1. Head(aged) \in Jobs
    BY <1>17 DEF Promote, Inv, BufferKnown, TypeOK
  <2> QED
    BY <1>0, <1>16, <1>17, <2>1 DEF Promote
<1>18. ASSUME NEW t \in Thread, NEW j \in Jobs, PushNew(t, j) \/ Requeue(t, j)
       PROVE  Rest
  BY <1>16, <1>18 DEF PushNew, Requeue
<1>19. ASSUME NEW t \in Thread, Push(t)
       PROVE  LockPush(u) \/ ScanPush(u) \/ Rest
  BY <1>3, <1>4, <1>5, <1>18, <1>19 DEF Push
<1>20. ASSUME TryPop
       PROVE  Rest
  BY <1>8, <1>10, <1>20
<1>21. LockPush(u) \/ ScanPush(u) \/ Rest
  BY <1>6, <1>7, <1>8, <1>11, <1>12, <1>13, <1>14, <1>15, <1>17, <1>19, <1>20
     DEF Next
<1> QED
  BY <1>21 DEF Rest

(* The same for the walk of drainAged, and for the counts it looks at.     *)
LEMMA WalkSteps ==
  ASSUME Inv, [Next]_vars, apc' = "walk"
  PROVE  \/ LockDrain
         \/ WalkDrain
         \/ /\ apc = "walk" /\ alvl' = alvl /\ aged' = aged
            /\ \E l \in Levels :
                  /\ l = alvl /\ Stays(AgingThread, l)
                  /\ \A j \in inBuffer \cup nodes(l) : aging_ticks'[j] = aging_ticks[j]
<1> DEFINE Rest == /\ apc = "walk" /\ alvl' = alvl /\ aged' = aged
                   /\ \E l \in Levels :
                        /\ l = alvl /\ Stays(AgingThread, l)
                        /\ \A j \in inBuffer \cup nodes(l) : aging_ticks'[j] = aging_ticks[j]
           a == AgingThread
<1>0. /\ tpc \in [Thread -> {"off", "lock", "scan"}]
      /\ prev \in [Thread -> Jobs \cup {NoJob}]
      /\ cur \in [Thread -> Jobs \cup {NoJob}]
      /\ owner \in [Levels -> Thread \cup {NoThread}]
      /\ aging_ticks \in [Jobs -> 0 .. AGING_THRESHOLD]
      /\ a # NoThread /\ a \in Thread /\ alvl \in Levels
      /\ apc = "walk" => owner[alvl] = a
      /\ inBuffer \subseteq Jobs /\ \A l \in Levels : nodes(l) \subseteq Jobs
  <2>1. /\ tpc \in [Thread -> {"off", "lock", "scan"}]
        /\ prev \in [Thread -> Jobs \cup {NoJob}]
        /\ cur \in [Thread -> Jobs \cup {NoJob}]
        /\ owner \in [Levels -> Thread \cup {NoThread}]
        /\ aging_ticks \in [Jobs -> 0 .. AGING_THRESHOLD]
        /\ alvl \in Levels /\ aged \in Seq(Jobs)
    BY DEF Inv, TypeOK
  <2>2. apc = "walk" => owner[alvl] = a
    BY DEF Inv, WalksKnown, Walks
  <2>3. \A l \in Levels : nodes(l) \subseteq Jobs
    BY DEF Inv, ListsKnown, IsList
  <2>4. inBuffer \subseteq Jobs
    BY <2>1 DEF inBuffer
  <2> HIDE DEF Rest
  <2> QED
    BY <2>1, <2>2, <2>3, <2>4, Constants
<1>1. ASSUME UNCHANGED <<head, next, apc, alvl, aged, aging_ticks>>,
             prev'[a] = prev[a], cur'[a] = cur[a],
             \A l \in Levels : owner[l] = a => owner'[l] = a
      PROVE  Rest
  <2>1. PICK l \in Levels : l = alvl /\ owner[l] = a
    BY <1>0, <1>1
  <2>2. nodes(l)' = nodes(l)
    BY <1>1, QuietNodes
  <2> QED
    BY <1>1, <2>1, <2>2 DEF Stays
<1>2. ASSUME NEW m \in Levels, owner[m] # a,
             \A l \in Levels : owner[l] = a => owner'[l] = a,
             \A l \in Levels : l # m =>
               /\ head'[l] = head[l] /\ nodes(l)' = nodes(l)
               /\ \A k \in nodes(l) : next'[k] = next[k],
             prev'[a] = prev[a], cur'[a] = cur[a],
             \A l \in Levels : l # m =>
               \A j \in inBuffer \cup nodes(l) : aging_ticks'[j] = aging_ticks[j],
             UNCHANGED <<apc, alvl, aged>>
      PROVE  Rest
  <2>1. PICK l \in Levels : l = alvl /\ owner[l] = a
    BY <1>0, <1>2
  <2> QED
    BY <1>2, <2>1 DEF Stays
<1> HIDE DEF Rest
<1>3. ASSUME NEW t \in Thread, NEW j \in Jobs, beginPush(t, j)
      PROVE  Rest
  BY <1>1, <1>3 DEF beginPush, listVars, fieldVars, drainVars, walkVars
<1>4. ASSUME NEW t \in Thread, LockPush(t) \/ ScanPush(t) \/ LinkPush(t)
      PROVE  t # a
  <2>1. t = a => apc = "push" /\ ~ UNCHANGED drainVars
    <3>1. tpc[t] # "off"
      BY <1>4 DEF LockPush, ScanPush, LinkPush
    <3>2. t = a => apc = "push"
      BY <1>0, <3>1 DEF Inv, PushesKnown
    <3> QED
      BY <3>2 DEF drainVars
  <2>2. LinkPush(t) /\ t = a => apc' # "walk"
    BY <2>1 DEF LinkPush, nextAgingLevel
  <2> QED
    BY <1>4, <2>1, <2>2 DEF LockPush, ScanPush, LinkPush
<1>5. ASSUME NEW t \in Thread, LockPush(t)
      PROVE  Rest
  <2>1. lockAndStart(t, targetLevel(t)) /\ UNCHANGED <<head, next, fieldVars, drainVars>>
    BY <1>5 DEF LockPush
  <2>2. prev'[a] = prev[a] /\ cur'[a] = cur[a]
    BY <1>0, <1>4, <1>5, <2>1 DEF lockAndStart
  <2>3. \A l \in Levels : owner[l] = a => owner'[l] = a
    BY <1>0, <2>1 DEF lockAndStart, isFree
  <2> QED
    BY <1>1, <2>1, <2>2, <2>3 DEF fieldVars, drainVars
<1>6. ASSUME NEW t \in Thread, ScanPush(t)
      PROVE  Rest
  <2>1. advance(t) /\ UNCHANGED <<listVars, fieldVars, drainVars>>
    BY <1>6 DEF ScanPush
  <2>2. prev'[a] = prev[a] /\ cur'[a] = cur[a]
    BY <1>0, <1>4, <1>6, <2>1 DEF advance
  <2> QED
    BY <1>1, <2>1, <2>2 DEF listVars, fieldVars, drainVars
<1>7. ASSUME NEW t \in Thread, LinkPush(t)
      PROVE  Rest
  <2>1. t # a /\ tpc[t] = "scan" /\ UNCHANGED drainVars
        /\ prev' = [prev EXCEPT ![t] = NoJob] /\ cur' = [cur EXCEPT ![t] = NoJob]
    BY <1>4, <1>7 DEF LinkPush
  <2>2. PICK m \in Levels, j \in Jobs : m = targetLevel(t) /\ owner[m] = t /\ j = tjob[t]
    BY <2>1, ScanOwns
  <2>3. /\ owner' = [owner EXCEPT ![m] = NoThread]
        /\ aging_ticks' = [aging_ticks EXCEPT ![j] = 0]
    BY <1>7, <2>2 DEF LinkPush
  <2>4. /\ \A l \in Levels : j \notin nodes(l)
        /\ \A l \in Levels : l # m =>
               /\ head'[l] = head[l] /\ nodes(l)' = nodes(l)
               /\ \A k \in nodes(l) : next'[k] = next[k]
    BY <1>7, <2>2, LinkNodes
  <2>5. j \notin inBuffer
    BY <1>7, <2>1, <2>2, LinkBuffer
  <2>6. /\ prev'[a] = prev[a] /\ cur'[a] = cur[a]
        /\ owner[m] # a
        /\ \A l \in Levels : owner[l] = a => owner'[l] = a
        /\ \A l \in Levels : \A k \in inBuffer \cup nodes(l) : aging_ticks'[k] = aging_ticks[k]
    BY <1>0, <2>1, <2>2, <2>3, <2>4, <2>5
  <2> QED
    BY <1>2, <2>1, <2>4, <2>6 DEF drainVars
<1>8. ASSUME NEW j \in Jobs, UseTick(j) \/ Ask(j)
      PROVE  Rest
  BY <1>1, <1>8
     DEF UseTick, Ask, atDispatch, listVars, fieldVars, drainVars, walkVars
<1>9. ASSUME NEW m \in Levels, Tick(m)
      PROVE  Rest
  <2>1. /\ owner[m] # a /\ UNCHANGED <<listVars, out, drainVars, walkVars>>
        /\ aging_ticks' = [j \in Jobs |->
                             IF j \in nodes(m) /\ aging_ticks[j] < AGING_THRESHOLD
                             THEN aging_ticks[j] + 1
                             ELSE aging_ticks[j]]
    BY <1>0, <1>9 DEF Tick, isFree
  <2>2. \A l \in Levels : nodes(l)' = nodes(l)
    BY <2>1, QuietNodes DEF listVars
  <2>3. \A l \in Levels : l # m => \A j \in inBuffer \cup nodes(l) : j \notin nodes(m)
    BY DEF Inv, PlacesKnown
  <2>4. \A l \in Levels : l # m =>
           \A j \in inBuffer \cup nodes(l) : aging_ticks'[j] = aging_ticks[j]
    BY <1>0, <2>1, <2>3
  <2> QED
    BY <1>2, <2>1, <2>2, <2>4 DEF listVars, drainVars, walkVars
<1>10. ASSUME AskEmpty \/ AskTop \/ StartPop \/ (TryPop /\ head[dlvl] = NoJob)
       PROVE  Rest
  BY <1>1, <1>10
     DEF AskEmpty, AskTop, StartPop, TryPop, atDispatch, fieldVars, drainVars,
         walkVars
<1>11. ASSUME TryPop, head[dlvl] # NoJob
       PROVE  Rest
  <2>1. PICK m \in Levels : m = dlvl
    BY <1>11, PopNodes
  <2>2. owner[m] # a /\ UNCHANGED <<owner, fieldVars, walkVars, drainVars>>
    BY <1>0, <1>11, <2>1 DEF TryPop, isFree, atDispatch
  <2>3. \A l \in Levels : l # m =>
               /\ head'[l] = head[l] /\ nodes(l)' = nodes(l)
               /\ \A k \in nodes(l) : next'[k] = next[k]
    BY <1>11, <2>1, PopNodes
  <2> QED
    BY <1>2, <2>2, <2>3 DEF walkVars, drainVars, fieldVars
<1>12. ASSUME StartAging \/ UnlockDrain
       PROVE  FALSE
  BY <1>12 DEF StartAging, UnlockDrain, nextAgingLevel
<1>13. ASSUME Promote
       PROVE  Rest
  <2>1. Head(aged) \in Jobs
    BY <1>13 DEF Promote, Inv, BufferKnown, TypeOK
  <2> QED
    BY <1>0, <1>3, <1>13, <2>1 DEF Promote
<1>14. ASSUME UNCHANGED vars
       PROVE  Rest
  BY <1>1, <1>14 DEF vars, listVars, fieldVars, drainVars, walkVars
<1>15. ASSUME NEW t \in Thread, Push(t)
       PROVE  Rest
  <2>1. ASSUME NEW j \in Jobs, PushNew(t, j) \/ Requeue(t, j)
        PROVE  Rest
    BY <1>3, <2>1 DEF PushNew, Requeue
  <2> QED
    BY <1>5, <1>6, <1>7, <1>15, <2>1 DEF Push
<1>16. ASSUME TryPop
       PROVE  Rest
  BY <1>10, <1>11, <1>16
<1>17. LockDrain \/ WalkDrain \/ Rest
  BY <1>8, <1>9, <1>10, <1>12, <1>13, <1>14, <1>15, <1>16 DEF Next
<1> QED
  BY <1>17 DEF Rest

(* A walk goes on to the next node of its list, ...                        *)
LEMMA AdvanceWalks ==
  ASSUME Inv, NEW u \in Thread, NEW l \in Levels, Walks(u, l), cur[u] # NoJob,
         advance(u), UNCHANGED listVars
  PROVE  /\ Walks(u, l)'
         /\ prev'[u] = cur[u] /\ cur[u] \in nodes(l) /\ nodes(l)' = nodes(l)
<1>1. /\ prev \in [Thread -> Jobs \cup {NoJob}]
      /\ cur \in [Thread -> Jobs \cup {NoJob}]
      /\ IsList(head[l], next, nodes(l))
  BY DEF Inv, TypeOK, ListsKnown
<1>2. cur[u] \in nodes(l)
  BY <1>1, ListHead DEF Walks
<1>3. prev'[u] = cur[u] /\ cur'[u] = next[cur[u]]
  BY <1>1 DEF advance
<1>4. nodes(l)' = nodes(l)
  BY QuietNodes DEF listVars
<1> QED
  BY <1>2, <1>3, <1>4 DEF Walks, listVars

(* ... or takes its node out and stands on the one behind it.              *)
LEMMA DrainWalks ==
  ASSUME Inv, drains, NEW l \in Levels, l = alvl
  PROVE  Walks(AgingThread, l)'
<1> DEFINE a == AgingThread
<1>1. /\ cur \in [Thread -> Jobs \cup {NoJob}]
      /\ head \in [Levels -> Jobs \cup {NoJob}]
      /\ next \in [Jobs -> Jobs \cup {NoJob}]
      /\ prev[a] \in Jobs \cup {NoJob}
      /\ a \in Thread /\ Walks(a, l) /\ IsList(head[l], next, nodes(l))
  BY Constants DEF Inv, TypeOK, drains, WalkDrain, atAging, WalksKnown, ListsKnown
<1>2. PICK j \in Jobs : j = cur[a] /\ j \in nodes(l)
  <2>1. cur[a] \in nodes(l) /\ nodes(l) \subseteq Jobs
    BY <1>1, DrainNodes DEF IsList
  <2> QED
    BY <2>1
<1>3. /\ unlink(l, j, prev[a]) /\ cur' = [cur EXCEPT ![a] = next[j]]
      /\ prev' = prev /\ owner' = owner
      /\ nodes(l)' = nodes(l) \ {j}
  BY <1>2, DrainNodes, DrainBuffer DEF drains, WalkDrain
<1>4. cur'[a] = next[j] /\ prev'[a] = prev[a] /\ owner'[l] = a
  BY <1>1, <1>3 DEF Walks
<1>5. CASE prev[a] = NoJob
  <2>1. head'[l] = next[j]
    BY <1>1, <1>3, <1>5 DEF unlink
  <2> QED
    BY <1>4, <1>5, <2>1 DEF Walks
<1>6. CASE prev[a] # NoJob
  <2>1. prev[a] \in nodes(l) /\ j = next[prev[a]]
    BY <1>1, <1>2, <1>6 DEF Walks
  <2>2. prev[a] # j
    <3>1. j # NoJob
      BY Constants
    <3>2. Precedes(prev[a], j)
      BY <1>1, <2>1, <3>1, ListHead
    <3> QED
      BY <3>2, Order
  <2>3. next'[prev[a]] = next[j]
    BY <1>1, <1>3, <1>6, <2>2 DEF unlink
  <2> QED
    BY <1>3, <1>4, <1>6, <2>1, <2>2, <2>3 DEF Walks
<1> QED
  BY <1>5, <1>6

LEMMA WalksNext ==
  ASSUME Inv, [Next]_vars
  PROVE  WalksKnown'
<1>0. /\ prev \in [Thread -> Jobs \cup {NoJob}]
      /\ cur \in [Thread -> Jobs \cup {NoJob}]
      /\ owner \in [Levels -> Thread \cup {NoThread}]
      /\ AgingThread \in Thread /\ alvl \in Levels
      /\ \A t \in Thread : t # NoThread
  BY Constants DEF Inv, TypeOK
<1>1. ASSUME NEW u \in Thread, tpc'[u] = "scan"
      PROVE  /\ Walks(u, targetLevel(u))'
             /\ prev'[u] # NoJob => Precedes(prev'[u], tjob'[u])
  <2>1. CASE LockPush(u)
    <3>1. /\ lockAndStart(u, targetLevel(u))
          /\ UNCHANGED <<head, tjob, fieldVars, drainVars>>
          /\ tpc[u] = "lock"
      BY <2>1 DEF LockPush
    <3>2. PICK l \in Levels : l = targetLevel(u)
      BY <3>1, TargetInLevels DEF Inv, PushesKnown
    <3>3. owner'[l] = u /\ prev'[u] = NoJob /\ cur'[u] = head[l]
      BY <1>0, <3>1, <3>2 DEF lockAndStart
    <3>4. targetLevel(u)' = l
      BY <3>1, <3>2, TargetStays DEF fieldVars, drainVars
    <3> QED
      BY <3>1, <3>3, <3>4 DEF Walks
  <2>2. CASE ScanPush(u)
    <3>1. /\ tpc[u] = "scan" /\ cur[u] # NoJob /\ ~ insertHere(tjob[u], cur[u])
          /\ advance(u) /\ UNCHANGED <<listVars, fieldVars, drainVars, pushVars>>
      BY <2>2 DEF ScanPush
    <3>2. PICK l \in Levels : l = targetLevel(u) /\ Walks(u, l)
      BY <3>1, ScanOwns
    <3>3. /\ Walks(u, l)'
          /\ prev'[u] = cur[u] /\ cur[u] \in nodes(l)
      BY <3>1, <3>2, AdvanceWalks
    <3>4. targetLevel(u)' = l
      BY <3>1, <3>2, TargetStays DEF fieldVars, drainVars, pushVars
    <3>5. tjob[u] \in Jobs /\ cur[u] \in Jobs /\ tjob[u] # cur[u]
      BY <1>0, <3>1, <3>2, <3>3, ScanOwns, PushedIsNowhere, Constants
    <3>6. Precedes(cur[u], tjob[u])
      BY <3>1, <3>5, Order, InsertHereIsOrder
    <3> QED
      BY <3>1, <3>3, <3>4, <3>6 DEF pushVars, Walks
  <2>3. CASE /\ tpc[u] = "scan" /\ tjob'[u] = tjob[u]
             /\ \E l \in Levels : /\ l = targetLevel(u) /\ targetLevel(u)' = l
                                  /\ Stays(u, l)
    <3>1. PICK l \in Levels : /\ l = targetLevel(u) /\ targetLevel(u)' = l
                              /\ Stays(u, l)
      BY <2>3
    <3>2. Walks(u, l) /\ (prev[u] # NoJob => Precedes(prev[u], tjob[u]))
      BY <2>3, <3>1, ScanOwns
    <3>3. Walks(u, l)'
      BY <3>1, <3>2, WalkStays
    <3> QED
      BY <2>3, <3>1, <3>2, <3>3 DEF Walks, Stays
  <2> QED
    BY <1>1, <2>1, <2>2, <2>3, ScanSteps
<1>2. ASSUME apc' = "walk"
      PROVE  Walks(AgingThread, alvl)'
  <2>1. PICK l \in Levels : l = alvl
    BY <1>0
  <2>2. CASE LockDrain
    <3>1. lockAndStart(AgingThread, l) /\ UNCHANGED <<head, alvl>>
      BY <2>1, <2>2 DEF LockDrain
    <3>2. owner'[l] = AgingThread /\ prev'[AgingThread] = NoJob /\ cur'[AgingThread] = head[l]
      BY <1>0, <3>1 DEF lockAndStart
    <3> QED
      BY <2>1, <3>1, <3>2 DEF Walks
  <2>3. CASE WalkDrain
    <3>1. apc = "walk" /\ alvl' = alvl /\ cur[AgingThread] # NoJob
      BY <2>3 DEF WalkDrain, atAging, drainDone
    <3>2. CASE drains
      <4>1. Walks(AgingThread, l)'
        BY <2>1, <3>2, DrainWalks
      <4> QED
        BY <2>1, <3>1, <4>1 DEF Walks
    <3>3. CASE ~ drains
      <4>1. advance(AgingThread) /\ UNCHANGED listVars
        BY <2>3, <3>3 DEF drains, WalkDrain, listVars
      <4>2. Walks(AgingThread, l)
        BY <2>1, <3>1 DEF Inv, WalksKnown
      <4>3. Walks(AgingThread, l)'
        BY <1>0, <3>1, <4>1, <4>2, AdvanceWalks
      <4> QED
        BY <2>1, <3>1, <4>3 DEF Walks
    <3> QED
      BY <3>2, <3>3
  <2>4. CASE /\ apc = "walk" /\ alvl' = alvl /\ aged' = aged
             /\ \E m \in Levels :
                  /\ m = alvl /\ Stays(AgingThread, m)
                  /\ \A j \in inBuffer \cup nodes(m) : aging_ticks'[j] = aging_ticks[j]
    <3>1. Stays(AgingThread, l) /\ Walks(AgingThread, l)
      BY <2>1, <2>4 DEF Inv, WalksKnown
    <3>2. Walks(AgingThread, l)'
      BY <1>0, <3>1, WalkStays
    <3> QED
      BY <2>1, <2>4, <3>2 DEF Walks
  <2> QED
    BY <1>2, <2>2, <2>3, <2>4, WalkSteps
<1> QED
  BY <1>1, <1>2 DEF WalksKnown

LEMMA DrainNext ==
  ASSUME Inv, [Next]_vars
  PROVE  DrainKnown'
<1> SUFFICES ASSUME apc' = "walk"
             PROVE  DrainKnown'
  BY DEF DrainKnown
<1> DEFINE a == AgingThread
<1>0. PICK l \in Levels : l = alvl
  BY DEF Inv, TypeOK
<1>1. /\ prev \in [Thread -> Jobs \cup {NoJob}]
      /\ cur \in [Thread -> Jobs \cup {NoJob}]
      /\ aging_ticks \in [Jobs -> 0 .. AGING_THRESHOLD]
      /\ AGING_THRESHOLD \in Nat
      /\ a \in Thread /\ NoJob \notin Jobs
      /\ IsList(head[l], next, nodes(l)) /\ nodes(l) \subseteq Jobs
      /\ inBuffer \subseteq Jobs
  <2>1. /\ prev \in [Thread -> Jobs \cup {NoJob}]
        /\ cur \in [Thread -> Jobs \cup {NoJob}]
        /\ aging_ticks \in [Jobs -> 0 .. AGING_THRESHOLD]
        /\ aged \in Seq(Jobs)
    BY DEF Inv, TypeOK
  <2>2. IsList(head[l], next, nodes(l)) /\ nodes(l) \subseteq Jobs
    BY DEF Inv, ListsKnown, IsList
  <2>3. inBuffer \subseteq Jobs
    BY <2>1 DEF inBuffer
  <2>4. AGING_THRESHOLD \in Nat
    BY JobAssumption
  <2> QED
    BY <2>1, <2>2, <2>3, <2>4, Constants
<1>2. ASSUME apc = "walk"
      PROVE  /\ \A j \in inBuffer : aging_ticks[j] >= AGING_THRESHOLD
             /\ \A j \in inBuffer : \A k \in ahead(prev[a], nodes(l)) : Precedes(j, k)
             /\ \A j \in nodes(l) \ ahead(prev[a], nodes(l)) : aging_ticks[j] < AGING_THRESHOLD
             /\ cur[a] # NoJob => IsFirst(cur[a], ahead(prev[a], nodes(l)))
  BY <1>0, <1>2, DrainAhead DEF Inv, DrainKnown
<1>3. CASE LockDrain
  <2>1. inBuffer = {}
    <3>1. aged = <<>>
      BY <1>3 DEF LockDrain, atAging, Inv, BufferKnown
    <3> QED
      BY <3>1 DEF inBuffer
  <2>2. inBuffer' = inBuffer /\ prev'[a] = NoJob
    BY <1>1, <1>3 DEF LockDrain, lockAndStart, inBuffer
  <2> QED
    BY <2>1, <2>2 DEF DrainKnown, ahead
<1>4. CASE drains
  <2>1. PICK j \in Jobs : j = cur[a]
    BY <1>4, DrainBuffer
  <2>2. /\ inBuffer' = inBuffer \cup {j} /\ prev' = prev /\ alvl' = l
        /\ nodes(l)' = nodes(l) \ {j} /\ aging_ticks' = aging_ticks
        /\ aging_ticks[j] >= AGING_THRESHOLD
        /\ IsFirst(j, ahead(prev[a], nodes(l)))
    BY <1>0, <1>1, <1>2, <1>4, <2>1, DrainNodes, DrainBuffer
       DEF drains, WalkDrain, atAging, fieldVars
  <2>3. nodes(alvl)' = nodes(l)'
    BY <2>2, NodesAreChain
  <2>4. ahead(prev[a], nodes(l)') = ahead(prev[a], nodes(l)) \ {j}
    BY <2>2 DEF ahead, After
  <2>5. ahead(prev[a], nodes(alvl))' = ahead(prev[a], nodes(l)) \ {j}
    BY <2>2, <2>3, <2>4 DEF ahead, After
  <2>6. apc = "walk"
    BY <1>4 DEF drains, WalkDrain, atAging
  <2>7. \A i \in inBuffer' : aging_ticks'[i] >= AGING_THRESHOLD
    BY <1>2, <2>2, <2>6
  <2>8. \A i \in inBuffer' : \A k \in ahead(prev[a], nodes(l)) \ {j} : Precedes(i, k)
    BY <1>2, <2>2, <2>6 DEF IsFirst
  <2>9. \A i \in (nodes(l) \ {j}) \ (ahead(prev[a], nodes(l)) \ {j}) :
           aging_ticks'[i] < AGING_THRESHOLD
    BY <1>2, <2>2, <2>6
  <2> QED
    BY <2>2, <2>3, <2>5, <2>7, <2>8, <2>9 DEF DrainKnown
<1>5. CASE WalkDrain /\ ~ drains
  <2>1. /\ advance(a) /\ UNCHANGED listVars /\ apc = "walk" /\ alvl' = l
        /\ aged' = aged /\ aging_ticks' = aging_ticks /\ cur[a] # NoJob
        /\ ~ (aging_ticks[cur[a]] >= AGING_THRESHOLD)
    BY <1>0, <1>5
       DEF drains, WalkDrain, atAging, drainDone, listVars, fieldVars
  <2>2. Walks(a, l)
    BY <1>0, <2>1 DEF Inv, WalksKnown
  <2>3. prev'[a] = cur[a] /\ cur[a] \in nodes(l) /\ nodes(l)' = nodes(l)
    BY <1>1, <2>1, <2>2, AdvanceWalks
  <2>4. inBuffer' = inBuffer /\ nodes(alvl)' = nodes(l)
    BY <2>1, <2>3, NodesAreChain DEF inBuffer
  <2>5. After(cur[a], nodes(l)) = ahead(prev[a], nodes(l)) \ {cur[a]}
    <3>1. IsFirst(cur[a], ahead(prev[a], nodes(l)))
      BY <1>2, <2>1
    <3>2. ahead(prev[a], nodes(l)) \subseteq nodes(l)
      BY DEF ahead, After
    <3>3. ASSUME NEW k \in nodes(l) \ ahead(prev[a], nodes(l))
          PROVE  ~ Precedes(cur[a], k)
      <4>1. CASE prev[a] = NoJob
        BY <3>3, <4>1 DEF ahead
      <4>2. CASE prev[a] # NoJob
        <5>1. Precedes(prev[a], cur[a]) /\ ~ Precedes(prev[a], k) /\ prev[a] \in Jobs
          BY <1>1, <3>1, <3>3, <4>2 DEF ahead, After, IsFirst
        <5> QED
          BY <1>1, <2>3, <5>1, Order
      <4> QED
        BY <4>1, <4>2
    <3> QED
      BY <1>1, <2>3, <3>1, <3>2, <3>3, Order DEF After, IsFirst
  <2>6. ahead(prev[a], nodes(alvl))' = ahead(prev[a], nodes(l)) \ {cur[a]}
    BY <2>1, <2>3, <2>4, <2>5 DEF ahead, After
  <2>7. aging_ticks[cur[a]] < AGING_THRESHOLD
    BY <1>1, <2>1, <2>3
  <2>8. \A i \in inBuffer' : aging_ticks'[i] >= AGING_THRESHOLD
    BY <1>2, <2>1, <2>4
  <2>9. \A i \in inBuffer' : \A k \in ahead(prev[a], nodes(l)) \ {cur[a]} : Precedes(i, k)
    BY <1>2, <2>1, <2>4
  <2>10. \A i \in nodes(l) \ (ahead(prev[a], nodes(l)) \ {cur[a]}) :
           aging_ticks'[i] < AGING_THRESHOLD
    BY <1>2, <2>1, <2>7
  <2> QED
    BY <2>1, <2>4, <2>6, <2>8, <2>9, <2>10 DEF DrainKnown
<1>6. CASE /\ apc = "walk" /\ alvl' = alvl /\ aged' = aged
           /\ \E m \in Levels :
                /\ m = alvl /\ Stays(a, m)
                /\ \A j \in inBuffer \cup nodes(m) : aging_ticks'[j] = aging_ticks[j]
  <2>1. /\ prev'[a] = prev[a] /\ nodes(l)' = nodes(l) /\ inBuffer' = inBuffer /\ alvl' = l
        /\ \A j \in inBuffer \cup nodes(l) : aging_ticks'[j] = aging_ticks[j]
    BY <1>0, <1>6 DEF Stays, inBuffer
  <2>2. nodes(alvl)' = nodes(l)
    BY <2>1, NodesAreChain
  <2>3. ahead(prev[a], nodes(alvl))' = ahead(prev[a], nodes(l))
    BY <2>1, <2>2 DEF ahead, After
  <2>4. ahead(prev[a], nodes(l)) \subseteq nodes(l)
    BY DEF ahead, After
  <2> QED
    BY <1>2, <1>6, <2>1, <2>2, <2>3, <2>4 DEF DrainKnown
<1> QED
  BY <1>3, <1>4, <1>5, <1>6, WalkSteps

-----------------------------------------------------------------------------
(* The theorems about the lists.                                           *)

LEMMA InvInit == Init => Inv
<1> SUFFICES ASSUME Init PROVE Inv
  OBVIOUS
<1>1. TypeOK
  BY TypeInit
<1>2. /\ head = [l \in Levels |-> NoJob] /\ size = [l \in Levels |-> 0]
      /\ aged = <<>> /\ apc = "sleep" /\ alvl = 1 /\ dpc = "idle" /\ dlvl = 0
      /\ out = {}
      /\ tpc = [t \in Thread |-> "off"] /\ tjob = [t \in Thread |-> NoJob]
  BY DEF Init
<1>3. \A l \in Levels : nodes(l) = {} /\ IsList(head[l], next, nodes(l))
  <2> TAKE l \in Levels
  <2>1. IsList(head[l], next, {})
    BY <1>2 DEF IsList, StartsAt
  <2>2. nodes(l) = {}
    BY <2>1, ChainIsList, NodesAreChain
  <2> QED
    BY <2>1, <2>2
<1>4. ListsKnown
  BY <1>2, <1>3, FS_EmptySet DEF ListsKnown
<1>5. inBuffer = {}
  BY <1>2 DEF inBuffer
<1>6. PlacesKnown
  BY <1>2, <1>3, <1>5 DEF PlacesKnown
<1>7. PushesKnown
  BY <1>2, Constants DEF PushesKnown, Thread
<1>8. BufferKnown
  BY <1>2, <1>5, FS_EmptySet DEF BufferKnown
<1>9. WalksKnown /\ DrainKnown /\ AskKnown
  BY <1>2 DEF WalksKnown, DrainKnown, AskKnown
<1> QED
  BY <1>1, <1>4, <1>6, <1>7, <1>8, <1>9 DEF Inv

LEMMA InvNext == Inv /\ [Next]_vars => Inv'
<1> SUFFICES ASSUME Inv, [Next]_vars PROVE Inv'
  OBVIOUS
<1>1. TypeOK'
  BY TypeNext
<1>2. ListsKnown' /\ PlacesKnown' /\ PushesKnown' /\ BufferKnown'
  BY ListsNext, PlacesNext, PushesNext, BufferNext
<1>3. WalksKnown' /\ DrainKnown' /\ AskKnown'
  BY WalksNext, DrainNext, AskNext
<1> QED
  BY <1>1, <1>2, <1>3 DEF Inv

LEMMA InvIsSorted == Inv => Sorted
BY ListHead DEF Inv, ListsKnown, Sorted

LEMMA InvSizes == Inv => SizeMatches
BY DEF Inv, ListsKnown, PlacesKnown, SizeMatches

LEMMA InvWalks == Inv => WalkInList
BY DEF Inv, WalksKnown, Walks, WalkInList

(* TypeOK: every pointer, size and count of the queue is one the code can  *)
(* have: a size never goes below 0, and runAging's buffer never overflows. *)
THEOREM TypeCorrect == Spec => []TypeOK
<1>1. Inv => TypeOK
  BY DEF Inv
<1> QED
  BY <1>1, InvInit, InvNext, PTL DEF Spec

(* Sorted: whatever calls of however many threads interleave on the three  *)
(* lists of job_queue.h, each list stays in order, higher priority first   *)
(* and the earlier submitted first between equals.                         *)
THEOREM ListsAreSorted == Spec => []Sorted
BY InvInit, InvNext, InvIsSorted, PTL DEF Spec

(* SizeMatches: size_ of a level is the number of nodes its list has, and  *)
(* no job is in two lists: a push, a pop and a drain lose and copy none.   *)
THEOREM SizesMatchLists == Spec => []SizeMatches
BY InvInit, InvNext, InvSizes, PTL DEF Spec

(* WalkInList: the pointers with which push and drainAged walk a list stay *)
(* on two neighbours of it, although only the mutex of that one level is   *)
(* held and the other calls go on.                                         *)
THEOREM WalksStayInLists == Spec => []WalkInList
BY InvInit, InvNext, InvWalks, PTL DEF Spec

-----------------------------------------------------------------------------
(* The lists implement the sets of QueueSpec.                              *)

(* What stands for level, aged, apc and dpc of QueueSpec.                  *)
absLevel ==
  [l \in Levels |->
     IF apc = "walk" /\ alvl = l
     THEN nodes(l) \cup {aged[i] : i \in DOMAIN aged}
     ELSE nodes(l)]

absAged == IF apc = "walk" THEN {} ELSE {aged[i] : i \in DOMAIN aged}

absApc == IF apc = "walk" THEN "drain" ELSE apc

absDpc == IF dpc \in {"empty", "top"} THEN "probe"
          ELSE IF dpc = "pop" /\ dlvl = 0 THEN "idle"
          ELSE dpc

absVars == <<absLevel, mlfq_level, ticks_this_slice, aging_ticks, status, out,
             absDpc, dlvl, asked, better, absApc, alvl, absAged>>

(* The definitions of module Job are the same on both sides.               *)
LEMMA SameJob ==
  /\ Abstract!Levels = Levels /\ Abstract!LastLevel = LastLevel
  /\ \A i, j : Abstract!Precedes(i, j) <=> Precedes(i, j)
  /\ \A j, S : Abstract!IsFirst(j, S) <=> IsFirst(j, S)
  /\ \A l, n : Abstract!quantumExpired(l, n) <=> quantumExpired(l, n)
  /\ Abstract!NotAsked = NotAsked
BY DEF Abstract!Levels, Levels, Abstract!LastLevel, LastLevel,
       Abstract!Precedes, Precedes, Abstract!IsFirst, IsFirst,
       Abstract!quantumExpired, quantumExpired, Abstract!NotAsked, NotAsked

(* So is the size of a set.                                                *)
LEMMA SameSize == \A S : Abstract!Cardinality(S) = Cardinality(S)
BY Zenon DEF Abstract!Cardinality, Cardinality

LEMMA AbsLevelValue ==
  /\ absLevel = [l \in Levels |->
                   IF apc = "walk" /\ alvl = l THEN nodes(l) \cup inBuffer ELSE nodes(l)]
  /\ absLevel' = [l \in Levels |->
                   IF apc' = "walk" /\ alvl' = l THEN nodes(l)' \cup inBuffer' ELSE nodes(l)']
  /\ absAged = IF apc = "walk" THEN {} ELSE inBuffer
  /\ absAged' = IF apc' = "walk" THEN {} ELSE inBuffer'
BY DEF absLevel, inBuffer, absAged

(* A level whose mutex is free is not the one that is being drained.       *)
LEMMA FreeLevel ==
  ASSUME Inv, NEW l \in Levels, owner[l] # AgingThread
  PROVE  absLevel[l] = nodes(l) /\ ~ (apc = "walk" /\ alvl = l)
<1>1. apc = "walk" => owner[alvl] = AgingThread
  BY DEF Inv, WalksKnown, Walks
<1> QED
  BY <1>1, AbsLevelValue

LEMMA RefineInit == Init => Abstract!SpecInit
<1> SUFFICES ASSUME Init PROVE Abstract!SpecInit
  OBVIOUS
<1>1. /\ apc = "sleep" /\ alvl = 1 /\ dpc = "idle" /\ dlvl = 0 /\ aged = <<>>
      /\ mlfq_level = [j \in Jobs |-> 0]
      /\ ticks_this_slice = [j \in Jobs |-> 0]
      /\ aging_ticks = [j \in Jobs |-> 0]
      /\ LifecycleInit /\ out = {} /\ asked = NotAsked /\ better = FALSE
  BY DEF Init
<1>2. \A l \in Levels : nodes(l) = {}
  <2>1. size = [l \in Levels |-> 0] /\ head = [l \in Levels |-> NoJob]
    BY DEF Init
  <2>2. ListsKnown
    BY InvInit DEF Inv
  <2> QED
    BY <2>1, <2>2, ListHead DEF ListsKnown
<1>3. absLevel = [l \in Levels |-> {}]
  BY <1>1, <1>2, AbsLevelValue
<1>4. absAged = {}
  BY <1>1 DEF absAged
<1>5. Abstract!QueueInit
  BY <1>1, <1>3, SameJob
     DEF Abstract!QueueInit, absLevel, LifecycleInit, Abstract!LifecycleInit
<1> QED
  BY <1>1, <1>4, <1>5, SameJob DEF Abstract!SpecInit, absAged

LEMMA AbsStutter ==
  ASSUME UNCHANGED absVars
  PROVE  UNCHANGED Abstract!specVars
BY DEF absVars, absLevel, absAged, absApc, absDpc, Abstract!specVars,
       Abstract!queueVars, Abstract!dispatchVars, Abstract!drainVars

(* What a step does to the levels of QueueSpec.                            *)
LEMMA AbsQuiet ==
  ASSUME UNCHANGED <<head, next, apc, alvl, aged>>
  PROVE  UNCHANGED <<absLevel, absAged, absApc>>
<1>1. \A l : nodes(l)' = nodes(l)
  BY QuietNodes
<1> QED
  BY <1>1 DEF absLevel, absAged, absApc

LEMMA AbsPut ==
  ASSUME Inv, NEW t \in Thread, LinkPush(t)
  PROVE  \E l \in Levels, j \in Jobs :
           /\ l = targetLevel(t) /\ j = tjob[t]
           /\ absLevel' = [absLevel EXCEPT ![l] = @ \cup {j}]
           /\ mlfq_level' = [mlfq_level EXCEPT ![j] = l]
           /\ ticks_this_slice' = [ticks_this_slice EXCEPT ![j] = 0]
           /\ aging_ticks' = [aging_ticks EXCEPT ![j] = 0]
           /\ status' = [status EXCEPT ![j] = "READY"]
           /\ out' = out \ {j}
           /\ UNCHANGED dispatchVars
<1>1. PICK l \in Levels, j \in Jobs : l = targetLevel(t) /\ j = tjob[t]
  BY LinkNodes
<1>2. \A m \in Levels :
        /\ m # l => nodes(m)' = nodes(m)
        /\ m = l => nodes(m)' = nodes(m) \cup {j}
  BY <1>1, LinkNodes
<1>3. tpc[t] = "scan" /\ owner[l] = t
  BY <1>1, ScanOwns DEF LinkPush
<1>4. CASE t # AgingThread
  <2>1. UNCHANGED <<apc, alvl, aged>> /\ inBuffer' = inBuffer
    BY <1>4 DEF LinkPush, drainVars, inBuffer
  <2>2. ~ (apc = "walk" /\ alvl = l)
    BY <1>3, <1>4, FreeLevel
  <2>3. absLevel' = [absLevel EXCEPT ![l] = @ \cup {j}]
    BY <1>2, <2>1, <2>2, AbsLevelValue
  <2> QED
    BY <1>1, <2>3 DEF LinkPush
<1>5. CASE t = AgingThread
  <2>1. apc = "push"
    BY <1>3, <1>5, ScanOwns
  <2>2. apc' # "walk"
    BY <1>5, <2>1 DEF LinkPush, nextAgingLevel
  <2>3. absLevel' = [absLevel EXCEPT ![l] = @ \cup {j}]
    BY <1>2, <2>1, <2>2, AbsLevelValue
  <2> QED
    BY <1>1, <2>3 DEF LinkPush
<1> QED
  BY <1>4, <1>5

(* A push by a Pusher is a PushNew or a Requeue, ...                       *)
LEMMA RefinePush ==
  ASSUME Inv, NEW t \in Thread, LinkPush(t), t # AgingThread
  PROVE  Abstract!SpecNext
<1>1. PICK l \in Levels, j \in Jobs :
        /\ l = targetLevel(t) /\ j = tjob[t]
        /\ absLevel' = [absLevel EXCEPT ![l] = @ \cup {j}]
        /\ mlfq_level' = [mlfq_level EXCEPT ![j] = l]
        /\ ticks_this_slice' = [ticks_this_slice EXCEPT ![j] = 0]
        /\ aging_ticks' = [aging_ticks EXCEPT ![j] = 0]
        /\ status' = [status EXCEPT ![j] = "READY"]
        /\ out' = out \ {j}
        /\ UNCHANGED dispatchVars
  BY AbsPut
<1>2. t \in Pusher /\ UNCHANGED drainVars
  BY LinkBuffer
<1>3. UNCHANGED <<absAged, absApc, absDpc, dlvl, asked, better, alvl>>
  BY <1>1, <1>2 DEF absAged, absApc, absDpc, dispatchVars, drainVars
<1>4. tpc[t] = "scan" /\ j # NoJob
  BY Constants DEF LinkPush
<1>5. status[j] = "WAITING" \/ j \in out
  BY <1>1, <1>2, <1>4 DEF Inv, PushesKnown
<1>6. CASE status[j] = "WAITING"
  <2>1. j \notin out
    BY <1>6 DEF Inv, PlacesKnown
  <2>2. l = 0 /\ out' = out
    BY <1>1, <1>6, <2>1 DEF targetLevel
  <2>3. Abstract!pushNew(j)
    BY <1>1, <2>2
       DEF Abstract!pushNew, Abstract!enterLevel, Abstract!push, absLevel
  <2>4. Abstract!PushNew(j)
    BY <1>3, <1>6, <2>2, <2>3
       DEF Abstract!PushNew, Abstract!dispatchVars, Abstract!drainVars,
           absAged, absApc, absDpc
  <2> QED
    BY <2>4 DEF Abstract!SpecNext
<1>7. CASE status[j] # "WAITING"
  <2>1. j \in out
    BY <1>5, <1>7
  <2> DEFINE demote == Abstract!quantumExpired(mlfq_level[j], ticks_this_slice[j])
  <2>2. l = Abstract!demotedLevel(j, demote)
    BY <1>1, <1>2, <1>7, SameJob, Constants
       DEF targetLevel, Abstract!demotedLevel
  <2>3. Abstract!requeuePreempted(j, demote)
    BY <1>1, <2>2
       DEF Abstract!requeuePreempted, Abstract!enterLevel, Abstract!push, absLevel
  <2>4. Abstract!Requeue(j)
    BY <1>1, <1>3, <2>1, <2>3
       DEF Abstract!Requeue, Abstract!dispatchVars, Abstract!drainVars,
           absAged, absApc, absDpc
  <2> QED
    BY <2>4 DEF Abstract!SpecNext
<1> QED
  BY <1>6, <1>7

(* ... and one by runAging a Promote.                                      *)
LEMMA RefinePromote ==
  ASSUME Inv, LinkPush(AgingThread)
  PROVE  Abstract!SpecNext
<1> DEFINE a == AgingThread
<1>1. PICK l \in Levels, j \in Jobs :
        /\ l = targetLevel(a) /\ j = tjob[a]
        /\ absLevel' = [absLevel EXCEPT ![l] = @ \cup {j}]
        /\ mlfq_level' = [mlfq_level EXCEPT ![j] = l]
        /\ ticks_this_slice' = [ticks_this_slice EXCEPT ![j] = 0]
        /\ aging_ticks' = [aging_ticks EXCEPT ![j] = 0]
        /\ status' = [status EXCEPT ![j] = "READY"]
        /\ out' = out \ {j}
        /\ UNCHANGED dispatchVars
  BY AbsPut, Constants
<1>2. /\ inBuffer' = inBuffer \ {j} /\ j \in inBuffer /\ aged' = Tail(aged)
      /\ aged # <<>> /\ j = aged[1]
  BY <1>1, LinkBuffer, Constants
<1>3. l = alvl - 1
  BY <1>1, Constants DEF targetLevel
<1>4. apc = "push"
  BY Constants, ScanOwns DEF LinkPush
<1>5. /\ IF aged' = <<>> THEN nextAgingLevel ELSE UNCHANGED <<apc, alvl>>
      /\ apc' # "walk"
  BY <1>4 DEF LinkPush, nextAgingLevel
<1>6. status' = status /\ out' = out
  <2>1. status \in [Jobs -> {"WAITING", "READY"}]
    BY DEF Inv, TypeOK
  <2>2. status[j] = "READY" /\ j \notin out
    BY <1>2 DEF Inv, PlacesKnown
  <2> QED
    BY <1>1, <2>1, <2>2
<1>7. absAged = inBuffer /\ absAged' = inBuffer \ {j}
  BY <1>2, <1>4, <1>5, AbsLevelValue
<1>8. Abstract!IsFirst(j, absAged)
  <2>1. aged \in Seq(Jobs) /\ \A i, k \in DOMAIN aged : i < k => Precedes(aged[i], aged[k])
    BY DEF Inv, TypeOK, BufferKnown
  <2>2. PICK n \in Nat : n = Len(aged) /\ n # 0 /\ DOMAIN aged = 1 .. n
    BY <1>2, <2>1, EmptySeq, LenProperties
  <2>3. ASSUME NEW k \in inBuffer \ {j}
        PROVE  Precedes(j, k)
    <3>1. PICK i \in 1 .. n : k = aged[i]
      BY <2>2 DEF inBuffer
    <3>2. i # 1
      BY <1>2, <2>3, <3>1
    <3>3. 1 \in 1 .. n /\ 1 < i
      BY <2>2, <3>2
    <3> QED
      BY <1>2, <2>1, <2>2, <3>1, <3>3
  <2>4. IsFirst(j, inBuffer)
    BY <1>2, <2>3 DEF IsFirst
  <2> QED
    BY <1>7, <2>4, SameJob
<1>9. IF absAged' = {} THEN Abstract!nextAgingLevel ELSE UNCHANGED <<absApc, alvl>>
  <2>1. inBuffer' = {} <=> aged' = <<>>
    <3>1. aged' \in Seq(Jobs)
      BY <1>2, HeadTailProperties DEF Inv, TypeOK
    <3>2. PICK n \in Nat : n = Len(aged') /\ DOMAIN aged' = 1 .. n
      BY <3>1, LenProperties
    <3>3. aged' = <<>> <=> n = 0
      BY <3>1, <3>2, EmptySeq
    <3>4. n # 0 => aged'[1] \in inBuffer' /\ 1 \in 1 .. n
      BY <3>2 DEF inBuffer
    <3>5. n = 0 => DOMAIN aged' = {}
      BY <3>2
    <3>6. n = 0 => inBuffer' = {}
      BY <3>5 DEF inBuffer
    <3> QED
      BY <3>3, <3>4, <3>6
  <2>2. absAged' = inBuffer' /\ absApc' = apc' /\ absApc = apc
    BY <1>2, <1>4, <1>5, <1>7 DEF absApc
  <2>3. nextAgingLevel => Abstract!nextAgingLevel
    BY <2>2, SameJob DEF nextAgingLevel, Abstract!nextAgingLevel, absApc
  <2> QED
    BY <1>5, <2>1, <2>2, <2>3
<1>10. Abstract!promote(alvl, j)
  BY <1>1, <1>3
     DEF Abstract!promote, Abstract!enterLevel, Abstract!push, absLevel
<1>11. absApc = "push" /\ UNCHANGED <<absDpc, dlvl, asked, better>>
  BY <1>1, <1>4 DEF absApc, absDpc, dispatchVars
<1>12. Abstract!Promote
  BY <1>2, <1>6, <1>7, <1>8, <1>9, <1>10, <1>11
     DEF Abstract!Promote, Abstract!dispatchVars, absAged, absApc, absDpc
<1> QED
  BY <1>12 DEF Abstract!SpecNext

(* The dispatcher's calls.                                                 *)
LEMMA RefineTick ==
  ASSUME Inv, NEW l \in Levels, Tick(l)
  PROVE  Abstract!SpecNext
<1>1. owner[l] # AgingThread
  BY Constants DEF Tick, isFree
<1>2. absLevel[l] = nodes(l)
  BY <1>1, FreeLevel
<1>3. /\ dpc = "idle"
      /\ aging_ticks' = [j \in Jobs |->
                           IF j \in nodes(l) /\ aging_ticks[j] < AGING_THRESHOLD
                           THEN aging_ticks[j] + 1
                           ELSE aging_ticks[j]]
      /\ UNCHANGED <<listVars, mlfq_level, ticks_this_slice, status, out,
                     dispatchVars, drainVars>>
  BY DEF Tick
<1>4. UNCHANGED <<absLevel, absAged, absApc, absDpc, dlvl, asked, better, alvl>>
  BY <1>3, AbsQuiet DEF listVars, drainVars, dispatchVars, absDpc
<1>5. Abstract!tickLevel(l)
  BY <1>2, <1>3 DEF Abstract!tickLevel, absLevel
<1>6. absDpc = "idle"
  BY <1>3 DEF absDpc
<1>7. Abstract!Tick(l)
  BY <1>3, <1>4, <1>5, <1>6
     DEF Abstract!Tick, Abstract!dispatchVars, Abstract!drainVars, absLevel,
         absAged, absApc, absDpc
<1> QED
  BY <1>7, SameJob DEF Abstract!SpecNext

LEMMA RefineUseTick ==
  ASSUME Inv, NEW j \in Jobs, UseTick(j)
  PROVE  Abstract!SpecNext
<1>1. UNCHANGED <<absLevel, absAged, absApc, absDpc, dlvl, asked, better, alvl>>
  BY AbsQuiet DEF UseTick, listVars, drainVars, dispatchVars, absDpc
<1>2. Abstract!UseTick(j)
  BY <1>1, SameJob
     DEF UseTick, Abstract!UseTick, Abstract!dispatchVars, Abstract!drainVars,
         absLevel, absAged, absApc, absDpc
<1> QED
  BY <1>2 DEF Abstract!SpecNext

LEMMA RefineAsk ==
  ASSUME Inv, NEW j \in Jobs, Ask(j)
  PROVE  Abstract!SpecNext
<1>1. UNCHANGED <<absLevel, absAged, absApc, alvl, mlfq_level, ticks_this_slice,
                  aging_ticks, status>>
  BY AbsQuiet DEF Ask, atDispatch, drainVars, fieldVars
<1>2. absDpc = "idle" /\ absDpc' = "probe"
  BY DEF Ask, atDispatch, absDpc
<1>3. Abstract!Ask(j)
  BY <1>1, <1>2
     DEF Ask, Abstract!Ask, Abstract!queueVars, Abstract!drainVars, absLevel,
         absAged, absApc, absDpc
<1> QED
  BY <1>3 DEF Abstract!SpecNext

LEMMA RefineProbe ==
  ASSUME Inv, AskEmpty \/ AskTop
  PROVE  Abstract!SpecNext \/ UNCHANGED absVars
<1>1. UNCHANGED <<absLevel, absAged, absApc, alvl, mlfq_level, ticks_this_slice,
                  aging_ticks, status, out>>
  BY AbsQuiet DEF AskEmpty, AskTop, atDispatch, drainVars, fieldVars
<1>2. PICK l \in Levels : l = dlvl
  BY DEF Inv, TypeOK
<1>3. owner[l] # AgingThread
  BY <1>2, Constants DEF AskEmpty, AskTop, isFree
<1>4. absLevel[l] = nodes(l) /\ IsList(head[l], next, nodes(l))
  BY <1>3, FreeLevel DEF Inv, ListsKnown
<1>5. /\ dpc \in {"empty", "top"} /\ l <= asked.lvl /\ asked.lvl \in Levels
      /\ dpc = "top" => l = asked.lvl
      /\ asked.prio \in Int /\ \A k \in nodes(l) : PriorityOf[k] \in Int
  <2>1. dpc \in {"empty", "top"}
    BY DEF AskEmpty, AskTop, atDispatch
  <2>2. asked \in Asked /\ l <= asked.lvl /\ (dpc = "top" => l = asked.lvl)
    BY <1>2, <2>1 DEF Inv, AskKnown
  <2>3. \A k \in Jobs : PriorityOf[k] \in Int
    BY JobAssumption DEF Priorities
  <2>4. asked.lvl \in Levels /\ asked.prio \in Int
    BY <2>2, <2>3 DEF Asked
  <2> QED
    BY <1>4, <2>1, <2>2, <2>3, <2>4 DEF IsList
<1>6. (\E k \in nodes(l) : PriorityOf[k] > asked.prio)
        <=> head[l] # NoJob /\ PriorityOf[head[l]] > asked.prio
  <2>1. head[l] # NoJob =>
          head[l] \in nodes(l) /\ \A k \in nodes(l) \ {head[l]} : Precedes(head[l], k)
    BY <1>4, ListHead DEF IsFirst
  <2>2. head[l] = NoJob => nodes(l) = {}
    BY <1>4, ListHead
  <2> QED
    BY <1>5, <2>1, <2>2 DEF Precedes
<1> DEFINE found == Abstract!isBetterCandidate(dlvl, asked.lvl, asked.prio)
<1>7. found <=> IF l < asked.lvl
                THEN head[l] # NoJob
                ELSE head[l] # NoJob /\ PriorityOf[head[l]] > asked.prio
  <2>1. nodes(l) # {} <=> head[l] # NoJob
    BY <1>4, ListHead
  <2> QED
    BY <1>2, <1>4, <1>6, <2>1 DEF Abstract!isBetterCandidate, absLevel
<1>8. ~ (l < asked.lvl) <=> l = asked.lvl
  BY <1>5, Constants
<1> HIDE DEF found
<1>9. absDpc = "probe"
  BY <1>5 DEF absDpc
<1>10. CASE dpc' = "top"
  <2>1. dlvl' = dlvl /\ asked' = asked /\ better' = better
    BY <1>10 DEF AskEmpty, AskTop, atDispatch, answer
  <2>2. absDpc' = absDpc
    BY <1>9, <1>10 DEF absDpc
  <2> QED
    BY <1>1, <2>1, <2>2 DEF absVars
<1>11. CASE dpc' # "top"
  <2>1. \/ /\ found \/ dlvl = asked.lvl
           /\ dpc' = "idle" /\ dlvl' = 0 /\ asked' = NotAsked /\ better' = found
        \/ /\ ~ (found \/ dlvl = asked.lvl)
           /\ dlvl' = dlvl + 1 /\ UNCHANGED <<dpc, asked, better>>
    <3>1. CASE AskEmpty
      <4>1. CASE head[l] = NoJob /\ l < asked.lvl
        BY <1>2, <1>7, <1>8, <3>1, <4>1 DEF AskEmpty
      <4>2. CASE head[l] = NoJob /\ ~ (l < asked.lvl)
        <5>1. found = FALSE
          BY <1>7, <4>2 DEF found, Abstract!isBetterCandidate
        <5> QED
          BY <1>2, <1>8, <3>1, <4>2, <5>1 DEF AskEmpty, answer
      <4>3. CASE head[l] # NoJob /\ l < asked.lvl
        <5>1. found = TRUE
          BY <1>7, <4>3 DEF found, Abstract!isBetterCandidate
        <5> QED
          BY <1>2, <3>1, <4>3, <5>1 DEF AskEmpty, answer
      <4>4. CASE head[l] # NoJob /\ ~ (l < asked.lvl)
        BY <1>2, <1>11, <3>1, <4>4 DEF AskEmpty
      <4> QED
        BY <4>1, <4>2, <4>3, <4>4
    <3>2. CASE AskTop
      <4>1. dpc = "top" /\ l = asked.lvl
        BY <1>5, <3>2 DEF AskTop, atDispatch
      <4>2. found = (head[l] # NoJob /\ PriorityOf[head[l]] > asked.prio)
        BY <1>7, <1>8, <4>1 DEF found, Abstract!isBetterCandidate
      <4> QED
        BY <1>2, <3>2, <4>1, <4>2 DEF AskTop, answer
    <3> QED
      BY <3>1, <3>2
  <2>2. dpc' = "idle" => absDpc' = "idle"
    BY DEF absDpc
  <2>3. dpc' = dpc => absDpc' = absDpc
    BY <1>5 DEF absDpc
  <2>4. \/ /\ found \/ dlvl = asked.lvl
           /\ absDpc' = "idle" /\ dlvl' = 0 /\ asked' = Abstract!NotAsked /\ better' = found
        \/ /\ ~ (found \/ dlvl = asked.lvl)
           /\ dlvl' = dlvl + 1 /\ UNCHANGED <<absDpc, asked, better>>
    BY <2>1, <2>2, <2>3, SameJob
  <2>5. Abstract!Probe
    BY <1>1, <1>9, <2>4
       DEF Abstract!Probe, Abstract!queueVars, Abstract!drainVars, absLevel,
           absAged, absApc, absDpc, found
  <2> QED
    BY <2>5 DEF Abstract!SpecNext
<1> QED
  BY <1>10, <1>11

(* A pop begins with its look at level 0.                                  *)
LEMMA RefineStartPop ==
  ASSUME Inv, StartPop
  PROVE  UNCHANGED absVars
<1>1. /\ dpc = "idle" /\ dpc' = "pop" /\ dlvl = 0 /\ dlvl' = 0
      /\ UNCHANGED <<head, next, apc, alvl, aged>>
  BY DEF StartPop, atDispatch, drainVars, Inv, AskKnown
<1>2. UNCHANGED <<absLevel, absAged, absApc>>
  BY <1>1, AbsQuiet
<1>3. absDpc = "idle" /\ absDpc' = "idle"
  BY <1>1 DEF absDpc
<1> QED
  BY <1>1, <1>2, <1>3 DEF absVars, StartPop, atDispatch, fieldVars, drainVars

LEMMA RefinePop ==
  ASSUME Inv, TryPop
  PROVE  Abstract!SpecNext
<1>1. UNCHANGED <<mlfq_level, ticks_this_slice, aging_ticks, status, apc, alvl,
                  aged, asked, better, owner>>
  BY DEF TryPop, atDispatch, fieldVars, drainVars
<1>2. UNCHANGED <<absAged, absApc>> /\ inBuffer' = inBuffer
  BY <1>1 DEF absAged, absApc, inBuffer
<1>3. PICK l \in Levels : l = dlvl
  BY DEF Inv, TypeOK
<1>4. owner[l] # AgingThread
  BY <1>3, Constants DEF TryPop, isFree
<1>5. absLevel[l] = nodes(l) /\ IsList(head[l], next, nodes(l))
      /\ ~ (apc = "walk" /\ alvl = l)
  BY <1>4, FreeLevel DEF Inv, ListsKnown
<1>6. absDpc = IF dlvl = 0 THEN "idle" ELSE "pop"
  BY DEF TryPop, atDispatch, absDpc
<1>7. CASE head[l] = NoJob
  <2>1. absLevel[l] = {}
    BY <1>5, <1>7, ListHead
  <2>2. UNCHANGED absLevel
    BY <1>1, <1>3, <1>7, AbsQuiet DEF TryPop
  <2>3. IF dlvl = LastLevel
        THEN absDpc' = "idle" /\ dlvl' = 0
        ELSE absDpc' = "pop" /\ dlvl' = dlvl + 1
    BY <1>3, <1>7, Constants DEF TryPop, atDispatch, absDpc
  <2>4. UNCHANGED out
    BY <1>3, <1>7 DEF TryPop
  <2>5. Abstract!PopEmpty
    BY <1>1, <1>2, <1>3, <1>6, <2>1, <2>2, <2>3, <2>4, SameJob
       DEF Abstract!PopEmpty, Abstract!popping, Abstract!queueVars, Abstract!drainVars,
           absLevel, absAged, absApc, absDpc
  <2> QED
    BY <2>5 DEF Abstract!SpecNext
<1>8. CASE head[l] # NoJob
  <2>1. PICK j \in nodes(l) : j = head[l]
    BY <1>5, <1>8, ListHead
  <2>2. IsFirst(j, nodes(l))
    BY <1>5, <1>8, <2>1, ListHead
  <2>3. \A m \in Levels :
          /\ m # l => nodes(m)' = nodes(m)
          /\ m = l => nodes(m)' = nodes(m) \ {j}
    BY <1>3, <1>8, <2>1, PopNodes
  <2>4. absLevel' = [absLevel EXCEPT ![l] = @ \ {j}]
    BY <1>1, <1>2, <1>5, <2>3, AbsLevelValue
  <2>5. Abstract!popFirst(dlvl, j)
    BY <1>3, <1>5, <2>2, <2>4, SameJob DEF Abstract!popFirst, absLevel
  <2>6. out' = out \cup {j} /\ dpc' = "idle" /\ dlvl' = 0
    BY <1>3, <1>8, <2>1 DEF TryPop
  <2>7. absDpc' = "idle" /\ j \in absLevel[dlvl]
    BY <1>3, <1>5, <2>6 DEF absDpc
  <2>8. Abstract!Pop
    BY <1>1, <1>2, <1>6, <2>5, <2>6, <2>7
       DEF Abstract!Pop, Abstract!popping, Abstract!fieldVars, Abstract!drainVars, absLevel,
           absAged, absApc, absDpc
  <2> QED
    BY <2>8 DEF Abstract!SpecNext
<1> QED
  BY <1>7, <1>8

(* runAging: a drain counts when it ends.                                  *)
LEMMA RefineStart ==
  ASSUME Inv, StartAging
  PROVE  Abstract!SpecNext
<1>1. /\ apc = "sleep" /\ apc' = "drain" /\ alvl' = 1
      /\ UNCHANGED <<head, next, aged, fieldVars, out, dispatchVars>>
  BY DEF StartAging, atAging, listVars
<1>2. \A l : nodes(l)' = nodes(l)
  BY <1>1, QuietNodes
<1>3. /\ UNCHANGED <<absLevel, absAged, absDpc, dlvl, asked, better>>
      /\ absApc = "sleep" /\ absApc' = "drain"
  BY <1>1, <1>2 DEF absLevel, absAged, absApc, absDpc, dispatchVars
<1>4. Abstract!StartAging
  BY <1>1, <1>3
     DEF Abstract!StartAging, Abstract!queueVars, Abstract!dispatchVars,
         fieldVars, absLevel, absAged, absApc, absDpc
<1> QED
  BY <1>4 DEF Abstract!SpecNext

LEMMA RefineWalk ==
  ASSUME Inv, LockDrain \/ WalkDrain
  PROVE  UNCHANGED absVars
<1>1. UNCHANGED <<fieldVars, out, dispatchVars, alvl, absDpc>> /\ apc' = "walk"
  BY DEF LockDrain, WalkDrain, atAging, dispatchVars, absDpc
<1>2. CASE LockDrain
  <2>1. aged = <<>> /\ aged' = aged /\ UNCHANGED <<head, next>> /\ apc = "drain"
    BY <1>2 DEF LockDrain, atAging, Inv, BufferKnown
  <2>2. inBuffer = {} /\ inBuffer' = {}
    BY <2>1 DEF inBuffer
  <2>3. \A l : nodes(l)' = nodes(l)
    BY <2>1, QuietNodes
  <2>4. UNCHANGED <<absLevel, absAged, absApc>>
    BY <1>1, <2>1, <2>2, <2>3, AbsLevelValue DEF absApc
  <2> QED
    BY <1>1, <2>4 DEF absVars, fieldVars, dispatchVars
<1>3. CASE WalkDrain
  <2>1. apc = "walk"
    BY <1>3 DEF WalkDrain, atAging
  <2>2. CASE drains
    <3>1. PICK l \in Levels, j \in Jobs : l = alvl /\ j = cur[AgingThread]
      BY <2>2, DrainNodes, DrainBuffer
    <3>2. /\ j \in nodes(l) /\ inBuffer' = inBuffer \cup {j}
          /\ \A m \in Levels :
               /\ m # l => nodes(m)' = nodes(m)
               /\ m = l => nodes(m)' = nodes(m) \ {j}
      BY <2>2, <3>1, DrainNodes, DrainBuffer
    <3>3. UNCHANGED <<absLevel, absAged, absApc>>
      BY <1>1, <2>1, <3>1, <3>2, AbsLevelValue DEF absApc
    <3> QED
      BY <1>1, <3>3 DEF absVars, fieldVars, dispatchVars
  <2>3. CASE ~ drains
    <3>1. UNCHANGED <<head, next, aged, apc>>
      BY <1>1, <1>3, <2>1, <2>3 DEF drains, WalkDrain
    <3>2. UNCHANGED <<absLevel, absAged, absApc>>
      BY <1>1, <3>1, AbsQuiet
    <3> QED
      BY <1>1, <3>2 DEF absVars, fieldVars, dispatchVars
  <2> QED
    BY <2>2, <2>3
<1> QED
  BY <1>2, <1>3

LEMMA RefineDrain ==
  ASSUME Inv, UnlockDrain
  PROVE  Abstract!SpecNext
<1> DEFINE a == AgingThread
<1>1. PICK l \in Levels : l = alvl
  BY DEF Inv, TypeOK
<1>2. /\ apc = "walk" /\ drainDone
      /\ UNCHANGED <<head, next, aged, fieldVars, out, dispatchVars>>
      /\ IF aged = <<>> THEN nextAgingLevel ELSE apc' = "push" /\ UNCHANGED alvl
  BY DEF UnlockDrain, atAging
<1>3. \A m : nodes(m)' = nodes(m)
  BY <1>2, QuietNodes
<1>4. inBuffer' = inBuffer /\ inBuffer \subseteq Jobs /\ (inBuffer = {} <=> aged = <<>>)
  <2>1. aged \in Seq(Jobs)
    BY DEF Inv, TypeOK
  <2>2. PICK n \in Nat : n = Len(aged) /\ DOMAIN aged = 1 .. n
    BY <2>1, LenProperties
  <2>3. aged = <<>> <=> n = 0
    BY <2>1, <2>2, EmptySeq
  <2>4. n # 0 => aged[1] \in inBuffer
    BY <2>2 DEF inBuffer
  <2>5. n = 0 => DOMAIN aged = {}
    BY <2>2
  <2>6. n = 0 => inBuffer = {}
    BY <2>5 DEF inBuffer
  <2> QED
    BY <1>2, <2>1, <2>3, <2>4, <2>6 DEF inBuffer
<1>5. apc' # "walk"
  BY <1>2 DEF nextAgingLevel
<1>6. /\ absLevel[l] = nodes(l) \cup inBuffer
      /\ nodes(l) \cap inBuffer = {}
      /\ absLevel' = [absLevel EXCEPT ![l] = @ \ inBuffer]
  <2>1. nodes(l) \cap inBuffer = {}
    BY DEF Inv, PlacesKnown
  <2> QED
    BY <1>1, <1>2, <1>3, <1>5, <2>1, AbsLevelValue
<1>7. absAged = {} /\ absAged' = inBuffer /\ absApc = "drain" /\ absApc' = apc'
  BY <1>2, <1>4, <1>5, AbsLevelValue DEF absApc
<1> DEFINE rest == ahead(prev[a], nodes(l))
<1>8. /\ \A j \in inBuffer : aging_ticks[j] >= AGING_THRESHOLD
      /\ \A j \in inBuffer : \A k \in rest : Precedes(j, k)
      /\ \A j \in nodes(l) \ rest : ~ (aging_ticks[j] >= AGING_THRESHOLD)
  <2>1. /\ \A j \in inBuffer : aging_ticks[j] >= AGING_THRESHOLD
        /\ \A j \in inBuffer : \A k \in rest : Precedes(j, k)
        /\ \A j \in nodes(l) \ rest : aging_ticks[j] < AGING_THRESHOLD
    BY <1>1, <1>2 DEF Inv, DrainKnown
  <2>2. \A j \in nodes(l) : aging_ticks[j] \in Int
    <3>1. nodes(l) \subseteq Jobs /\ aging_ticks \in [Jobs -> 0 .. AGING_THRESHOLD]
      BY DEF Inv, ListsKnown, IsList, TypeOK
    <3> QED
      BY <3>1, JobAssumption
  <2>3. AGING_THRESHOLD \in Int
    BY JobAssumption
  <2> HIDE DEF rest
  <2> QED
    BY <2>1, <2>2, <2>3
<1>9. rest = {} \/ Cardinality(inBuffer) = AGED_BUF
  <2>1. CASE cur[a] = NoJob
    <3>1. Walks(a, l) /\ IsList(head[l], next, nodes(l))
      BY <1>1, <1>2 DEF Inv, WalksKnown, ListsKnown
    <3>2. CASE prev[a] = NoJob
      BY <2>1, <3>1, <3>2, ListHead DEF Walks, ahead
    <3>3. CASE prev[a] # NoJob
      <4>1. StartsAt(NoJob, After(prev[a], nodes(l)))
        BY <2>1, <3>1, <3>3 DEF Walks, IsList
      <4>2. After(prev[a], nodes(l)) = {}
        BY <3>1, <4>1, Constants DEF StartsAt, IsFirst, After, IsList
      <4> QED
        BY <3>3, <4>2 DEF ahead
    <3> QED
      BY <3>2, <3>3
  <2>2. CASE Len(aged) = AGED_BUF
    BY <2>2 DEF Inv, BufferKnown
  <2> QED
    BY <1>2, <2>1, <2>2 DEF drainDone
<1>10. Cardinality(inBuffer) <= AGED_BUF
  BY DEF Inv, BufferKnown, TypeOK
<1> DEFINE aged2 == Abstract!agedIn(alvl)
<1>11. /\ aged2 = inBuffer \cup {j \in nodes(l) : aging_ticks[j] >= AGING_THRESHOLD}
       /\ inBuffer \subseteq aged2
       /\ aged2 \ inBuffer \subseteq rest
       /\ rest \subseteq nodes(l)
  <2>1. aged2 = {j \in absLevel[l] : aging_ticks[j] >= AGING_THRESHOLD}
    BY <1>1 DEF Abstract!agedIn, absLevel
  <2>2. rest \subseteq nodes(l)
    BY DEF ahead, After
  <2> HIDE DEF rest, aged2
  <2> QED
    BY <1>6, <1>8, <2>1, <2>2
<1> HIDE DEF rest, aged2
<1>12. PICK A \in SUBSET Jobs : A = inBuffer
  BY <1>4
<1>13. Abstract!drainAged(alvl, A)
  <2>1. \/ A = aged2 /\ Cardinality(A) <= AGED_BUF
        \/ Cardinality(A) = AGED_BUF
    BY <1>9, <1>10, <1>11, <1>12
  <2>2. A \subseteq aged2
    BY <1>11, <1>12
  <2>3. \A i \in A, j \in aged2 \ A : Abstract!Precedes(i, j)
    BY <1>8, <1>11, <1>12, SameJob
  <2>4. Abstract!isDrained(alvl, A)
    BY <2>1, <2>2, <2>3, SameSize DEF Abstract!isDrained, aged2
  <2> QED
    BY <1>1, <1>6, <1>12, <2>4 DEF Abstract!drainAged, absLevel
<1>14. IF absAged' = {}
       THEN Abstract!nextAgingLevel
       ELSE absApc' = "push" /\ UNCHANGED alvl
  <2>1. nextAgingLevel => Abstract!nextAgingLevel
    BY <1>7, SameJob DEF nextAgingLevel, Abstract!nextAgingLevel, absApc
  <2> QED
    BY <1>2, <1>4, <1>7, <2>1
<1>15. UNCHANGED <<absDpc, dlvl, asked, better>>
  BY <1>2 DEF dispatchVars, absDpc
<1>16. A \in SUBSET Abstract!agedIn(alvl)
  BY <1>11, <1>12 DEF aged2
<1>17. \E B \in SUBSET Abstract!agedIn(alvl) : Abstract!drainAged(alvl, B) /\ absAged' = B
  BY <1>7, <1>12, <1>13, <1>16
<1>18. UNCHANGED <<mlfq_level, ticks_this_slice, aging_ticks, status, out>>
  BY <1>2 DEF fieldVars
<1>19. Abstract!Drain
  BY <1>7, <1>14, <1>15, <1>17, <1>18
     DEF Abstract!Drain, Abstract!fieldVars, Abstract!dispatchVars, absAged,
         absApc, absDpc
<1> QED
  BY <1>19 DEF Abstract!SpecNext

(* What a push does before it links is no step of QueueSpec.               *)
LEMMA RefineStutter ==
  ASSUME Inv,
         \/ \E t \in Thread : \/ \E j \in Jobs : PushNew(t, j) \/ Requeue(t, j)
                              \/ LockPush(t) \/ ScanPush(t)
         \/ Promote
         \/ UNCHANGED vars
  PROVE  UNCHANGED absVars
<1>1. UNCHANGED <<head, next, fieldVars, out, dispatchVars, drainVars>>
  BY DEF PushNew, Requeue, Promote, beginPush, LockPush, ScanPush, vars,
         listVars
<1>2. UNCHANGED <<absLevel, absAged, absApc, absDpc>>
  BY <1>1, AbsQuiet DEF drainVars, dispatchVars, absDpc
<1> QED
  BY <1>1, <1>2 DEF absVars, fieldVars, dispatchVars, drainVars

LEMMA RefineNext ==
  ASSUME Inv, [Next]_vars
  PROVE  [Abstract!SpecNext]_Abstract!specVars
<1>1. ASSUME NEW t \in Thread, LinkPush(t)
      PROVE  Abstract!SpecNext
  BY <1>1, RefinePush, RefinePromote
<1>2. ASSUME NEW j \in Jobs, UseTick(j) \/ Ask(j)
      PROVE  Abstract!SpecNext
  BY <1>2, RefineUseTick, RefineAsk
<1>3. ASSUME NEW l \in Levels, Tick(l)
      PROVE  Abstract!SpecNext
  BY <1>3, RefineTick
<1>4. CASE AskEmpty \/ AskTop
  BY <1>4, RefineProbe, AbsStutter
<1>5. CASE StartPop \/ TryPop
  BY <1>5, RefineStartPop, RefinePop, AbsStutter
<1>6. CASE StartAging \/ UnlockDrain
  BY <1>6, RefineStart, RefineDrain
<1>7. CASE LockDrain \/ WalkDrain
  BY <1>7, RefineWalk, AbsStutter
<1>8. CASE \/ \E t \in Thread : \/ \E j \in Jobs : PushNew(t, j) \/ Requeue(t, j)
                               \/ LockPush(t) \/ ScanPush(t)
           \/ Promote
           \/ UNCHANGED vars
  BY <1>8, RefineStutter, AbsStutter
<1> QED
  BY <1>1, <1>2, <1>3, <1>4, <1>5, <1>6, <1>7, <1>8 DEF Next, Push

(* ImplementsQueueSpec: whatever the interleaving, the linked lists behave *)
(* as the sets of QueueSpec: each push and pop acts at once where it links *)
(* or unlinks, each drain where it gives the mutex back, and a pop returns *)
(* the first job of the first level that was not empty in its turn.        *)
THEOREM ListsImplementSets == Spec => ImplementsQueueSpec
BY RefineInit, RefineNext, InvInit, InvNext, PTL
   DEF Spec, ImplementsQueueSpec, Abstract!Spec

=============================================================================
