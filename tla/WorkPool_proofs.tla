-------------------------- MODULE WorkPool_proofs ---------------------------
(***************************************************************************)
(* Proofs about WorkPool, for any list of jobs, any number of workers and  *)
(* any batch, as long as a machine word holds the cursor's last value.     *)
(***************************************************************************)
EXTENDS WorkPool, FiniteSetTheorems, TLAPS

Finished == { w \in Workers : pc[w] = "finished" }

Types ==
  /\ cursor \in Nat
  /\ pc \in [Workers -> {"unborn"} \cup Running \cup Ended]
  /\ next \in [Workers -> Nat] /\ end \in [Workers -> Nat]
  /\ caller \in {"spawn", "join", "merge", "unwind", "returned", "raised"}
  /\ turn \in Nat

(* Past the end of the list each claim ends a worker, so the cursor never   *)
(* comes near the width of a word.                                          *)
CursorInv == cursor <= N + Batch * (Cardinality(Finished) + 1)

(* A batch in hand lies in the list, below the cursor, away from the others. *)
BatchInv ==
  \A w \in Workers : pc[w] = "run" =>
    next[w] >= 1 /\ next[w] < end[w] /\ end[w] <= cursor + 1 /\ end[w] <= N + 1

DisjointInv ==
  \A v, w \in Workers : v # w /\ pc[v] = "run" /\ pc[w] = "run" =>
    end[v] <= next[w] \/ end[w] <= next[v]

FinishedInv == \A w \in Workers : pc[w] = "finished" => cursor >= N

CallerInv ==
  /\ caller = "spawn" => turn \in Workers /\ \A w \in Workers : w >= turn => pc[w] = "unborn"
  /\ caller = "join" => turn \in Workers /\ \A w \in Workers : w < turn => pc[w] = "finished"
  /\ caller \in {"merge", "returned"} => \A w \in Workers : pc[w] = "finished"
  /\ caller = "raised" => ScopeEnded

(* As long as no worker has panicked, what is below the cursor has been run *)
(* without a panic or is still in some worker's hands.                      *)
Held(p) == \E w \in Workers : pc[w] = "run" /\ next[w] <= p /\ p < end[w]

PanicInv ==
  (\A w \in Workers : pc[w] # "panicked") =>
     \A p \in Positions : p <= cursor => Indices[p] \notin panics \/ Held(p)

IInv ==
  /\ Types /\ CursorInv /\ BatchInv /\ DisjointInv
  /\ FinishedInv /\ CallerInv /\ PanicInv
-----------------------------------------------------------------------------
LEMMA Sizes ==
  /\ N \in Nat /\ Batch \in Nat \ {0} /\ Modulus \in Nat
  /\ jobs \in Nat \ {0} /\ jobs <= Jobs
  /\ N + (Jobs + 1) * Batch < Modulus
BY IndicesAssumption, SizesAssumption, WidthAssumption DEF N, jobs

LEMMA FinishedIsFinite ==
  /\ IsFiniteSet(Finished) /\ Cardinality(Finished) \in Nat
  /\ Cardinality(Finished) <= jobs
  /\ \A w \in Workers \ Finished :
       /\ Cardinality(Finished \cup {w}) = Cardinality(Finished) + 1
       /\ Cardinality(Finished) + 1 <= jobs
<1>1. IsFiniteSet(Workers) /\ Cardinality(Workers) = jobs
  <2>1. 1 \in Int /\ jobs \in Int /\ jobs >= 1
    BY Sizes
  <2> QED BY <2>1, FS_Interval DEF Workers
<1>2. Finished \subseteq Workers
  BY DEF Finished
<1>3. IsFiniteSet(Finished) /\ Cardinality(Finished) <= jobs
  BY <1>1, <1>2, FS_Subset, Zenon
<1>4. ASSUME NEW w \in Workers \ Finished
      PROVE  /\ Cardinality(Finished \cup {w}) = Cardinality(Finished) + 1
             /\ Cardinality(Finished) + 1 <= jobs
  <2>1. Cardinality(Finished \cup {w}) = Cardinality(Finished) + 1
    BY <1>3, FS_AddElement
  <2>2. Finished \cup {w} \subseteq Workers
    BY <1>2
  <2>3. Cardinality(Finished \cup {w}) <= Cardinality(Workers)
    BY <1>1, <2>2, FS_Subset, Zenon
  <2> QED BY <1>1, <2>1, <2>3
<1>5. Cardinality(Finished) \in Nat
  BY <1>3, FS_CardinalityType
<1> QED BY <1>3, <1>4, <1>5

(* The cursor is added to without wrapping.                                 *)
LEMMA NoWrap ==
  ASSUME IInv, NEW w \in Workers, claim(w)
  PROVE  cursor' = cursor + Batch
<1>1. w \notin Finished
  BY DEF claim, fetch_add, Finished
<1>2. Cardinality(Finished) + 1 <= jobs /\ Cardinality(Finished) \in Nat
  BY <1>1, FinishedIsFinite
<1>3. Batch * (Cardinality(Finished) + 1) <= Batch * jobs
  BY <1>2, Sizes
<1>4. Batch * jobs + Batch <= (Jobs + 1) * Batch
  <2> DEFINE d == Jobs - jobs
  <2>1. d \in Nat /\ Jobs = jobs + d
    BY Sizes, SizesAssumption
  <2>2. (jobs + d + 1) * Batch = jobs * Batch + d * Batch + Batch /\ d * Batch >= 0
    BY <2>1, Sizes
  <2> QED BY <2>1, <2>2, Sizes
<1>5. cursor + Batch < Modulus
  <2> DEFINE used == Batch * (Cardinality(Finished) + 1)
             most == Batch * jobs
             room == (Jobs + 1) * Batch
  <2>1. used \in Int /\ most \in Int /\ room \in Int
    BY <1>2, Sizes, SizesAssumption
  <2>2. cursor \in Nat /\ cursor <= N + used
    BY DEF IInv, Types, CursorInv
  <2>3. used <= most /\ most + Batch <= room /\ N + room < Modulus
    BY <1>3, <1>4, Sizes
  <2> HIDE DEF used, most, room
  <2> QED BY <2>1, <2>2, <2>3, Sizes
<1> QED BY <1>5, Sizes DEF claim, fetch_add, IInv, Types

LEMMA InitIInv == Init => IInv
<1> SUFFICES ASSUME Init PROVE IInv
  OBVIOUS
<1>1. Types /\ CallerInv /\ BatchInv /\ DisjointInv /\ FinishedInv
  BY Sizes DEF Init, Types, CallerInv, BatchInv, DisjointInv, FinishedInv,
               Workers
<1>2. CursorInv
  <2>1. Batch * (Cardinality(Finished) + 1) >= 0
    BY FinishedIsFinite, Sizes
  <2> QED BY <2>1, FinishedIsFinite, Sizes DEF Init, CursorInv
<1>3. PanicInv
  BY DEF Init, PanicInv, Positions
<1> QED BY <1>1, <1>2, <1>3 DEF IInv

(* A claim takes what lies between the old cursor and the new one.          *)
LEMMA ClaimStep ==
  ASSUME IInv, NEW w \in Workers, claim(w)
  PROVE  IInv'
<1> USE DEF IInv, Types, Running, Ended
<1>c. cursor' = cursor + Batch
  BY NoWrap
<1>p. panics' = panics
  BY DEF claim, fetch_add
<1>1. CASE cursor >= N
  <2>1. pc' = [pc EXCEPT ![w] = "finished"] /\ UNCHANGED <<next, end, caller, turn>>
    BY <1>1, Sizes DEF claim, fetch_add
  <2>2. Types'
    BY <1>c, <2>1, Sizes
  <2>3. CursorInv'
    <3>1. w \notin Finished /\ Finished' = Finished \cup {w}
      BY <2>1 DEF claim, fetch_add, Finished
    <3>2. Cardinality(Finished') = Cardinality(Finished) + 1
      BY <3>1, FinishedIsFinite
    <3>3. Batch * (Cardinality(Finished) + 1 + 1) = Batch * (Cardinality(Finished) + 1) + Batch
      BY FinishedIsFinite, Sizes
    <3> QED BY <1>c, <3>2, <3>3, FinishedIsFinite, Sizes DEF CursorInv
  <2>4. BatchInv' /\ DisjointInv'
    BY <1>c, <2>1, Sizes DEF BatchInv, DisjointInv
  <2>5. FinishedInv'
    BY <1>c, <1>1, <2>1, Sizes DEF FinishedInv
  <2>6. CallerInv'
    BY <2>1 DEF CallerInv, claim, ScopeEnded
  <2>7. PanicInv'
    BY <1>c, <1>1, <2>1, Sizes DEF PanicInv, Held, claim, Positions
  <2> QED BY <2>2, <2>3, <2>4, <2>5, <2>6, <2>7
<1>2. CASE cursor < N
  <2> DEFINE stop == IF cursor + Batch < N THEN cursor + Batch ELSE N
  <2>1. /\ pc[w] = "claim" /\ pc' = [pc EXCEPT ![w] = "run"]
        /\ next' = [next EXCEPT ![w] = cursor + 1]
        /\ end' = [end EXCEPT ![w] = stop + 1]
        /\ UNCHANGED <<caller, turn>>
    BY <1>2, Sizes DEF claim, fetch_add
  <2>s. stop \in Nat /\ cursor < stop /\ stop <= N /\ stop <= cursor + Batch
    BY <1>2, Sizes
  <2>2. Types'
    BY <1>c, <2>1, <2>s, Sizes
  <2>3. CursorInv'
    <3>1. Finished' = Finished
      BY <2>1 DEF Finished
    <3>2. Batch * (Cardinality(Finished) + 1) >= Batch
      BY FinishedIsFinite, Sizes
    <3> QED BY <1>c, <1>2, <3>1, <3>2, FinishedIsFinite, Sizes DEF CursorInv
  <2>4. BatchInv'
    BY <1>c, <2>1, <2>s, Sizes DEF BatchInv
  <2>5. DisjointInv'
    BY <2>1, <2>s, Sizes DEF DisjointInv, BatchInv
  <2>6. FinishedInv'
    BY <1>c, <1>2, <2>1, Sizes DEF FinishedInv
  <2>7. CallerInv'
    BY <2>1 DEF CallerInv, ScopeEnded
  <2>8. PanicInv'
    <3> SUFFICES ASSUME \A v \in Workers : pc'[v] # "panicked",
                        NEW p \in Positions, p <= cursor', Indices[p] \in panics
                 PROVE  Held(p)'
      BY <1>p DEF PanicInv
    <3>1. CASE p <= cursor
      <4>1. Held(p)
        BY <2>1, <3>1 DEF PanicInv
      <4> QED BY <4>1, <2>1 DEF Held
    <3>2. CASE p > cursor
      BY <1>c, <2>1, <2>s, <3>2, Sizes DEF Held, Positions
    <3> QED BY <3>1, <3>2, Sizes DEF Positions
  <2> QED BY <2>2, <2>3, <2>4, <2>5, <2>6, <2>7, <2>8
<1> QED BY <1>1, <1>2, Sizes

(* A job done leaves one position less in its worker's hands; a job that    *)
(* panics leaves the worker dead, for the caller to find.                   *)
LEMMA RunStep ==
  ASSUME IInv, NEW w \in Workers, run(w)
  PROVE  IInv'
<1> USE DEF IInv, Types, Running, Ended
<1>p. panics' = panics
  BY DEF run
<1>0. pc[w] = "run" /\ UNCHANGED <<cursor, end, caller, turn>>
  BY DEF run
<1>b. next[w] \in Positions /\ next[w] < end[w]
  BY <1>0, Sizes DEF BatchInv, Positions
<1>1. CASE Indices[next[w]] \in panics
  <2>1. pc' = [pc EXCEPT ![w] = "panicked"] /\ UNCHANGED next
    BY <1>1 DEF run
  <2>2. Finished' = Finished
    BY <1>0, <2>1 DEF Finished
  <2>3. Types' /\ CursorInv'
    BY <1>0, <2>1, <2>2 DEF CursorInv
  <2>4. BatchInv' /\ DisjointInv' /\ FinishedInv'
    BY <1>0, <2>1 DEF BatchInv, DisjointInv, FinishedInv
  <2>5. CallerInv'
    BY <1>0, <2>1 DEF CallerInv, ScopeEnded
  <2>6. PanicInv'
    BY <2>1 DEF PanicInv
  <2> QED BY <2>3, <2>4, <2>5, <2>6
<1>2. CASE Indices[next[w]] \notin panics
  <2>1. /\ next' = [next EXCEPT ![w] = next[w] + 1]
        /\ pc' = IF next[w] + 1 < end[w] THEN pc ELSE [pc EXCEPT ![w] = "claim"]
    BY <1>2 DEF run
  <2>2. Finished' = Finished
    BY <1>0, <2>1 DEF Finished
  <2>3. Types' /\ CursorInv'
    BY <1>0, <2>1, <2>2 DEF CursorInv
  <2>4. BatchInv' /\ DisjointInv' /\ FinishedInv'
    BY <1>0, <1>b, <2>1 DEF BatchInv, DisjointInv, FinishedInv
  <2>5. CallerInv'
    BY <1>0, <2>1 DEF CallerInv, ScopeEnded
  <2>6. PanicInv'
    <3> SUFFICES ASSUME \A v \in Workers : pc'[v] # "panicked",
                        NEW p \in Positions, p <= cursor', Indices[p] \in panics
                 PROVE  Held(p)'
      BY <1>p DEF PanicInv
    <3>1. Held(p) /\ p # next[w]
      BY <1>0, <1>2, <2>1 DEF PanicInv
    <3>2. PICK v \in Workers : pc[v] = "run" /\ next[v] <= p /\ p < end[v]
      BY <3>1 DEF Held
    <3>3. CASE v = w
      BY <1>0, <1>b, <2>1, <3>1, <3>2, <3>3 DEF Held, Positions
    <3>4. CASE v # w
      BY <1>0, <2>1, <3>2, <3>4 DEF Held
    <3> QED BY <3>3, <3>4
  <2> QED BY <2>3, <2>4, <2>5, <2>6
<1> QED BY <1>1, <1>2

LEMMA CallerStep ==
  ASSUME IInv, Caller
  PROVE  IInv'
<1> USE DEF IInv, Types, Running, Ended, worker
<1>1. CASE spawn
  <2>1. UNCHANGED <<panics, cursor, next, end>>
    BY <1>1 DEF spawn
  <2>2. CASE pc' = [pc EXCEPT ![turn] = "claim"]
    <3>1. caller = "spawn" /\ turn \in Workers /\ pc[turn] = "unborn"
      BY <1>1 DEF spawn, CallerInv, Workers
    <3>2. \/ turn = jobs /\ caller' = "join" /\ turn' = 1
          \/ turn # jobs /\ caller' = "spawn" /\ turn' = turn + 1
          \/ caller' = "unwind" /\ turn' = turn
      BY <1>1, <3>1 DEF spawn
    <3>3. Finished' = Finished
      BY <2>2, <3>1 DEF Finished
    <3>4. Types' /\ CursorInv'
      BY <2>1, <2>2, <3>1, <3>2, <3>3 DEF CursorInv, Workers
    <3>5. BatchInv' /\ DisjointInv' /\ FinishedInv'
      BY <2>1, <2>2, <3>1 DEF BatchInv, DisjointInv, FinishedInv
    <3>6. CallerInv'
      BY <2>2, <3>1, <3>2, Sizes DEF CallerInv, Workers
    <3>7. PanicInv'
      BY <2>1, <2>2, <3>1 DEF PanicInv, Held
    <3> QED BY <3>4, <3>5, <3>6, <3>7
  <2>3. CASE caller' = "unwind" /\ UNCHANGED <<pc, turn>>
    BY <2>1, <2>3 DEF CursorInv, BatchInv, DisjointInv, FinishedInv,
         CallerInv, PanicInv, Held, Finished
  <2> QED BY <1>1, <2>2, <2>3 DEF spawn
<1>2. CASE join
  <2>1. UNCHANGED <<panics, cursor, pc, next, end>>
    BY <1>2 DEF join
  <2>2. caller = "join" /\ turn \in Workers /\ pc[turn] \in Ended
    BY <1>2 DEF join, CallerInv
  <2>3. Types' /\ CallerInv'
    <3>1. CASE pc[turn] = "panicked"
      BY <1>2, <2>1, <3>1 DEF join, CallerInv
    <3>2. CASE pc[turn] # "panicked"
      <4>1. turn' = turn + 1 /\ caller' = IF turn = jobs THEN "merge" ELSE "join"
        BY <1>2, <2>2, <3>2 DEF join
      <4>2. \A w \in Workers : w < turn + 1 => pc[w] = "finished"
        <5>1. turn \in Int /\ \A w \in Workers : w \in Int
          BY <2>2, Sizes DEF Workers
        <5>2. \A w \in Workers : w < turn + 1 => w < turn \/ w = turn
          BY <5>1
        <5> QED BY <2>2, <3>2, <5>2 DEF CallerInv
      <4>3. turn # jobs => turn + 1 \in Workers
        BY <2>2, Sizes DEF Workers
      <4>4. turn = jobs => \A w \in Workers : w < turn + 1
        BY Sizes DEF Workers
      <4> QED BY <2>1, <2>2, <4>1, <4>2, <4>3, <4>4 DEF CallerInv
    <3> QED BY <3>1, <3>2
  <2>4. CursorInv' /\ BatchInv' /\ DisjointInv' /\ FinishedInv' /\ PanicInv'
    BY <2>1 DEF CursorInv, BatchInv, DisjointInv, FinishedInv, PanicInv,
                Held, Finished
  <2> QED BY <2>3, <2>4
<1>3. CASE unwind \/ merge
  <2>1. UNCHANGED <<panics, cursor, pc, next, end, turn>>
    BY <1>3 DEF unwind, merge
  <2>2. Types' /\ CallerInv'
    BY <1>3, <2>1 DEF unwind, merge, CallerInv, ScopeEnded
  <2>3. CursorInv' /\ BatchInv' /\ DisjointInv' /\ FinishedInv' /\ PanicInv'
    BY <2>1 DEF CursorInv, BatchInv, DisjointInv, FinishedInv, PanicInv,
                Held, Finished
  <2> QED BY <2>2, <2>3
<1> QED BY <1>1, <1>2, <1>3 DEF Caller

LEMMA IInvStep == IInv /\ [Next]_vars => IInv'
<1> SUFFICES ASSUME IInv, [Next]_vars PROVE IInv'
  OBVIOUS
<1>1. CASE \E w \in Workers : Worker(w)
  BY <1>1, ClaimStep, RunStep DEF Worker
<1>2. CASE Caller
  BY <1>2, CallerStep
<1>3. CASE UNCHANGED vars
  BY <1>3 DEF vars, worker, IInv, Types, CursorInv, BatchInv, DisjointInv,
              FinishedInv, CallerInv, PanicInv, Held, Finished, ScopeEnded
<1> QED BY <1>1, <1>2, <1>3 DEF Next, Over

(* The invariant holds in every reachable state of Pool::map.              *)
THEOREM Invariance == Spec => []IInv
BY InitIInv, IInvStep, PTL DEF Spec

(* No position is ever in two workers' hands.                               *)
THEOREM NoJobTwice == Spec => []ClaimsAreDisjoint
<1>1. IInv => ClaimsAreDisjoint
  BY Sizes DEF IInv, Types, BatchInv, DisjointInv, ClaimsAreDisjoint, Pending
<1> QED BY <1>1, Invariance, PTL

(* A result means that no job panicked, and map leaves no worker running.   *)
THEOREM NoPanicSwallowed == Spec => []PanicIsRaised
<1>1. IInv => PanicIsRaised
  <2> SUFFICES ASSUME IInv PROVE PanicIsRaised
    OBVIOUS
  <2> USE DEF IInv, Types, CallerInv, ScopeEnded, Running
  <2>1. ASSUME caller = "returned", NEW p \in Positions
        PROVE  Indices[p] \notin panics
    <3>1. \A w \in Workers : pc[w] = "finished"
      BY <2>1
    <3>2. cursor >= N
      BY <3>1, Sizes DEF FinishedInv, Workers
    <3> QED BY <3>1, <3>2, Sizes DEF PanicInv, Held, Positions
  <2>2. caller \in {"returned", "raised"} => ScopeEnded
    OBVIOUS
  <2> QED BY <2>1, <2>2 DEF PanicIsRaised
<1> QED BY <1>1, Invariance, PTL
-----------------------------------------------------------------------------
(***************************************************************************)
(* Lists drawn from the job list: s holds the indices at the positions of  *)
(* P, each once, in some order.                                            *)
(***************************************************************************)
Drawing(h, s, P) ==
  /\ h \in Bijection(DOMAIN s, P)
  /\ \A k \in DOMAIN s : s[k] = Indices[h[k]]

Drawn(s, P) == \E h : Drawing(h, s, P)

LEMMA Drawings ==
  ASSUME NEW s, NEW P, NEW h
  PROVE  Drawing(h, s, P) <=>
           /\ h \in [DOMAIN s -> P]
           /\ \A j, k \in DOMAIN s : h[j] = h[k] => j = k
           /\ \A p \in P : \E k \in DOMAIN s : h[k] = p
           /\ \A k \in DOMAIN s : s[k] = Indices[h[k]]
BY DEF Drawing, Bijection, Injection, Surjection, IsInjective

LEMMA DrawnNothing == Drawn(<<>>, {})
<1> DEFINE h == [k \in {} |-> 0]
<1>1. DOMAIN <<>> = {}
  OBVIOUS
<1>2. Drawing(h, <<>>, {})
  BY <1>1, Drawings
<1> QED BY <1>2 DEF Drawn

LEMMA DrawnOne ==
  ASSUME NEW s \in Seq(Nat), NEW P, Drawn(s, P), NEW p, p \notin P, NEW i, i = Indices[p], i \in Nat
  PROVE  Drawn(Append(s, i), P \cup {p})
<1>1. PICK h : Drawing(h, s, P)
  BY DEF Drawn
<1>2. /\ h \in [DOMAIN s -> P]
      /\ \A j, k \in DOMAIN s : h[j] = h[k] => j = k
      /\ \A q \in P : \E k \in DOMAIN s : h[k] = q
      /\ \A k \in DOMAIN s : s[k] = Indices[h[k]]
  BY <1>1, Drawings
<1> DEFINE t == Append(s, i)
           n == Len(s) + 1
           g == [k \in DOMAIN t |-> IF k = n THEN p ELSE h[k]]
<1>3. /\ DOMAIN t = DOMAIN s \cup {n} /\ n \notin DOMAIN s
      /\ t[n] = i /\ \A k \in DOMAIN s : t[k] = s[k]
  OBVIOUS
<1> HIDE DEF t, n
<1>4. /\ g \in [DOMAIN t -> P \cup {p}]
      /\ \A j, k \in DOMAIN t : g[j] = g[k] => j = k
      /\ \A k \in DOMAIN t : t[k] = Indices[g[k]]
  BY <1>2, <1>3
<1>5. ASSUME NEW q \in P \cup {p} PROVE \E k \in DOMAIN t : g[k] = q
  <2>1. CASE q = p
    BY <1>3, <2>1
  <2>2. CASE q # p
    <3>1. PICK k \in DOMAIN s : h[k] = q
      BY <1>2, <2>2
    <3>2. k \in DOMAIN t /\ g[k] = q
      BY <1>3, <3>1
    <3> QED BY <3>2
  <2> QED BY <2>1, <2>2
<1> HIDE DEF g
<1>6. Drawing(g, t, P \cup {p})
  BY <1>4, <1>5, Drawings
<1> QED BY <1>6 DEF Drawn, t

LEMMA DrawnBoth ==
  ASSUME NEW s \in Seq(Nat), NEW t \in Seq(Nat), NEW P, NEW Q, P \cap Q = {},
         Drawn(s, P), Drawn(t, Q)
  PROVE  Drawn(s \o t, P \cup Q)
<1>1. PICK h : Drawing(h, s, P)
  BY DEF Drawn
<1>2. PICK g : Drawing(g, t, Q)
  BY DEF Drawn
<1>3. /\ h \in [DOMAIN s -> P]
      /\ \A j, k \in DOMAIN s : h[j] = h[k] => j = k
      /\ \A q \in P : \E k \in DOMAIN s : h[k] = q
      /\ \A k \in DOMAIN s : s[k] = Indices[h[k]]
  BY <1>1, Drawings
<1>4. /\ g \in [DOMAIN t -> Q]
      /\ \A j, k \in DOMAIN t : g[j] = g[k] => j = k
      /\ \A q \in Q : \E k \in DOMAIN t : g[k] = q
      /\ \A k \in DOMAIN t : t[k] = Indices[g[k]]
  BY <1>2, Drawings
<1> DEFINE u == s \o t
           n == Len(s)
           f == [k \in DOMAIN u |-> IF k <= n THEN h[k] ELSE g[k - n]]
<1>5. /\ n \in Nat /\ DOMAIN u \subseteq Nat
      /\ \A k \in DOMAIN u : IF k <= n THEN k \in DOMAIN s /\ u[k] = s[k]
                                       ELSE k - n \in DOMAIN t /\ u[k] = t[k - n]
      /\ \A k \in DOMAIN s : k \in DOMAIN u /\ k <= n
      /\ \A k \in DOMAIN t : k + n \in DOMAIN u /\ ~(k + n <= n) /\ k + n - n = k
  OBVIOUS
<1> HIDE DEF u, n
<1>6. ASSUME NEW k \in DOMAIN u
      PROVE  /\ f[k] \in P \cup Q /\ u[k] = Indices[f[k]]
             /\ k <= n => f[k] \in P /\ f[k] = h[k] /\ k \in DOMAIN s
             /\ ~(k <= n) => f[k] \in Q /\ f[k] = g[k - n] /\ k - n \in DOMAIN t
  <2>1. CASE k <= n
    BY <1>3, <1>5, <2>1
  <2>2. CASE ~(k <= n)
    <3>1. k - n \in DOMAIN t /\ u[k] = t[k - n] /\ f[k] = g[k - n]
      BY <1>5, <2>2
    <3> HIDE DEF f
    <3> QED BY <1>4, <2>2, <3>1
  <2> QED BY <2>1, <2>2
<1>7. f \in [DOMAIN u -> P \cup Q]
  BY <1>6
<1> HIDE DEF f
<1>8. ASSUME NEW j \in DOMAIN u, NEW k \in DOMAIN u, f[j] = f[k] PROVE j = k
  <2>1. (j <= n) <=> (k <= n)
    BY <1>6, <1>8
  <2>2. CASE j <= n
    <3>1. j \in DOMAIN s /\ k \in DOMAIN s /\ h[j] = h[k]
      BY <1>6, <1>8, <2>1, <2>2
    <3> QED BY <1>3, <3>1
  <2>3. CASE ~(j <= n)
    <3>1. /\ j - n \in DOMAIN t /\ k - n \in DOMAIN t /\ g[j - n] = g[k - n]
      BY <1>6, <1>8, <2>1, <2>3
    <3>2. j - n = k - n
      BY <1>4, <3>1
    <3>3. j \in Nat /\ k \in Nat /\ n \in Nat
      BY <1>5
    <3> QED BY <3>2, <3>3
  <2> QED BY <2>2, <2>3
<1>9. ASSUME NEW q \in P \cup Q PROVE \E k \in DOMAIN u : f[k] = q
  <2>1. CASE q \in P
    <3>1. PICK k \in DOMAIN s : h[k] = q
      BY <1>3, <2>1
    <3> QED BY <1>5, <1>6, <3>1
  <2>2. CASE q \in Q
    <3>1. PICK k \in DOMAIN t : g[k] = q
      BY <1>4, <2>2
    <3>2. PICK m \in DOMAIN u : ~(m <= n) /\ m - n = k
      BY <1>5
    <3>3. f[m] = g[m - n]
      BY <1>6, <3>2
    <3> QED BY <3>1, <3>2, <3>3
  <2> QED BY <2>1, <2>2
<1>10. Drawing(f, u, P \cup Q)
  BY <1>6, <1>7, <1>8, <1>9, Drawings
<1> QED BY <1>10 DEF Drawn, u
-----------------------------------------------------------------------------
(***************************************************************************)
(* The stable sort.                                                        *)
(***************************************************************************)
Before(s, j, k) == s[j] < s[k] \/ (s[j] = s[k] /\ j <= k)

LEMMA BeforeIsTotal ==
  ASSUME NEW s \in Seq(Nat)
  PROVE  /\ \A k \in DOMAIN s : Before(s, k, k)
         /\ \A j, k \in DOMAIN s : Before(s, j, k) \/ Before(s, k, j)
         /\ \A j, k \in DOMAIN s : Before(s, j, k) /\ Before(s, k, j) => j = k
         /\ \A i, j, k \in DOMAIN s : Before(s, i, j) /\ Before(s, j, k) => Before(s, i, k)
<1>1. \A k \in DOMAIN s : k \in Nat /\ s[k] \in Nat
  OBVIOUS
<1> QED BY <1>1 DEF Before

LEMMA Ranked ==
  ASSUME NEW s \in Seq(Nat)
  PROVE  /\ \A k \in DOMAIN s : Rank(s, k) \in 1 .. Len(s)
         /\ \A j, k \in DOMAIN s : j # k /\ Before(s, j, k) => Rank(s, j) < Rank(s, k)
<1> DEFINE low(k) == { j \in DOMAIN s : Before(s, j, k) }
<1>1. \A k : Rank(s, k) = Cardinality(low(k))
  BY Zenon DEF Rank, Before
<1>2. IsFiniteSet(DOMAIN s) /\ Cardinality(DOMAIN s) = Len(s) /\ Len(s) \in Nat
  <2>1. Len(s) \in Nat /\ DOMAIN s = 1 .. Len(s)
    OBVIOUS
  <2>2. IsFiniteSet(1 .. Len(s)) /\ Cardinality(1 .. Len(s)) = Len(s)
    BY <2>1, FS_Interval
  <2> QED BY <2>1, <2>2
<1>3. ASSUME NEW k \in DOMAIN s
      PROVE  /\ k \in low(k) /\ IsFiniteSet(low(k))
             /\ Cardinality(low(k)) \in Nat /\ Cardinality(low(k)) <= Len(s)
             /\ Cardinality(low(k)) # 0
  <2> DEFINE L == low(k)
  <2>1. L \in SUBSET DOMAIN s /\ k \in L
    BY BeforeIsTotal
  <2> HIDE DEF L
  <2>2. IsFiniteSet(L) /\ Cardinality(L) <= Len(s)
    BY <1>2, <2>1, FS_Subset, Zenon
  <2>3. Cardinality(L) \in Nat
    BY <2>2, FS_CardinalityType
  <2>4. Cardinality(L) # 0
    BY <2>1, <2>2, FS_EmptySet
  <2> QED BY <2>1, <2>2, <2>3, <2>4 DEF L
<1>4. ASSUME NEW j \in DOMAIN s, NEW k \in DOMAIN s, j # k, Before(s, j, k)
      PROVE  Cardinality(low(j)) < Cardinality(low(k))
  <2> DEFINE A == low(j)
             B == low(k)
  <2>1. A \subseteq B /\ k \in B /\ k \notin A
    BY <1>4, BeforeIsTotal
  <2>2. IsFiniteSet(B) /\ Cardinality(A) \in Nat /\ Cardinality(B) \in Nat
    BY <1>3
  <2> HIDE DEF A, B
  <2>3. Cardinality(A) <= Cardinality(B) /\ (Cardinality(B) = Cardinality(A) => B = A)
    BY <2>1, <2>2, FS_Subset, Zenon
  <2>4. Cardinality(A) < Cardinality(B)
    BY <2>1, <2>2, <2>3
  <2> QED BY <2>4 DEF A, B
<1> HIDE DEF low
<1>5. ASSUME NEW k \in DOMAIN s PROVE Rank(s, k) \in 1 .. Len(s)
  BY <1>1, <1>2, <1>3
<1>6. \A j, k \in DOMAIN s : j # k /\ Before(s, j, k) => Rank(s, j) < Rank(s, k)
  BY <1>1, <1>4, Zenon
<1> QED BY <1>5, <1>6

(* Sorting reorders a list, and the least comes first.                      *)
Sorted(s) == \A a, b \in DOMAIN s : a < b => s[a] <= s[b]

LEMMA InOrderIsSorted ==
  ASSUME NEW s \in Seq(Nat)
  PROVE  /\ InOrder(s) \in Seq(Nat) /\ Sorted(InOrder(s))
         /\ \E g \in Bijection(DOMAIN InOrder(s), DOMAIN s) :
              \A r \in DOMAIN InOrder(s) : InOrder(s)[r] = s[g[r]]
<1> DEFINE T == 1 .. Len(s)
           D == DOMAIN s
           rank == [k \in D |-> Rank(s, k)]
           g == [r \in T |-> CHOOSE k \in D : Rank(s, k) = r]
<1>1. D = T /\ Len(s) \in Nat /\ \A k \in D : s[k] \in Nat
  OBVIOUS
<1>2. IsFiniteSet(D) /\ IsFiniteSet(T) /\ Cardinality(D) = Cardinality(T)
  <2>1. IsFiniteSet(1 .. Len(s))
    BY <1>1, FS_Interval
  <2> QED BY <1>1, <2>1
<1>3. rank \in [D -> T] /\ \A k \in D : rank[k] = Rank(s, k)
  BY Ranked
<1>4. \A k \in D : k \in Int /\ Rank(s, k) \in Int
  BY <1>1, Ranked
<1>5. \A j, k \in D : rank[j] = rank[k] => j = k
  <2> SUFFICES ASSUME NEW j \in D, NEW k \in D, j # k PROVE rank[j] # rank[k]
    OBVIOUS
  <2>1. Before(s, j, k) \/ Before(s, k, j)
    BY BeforeIsTotal
  <2>2. Rank(s, j) < Rank(s, k) \/ Rank(s, k) < Rank(s, j)
    BY <2>1, Ranked
  <2> QED BY <1>3, <1>4, <2>2
<1> HIDE DEF rank
<1>6. rank \in Injection(D, T)
  BY <1>3, <1>5 DEF Injection, IsInjective
<1> HIDE DEF T, D
<1>7. rank \in Surjection(D, T)
  BY <1>2, <1>6, FS_Injection
<1>8. \A r \in T : \E k \in D : Rank(s, k) = r
  BY <1>3, <1>7 DEF Surjection
<1>9. g \in [T -> D] /\ \A r \in T : g[r] \in D /\ Rank(s, g[r]) = r
  <2>1. ASSUME NEW r \in T PROVE g[r] \in D /\ Rank(s, g[r]) = r
    <3>1. g[r] = CHOOSE k \in D : Rank(s, k) = r
      OBVIOUS
    <3>2. \E k \in D : Rank(s, k) = r
      BY <1>8
    <3> HIDE DEF g
    <3> QED BY <3>1, <3>2, Zenon
  <2>2. g = [r \in T |-> g[r]]
    OBVIOUS
  <2> HIDE DEF g
  <2> QED BY <2>1, <2>2
<1>10. \A k \in D : Rank(s, k) \in T /\ g[Rank(s, k)] = k
  BY <1>3, <1>5, <1>9
<1>11. g \in Bijection(T, D)
  <2>1. \A a, b \in T : g[a] = g[b] => a = b
    BY <1>9
  <2>2. \A k \in D : \E r \in T : g[r] = k
    BY <1>10
  <2> HIDE DEF g
  <2> QED BY <1>9, <2>1, <2>2 DEF Bijection, Injection, Surjection, IsInjective
<1>12. InOrder(s) = [r \in T |-> s[g[r]]]
  <2>1. \A r \in T : g[r] = CHOOSE k \in D : Rank(s, k) = r
    OBVIOUS
  <2>2. InOrder(s) = [r \in T |-> s[CHOOSE k \in D : Rank(s, k) = r]]
    BY Zenon DEF InOrder, T, D
  <2> HIDE DEF g
  <2> QED BY <2>1, <2>2
<1> HIDE DEF g
<1>13. DOMAIN InOrder(s) = T /\ \A r \in T : InOrder(s)[r] = s[g[r]] /\ InOrder(s)[r] \in Nat
  BY <1>1, <1>9, <1>12
<1>14. InOrder(s) \in Seq(Nat)
  BY <1>1, <1>9, <1>12 DEF T
<1>15. Sorted(InOrder(s))
  <2> SUFFICES ASSUME NEW a \in T, NEW b \in T, a < b
               PROVE  s[g[a]] <= s[g[b]]
    BY <1>13 DEF Sorted
  <2>1. g[a] \in D /\ g[b] \in D /\ Rank(s, g[a]) = a /\ Rank(s, g[b]) = b
    BY <1>9
  <2>2. a \in Int /\ b \in Int
    BY DEF T
  <2>3. Before(s, g[a], g[b])
    <3>1. g[a] # g[b]
      BY <2>1, <2>2
    <3>2. Before(s, g[b], g[a]) => b < a
      BY <2>1, <3>1, Ranked DEF D
    <3>3. Before(s, g[a], g[b]) \/ Before(s, g[b], g[a])
      BY <2>1, BeforeIsTotal DEF D
    <3> QED BY <2>2, <3>2, <3>3
  <2> QED BY <1>1, <2>1, <2>3 DEF Before
<1> QED BY <1>11, <1>13, <1>14, <1>15, Zenon DEF D

(* A list that reorders one drawn from some positions is drawn from them.   *)
LEMMA DrawnInOrder ==
  ASSUME NEW s \in Seq(Nat), NEW P, Drawn(s, P)
  PROVE  Drawn(InOrder(s), P)
<1> DEFINE r == InOrder(s)
<1>1. PICK h : Drawing(h, s, P)
  BY DEF Drawn
<1>2. /\ h \in [DOMAIN s -> P]
      /\ \A j, k \in DOMAIN s : h[j] = h[k] => j = k
      /\ \A q \in P : \E k \in DOMAIN s : h[k] = q
      /\ \A k \in DOMAIN s : s[k] = Indices[h[k]]
  BY <1>1, Drawings
<1>3. PICK g \in Bijection(DOMAIN r, DOMAIN s) : \A a \in DOMAIN r : r[a] = s[g[a]]
  BY InOrderIsSorted, Zenon
<1>4. /\ g \in [DOMAIN r -> DOMAIN s]
      /\ \A a, b \in DOMAIN r : g[a] = g[b] => a = b
      /\ \A k \in DOMAIN s : \E a \in DOMAIN r : g[a] = k
  BY DEF Bijection, Injection, Surjection, IsInjective
<1> HIDE DEF r
<1> DEFINE f == [a \in DOMAIN r |-> h[g[a]]]
<1>5. f \in [DOMAIN r -> P] /\ \A a \in DOMAIN r : f[a] = h[g[a]] /\ g[a] \in DOMAIN s
  BY <1>2, <1>4
<1> HIDE DEF f
<1>6. \A a, b \in DOMAIN r : f[a] = f[b] => a = b
  BY <1>2, <1>4, <1>5
<1>7. ASSUME NEW q \in P PROVE \E a \in DOMAIN r : f[a] = q
  <2>1. PICK k \in DOMAIN s : h[k] = q
    BY <1>2
  <2>2. PICK a \in DOMAIN r : g[a] = k
    BY <1>4
  <2> QED BY <1>5, <2>1, <2>2
<1>8. \A a \in DOMAIN r : r[a] = Indices[f[a]]
  BY <1>2, <1>3, <1>5
<1>9. Drawing(f, r, P)
  BY <1>5, <1>6, <1>7, <1>8, Drawings
<1> QED BY <1>9, Zenon DEF Drawn, r

(* It has each index as often as those positions do.                        *)
LEMMA DrawnTimes ==
  ASSUME NEW s, NEW P \in SUBSET Positions, Drawn(s, P), NEW i
  PROVE  Times(s, i) = Cardinality({ p \in P : Indices[p] = i })
<1> DEFINE A == { k \in DOMAIN s : s[k] = i }
           B == { p \in P : Indices[p] = i }
<1>1. PICK h : Drawing(h, s, P)
  BY DEF Drawn
<1>2. /\ h \in [DOMAIN s -> P]
      /\ \A j, k \in DOMAIN s : h[j] = h[k] => j = k
      /\ \A q \in P : \E k \in DOMAIN s : h[k] = q
      /\ \A k \in DOMAIN s : s[k] = Indices[h[k]]
  BY <1>1, Drawings
<1> DEFINE g == [k \in A |-> h[k]]
<1>3. g \in [A -> B] /\ \A k \in A : k \in DOMAIN s /\ g[k] = h[k]
  BY <1>2
<1>4. \A j, k \in A : g[j] = g[k] => j = k
  BY <1>2
<1>5. \A p \in B : \E k \in A : g[k] = p
  <2> SUFFICES ASSUME NEW p \in P, Indices[p] = i
               PROVE  \E k \in A : g[k] = p
    OBVIOUS
  <2>1. PICK k \in DOMAIN s : h[k] = p
    BY <1>2
  <2> QED BY <1>2, <2>1
<1>6. IsFiniteSet(B)
  <2>1. N \in Nat
    BY Sizes
  <2>2. IsFiniteSet(Positions)
    BY <2>1, FS_Interval DEF Positions
  <2>3. B \in SUBSET Positions
    OBVIOUS
  <2> HIDE DEF B
  <2> QED BY <2>2, <2>3, FS_Subset
<1> HIDE DEF A, B, g
<1>7. g \in Bijection(A, B)
  BY <1>3, <1>4, <1>5 DEF Bijection, Injection, Surjection, IsInjective
<1>8. IsFiniteSet(A) /\ Cardinality(A) = Cardinality(B)
  <2>1. g \in Injection(A, B) /\ g \in Surjection(A, B)
    BY <1>7 DEF Bijection
  <2> QED BY <1>6, <2>1, FS_Injection
<1> QED BY <1>8, Zenon DEF Times, A, B
-----------------------------------------------------------------------------
(***************************************************************************)
(* What the workers have found.  P gives the positions whose results each  *)
(* worker holds: below the cursor, run, and in nobody else's share.  While *)
(* nobody has panicked, they are all the positions run that give one.      *)
(***************************************************************************)
Kept == { p \in Positions : Indices[p] \in Keeps }

Joined(P, n) == { p \in Kept : \E w \in Workers : w < n /\ p \in P[w] }

Shares(P) ==
  /\ P \in [Workers -> SUBSET Kept]
  /\ \A v, w \in Workers : v # w => P[v] \cap P[w] = {}
  /\ \A w \in Workers : Drawn(out[w], P[w])
  /\ \A w \in Workers : \A p \in P[w] : p <= cursor /\ ~Held(p)
  /\ (\A w \in Workers : pc[w] # "panicked") =>
       \A p \in Kept : p <= cursor => Held(p) \/ \E w \in Workers : p \in P[w]
  /\ caller \in {"join", "merge"} => Drawn(parts, Joined(P, turn))

ListInv ==
  /\ panics \subseteq Panics /\ turn \in 1 .. (jobs + 1)
  /\ out \in [Workers -> Seq(Nat)] /\ parts \in Seq(Nat) /\ result \in Seq(Nat)
  /\ caller = "spawn" => parts = <<>>
  /\ caller = "merge" => turn = jobs + 1
  /\ \E P : Shares(P)
  /\ caller = "returned" => Sorted(result) /\ Drawn(result, Kept)

LEMMA InitLists == Init => ListInv
<1> SUFFICES ASSUME Init PROVE ListInv
  OBVIOUS
<1> DEFINE P == [w \in Workers |-> {}]
<1>1. \A w \in Workers : out[w] = <<>> /\ P[w] = {} /\ pc[w] = "unborn"
  BY DEF Init
<1>2. \A w \in Workers : Drawn(out[w], P[w])
  BY <1>1, DrawnNothing, Zenon
<1>3. \A p \in Kept : p \in Positions /\ ~(p <= 0)
  BY Sizes DEF Kept, Positions
<1>4. Shares(P)
  BY <1>1, <1>2, <1>3 DEF Init, Shares
<1>5. 1 \in 1 .. (jobs + 1)
  BY Sizes
<1>6. out \in [Workers -> Seq(Nat)] /\ <<>> \in Seq(Nat)
  BY DEF Init
<1> HIDE DEF P
<1> QED BY <1>4, <1>5, <1>6 DEF Init, ListInv

LEMMA KeptIs == \A p \in Kept : p \in Nat /\ p <= N /\ p >= 1 /\ p \in Positions
BY Sizes DEF Kept, Positions

LEMMA ClaimLists ==
  ASSUME IInv, ListInv, NEW w \in Workers, claim(w)
  PROVE  ListInv'
<1>1. PICK P : Shares(P)
  BY DEF ListInv
<1>2. UNCHANGED <<panics, out, caller, turn, parts, result>> /\ pc[w] = "claim"
  BY DEF claim, fetch_add
<1>3. cursor' = cursor + Batch /\ cursor \in Nat /\ Batch \in Nat
  BY NoWrap, Sizes DEF IInv, Types
<1>4. /\ \A p \in Kept : p <= cursor => (Held(p)' <=> Held(p))
      /\ \A p \in Kept : p <= cursor' /\ ~(p <= cursor) => Held(p)'
  <2>1. CASE cursor >= N
    <3>1. pc' = [pc EXCEPT ![w] = "finished"] /\ UNCHANGED <<next, end>>
      BY <2>1, Sizes DEF claim, fetch_add
    <3>2. \A p : Held(p)' <=> Held(p)
      BY <1>2, <3>1 DEF Held, IInv, Types
    <3> QED BY <1>2, <1>3, <2>1, <3>1, <3>2, KeptIs, Sizes DEF IInv, Types
  <2>2. CASE cursor < N
    <3> DEFINE stop == IF cursor + Batch < N THEN cursor + Batch ELSE N
    <3>1. /\ pc' = [pc EXCEPT ![w] = "run"]
          /\ next' = [next EXCEPT ![w] = cursor + 1]
          /\ end' = [end EXCEPT ![w] = stop + 1]
      BY <1>3, <2>2, Sizes DEF claim, fetch_add
    <3>2. stop \in Nat /\ stop <= N /\ \A p \in Kept : p <= cursor' => p < stop + 1
      BY <1>3, <2>2, KeptIs, Sizes
    <3> HIDE DEF stop
    <3>3. /\ pc'[w] = "run" /\ next'[w] = cursor + 1 /\ end'[w] = stop + 1
          /\ \A v \in Workers : v # w => pc'[v] = pc[v] /\ next'[v] = next[v] /\ end'[v] = end[v]
      BY <3>1 DEF IInv, Types
    <3>4. ASSUME NEW p \in Kept, p <= cursor PROVE Held(p)' <=> Held(p)
      <4>1. ~(next'[w] <= p)
        BY <1>3, <3>3, <3>4, KeptIs
      <4> QED BY <1>2, <3>3, <4>1 DEF Held
    <3>5. ASSUME NEW p \in Kept, p <= cursor', ~(p <= cursor) PROVE Held(p)'
      BY <1>3, <3>2, <3>3, <3>5, KeptIs DEF Held
    <3> QED BY <1>2, <3>3, <3>4, <3>5
  <2> QED BY <1>3, <2>1, <2>2, Sizes
<1>5. \A v \in Workers : pc'[v] # "panicked" <=> pc[v] # "panicked"
  BY <1>2 DEF claim, fetch_add, IInv, Types
<1>6. \A p \in Kept : p <= cursor => p <= cursor'
  BY <1>3, KeptIs
<1>7. Shares(P)'
  BY <1>1, <1>2, <1>4, <1>5, <1>6 DEF Shares
<1> QED BY <1>2, <1>7 DEF ListInv

LEMMA RunLists ==
  ASSUME IInv, ListInv, NEW w \in Workers, run(w)
  PROVE  ListInv'
<1> DEFINE q == next[w]
<1>1. PICK P : Shares(P)
  BY DEF ListInv
<1>2. UNCHANGED <<panics, cursor, end, caller, turn, parts, result>> /\ pc[w] = "run"
  BY DEF run
<1>3. q \in Positions /\ q < end[w] /\ q \in Nat /\ Held(q) /\ q <= cursor
  BY <1>2, Sizes DEF IInv, Types, BatchInv, Positions, Held
<1>4. /\ ~(caller = "merge") /\ (caller = "join" => ~(w < turn)) /\ caller # "returned"
  BY <1>2 DEF IInv, CallerInv
<1>5. Indices[q] \in Nat
  BY <1>3, IndicesAssumption DEF Positions, N
<1>6. CASE Indices[q] \in panics
  <2>1. pc' = [pc EXCEPT ![w] = "panicked"] /\ UNCHANGED <<next, out>>
    BY <1>6 DEF run
  <2>2. \A p : Held(p)' => Held(p)
    BY <1>2, <2>1 DEF Held, IInv, Types
  <2>3. pc'[w] = "panicked"
    BY <2>1 DEF IInv, Types
  <2>4. Shares(P)'
    BY <1>1, <1>2, <2>1, <2>2, <2>3 DEF Shares
  <2> QED BY <1>2, <2>1, <2>4 DEF ListInv
<1>7. CASE Indices[q] \notin panics
  <2>1. /\ next' = [next EXCEPT ![w] = q + 1]
        /\ pc' = IF q + 1 < end[w] THEN pc ELSE [pc EXCEPT ![w] = "claim"]
        /\ out' = IF Indices[q] \in Keeps THEN [out EXCEPT ![w] = Append(@, Indices[q])] ELSE out
    BY <1>7 DEF run
  <2>2. \A v \in Workers : pc'[v] # "panicked" <=> pc[v] # "panicked"
    BY <1>2, <2>1 DEF IInv, Types
  <2>3. ASSUME NEW p \in Kept PROVE Held(p)' <=> Held(p) /\ p # q
    <3>1. p \in Nat /\ end[w] \in Nat
      BY KeptIs DEF IInv, Types
    <3>2. ASSUME NEW v \in Workers, v # w
          PROVE  /\ pc'[v] = pc[v] /\ next'[v] = next[v] /\ end'[v] = end[v]
                 /\ pc[v] = "run" => ~(next[v] <= q /\ q < end[v])
      <4>1. pc'[v] = pc[v] /\ next'[v] = next[v] /\ end'[v] = end[v]
        BY <1>2, <2>1, <3>2 DEF IInv, Types
      <4>2. pc[v] = "run" => end[v] <= q \/ end[w] <= next[v]
        BY <1>2, <3>2 DEF IInv, DisjointInv
      <4> QED BY <1>3, <3>1, <4>1, <4>2 DEF IInv, Types
    <3>3. /\ next'[w] = q + 1 /\ end'[w] = end[w]
          /\ pc'[w] = "run" <=> q + 1 < end[w]
      BY <1>2, <2>1 DEF IInv, Types
    <3>4. (pc'[w] = "run" /\ next'[w] <= p /\ p < end'[w]) <=> (q <= p /\ p < end[w] /\ p # q)
      BY <1>3, <3>1, <3>3
    <3> QED BY <1>2, <3>2, <3>4 DEF Held
  <2>0. PICK Q : Q = IF Indices[q] \in Keeps THEN [P EXCEPT ![w] = @ \cup {q}] ELSE P
    OBVIOUS
  <2>4. /\ P \in [Workers -> SUBSET Kept] /\ \A v \in Workers : q \notin P[v]
        /\ out \in [Workers -> Seq(Nat)]
    BY <1>1, <1>3 DEF Shares, ListInv
  <2>5. q \in Kept <=> Indices[q] \in Keeps
    BY <1>3 DEF Kept
  <2>6. /\ Q \in [Workers -> SUBSET Kept]
        /\ \A v \in Workers : v # w => Q[v] = P[v] /\ out'[v] = out[v]
        /\ Q[w] = IF q \in Kept THEN P[w] \cup {q} ELSE P[w]
        /\ out'[w] = IF q \in Kept THEN Append(out[w], Indices[q]) ELSE out[w]
        /\ out' \in [Workers -> Seq(Nat)]
    BY <1>5, <2>0, <2>1, <2>4, <2>5
  <2> HIDE DEF q
  <2>7. \A v, u \in Workers : v # u => Q[v] \cap Q[u] = {}
    <3> SUFFICES ASSUME NEW v \in Workers, NEW u \in Workers, v # u,
                        NEW p, p \in Q[v], p \in Q[u]
                 PROVE  FALSE
      OBVIOUS
    <3>1. p \in P[v] \/ (v = w /\ p = q)
      BY <2>6
    <3>2. p \in P[u] \/ (u = w /\ p = q)
      BY <2>6
    <3>3. P[v] \cap P[u] = {}
      BY <1>1 DEF Shares
    <3> QED BY <2>4, <3>1, <3>2, <3>3
  <2>8. \A v \in Workers : Drawn(out'[v], Q[v])
    <3>1. q \in Kept => Drawn(Append(out[w], Indices[q]), P[w] \cup {q})
      <4>1. out[w] \in Seq(Nat) /\ Drawn(out[w], P[w]) /\ q \notin P[w]
        BY <1>1, <2>4 DEF Shares
      <4> QED BY <1>5, <4>1, DrawnOne
    <3> QED BY <1>1, <2>6, <3>1 DEF Shares
  <2>9. \A v \in Workers : \A p \in Q[v] : p <= cursor /\ ~Held(p)'
    <3> SUFFICES ASSUME NEW v \in Workers, NEW p \in Q[v] PROVE p <= cursor /\ ~Held(p)'
      OBVIOUS
    <3>1. p \in Kept /\ (p \in P[v] \/ p = q)
      BY <2>6
    <3> QED BY <1>1, <1>3, <2>3, <3>1 DEF Shares
  <2>10. (\A v \in Workers : pc[v] # "panicked") =>
           \A p \in Kept : p <= cursor => Held(p)' \/ \E v \in Workers : p \in Q[v]
    <3> SUFFICES ASSUME \A v \in Workers : pc[v] # "panicked", NEW p \in Kept, p <= cursor, ~Held(p)'
                 PROVE  \E v \in Workers : p \in Q[v]
      OBVIOUS
    <3>1. CASE p = q
      BY <2>6, <3>1
    <3>2. CASE p # q
      <4>1. PICK v \in Workers : p \in P[v]
        BY <1>1, <2>3, <3>2 DEF Shares
      <4> QED BY <2>6, <4>1
    <3> QED BY <3>1, <3>2
  <2>11. caller = "join" => Drawn(parts, Joined(Q, turn))
    <3>1. caller = "join" => Joined(Q, turn) = Joined(P, turn)
      BY <1>4, <2>6 DEF Joined
    <3>2. caller \in {"join", "merge"} => Drawn(parts, Joined(P, turn))
      BY <1>1, Zenon DEF Shares
    <3> QED BY <3>1, <3>2
  <2>12. /\ cursor' = cursor /\ caller' = caller /\ turn' = turn /\ parts' = parts
         /\ panics' = panics /\ result' = result
    BY <1>2
  <2>13. Shares(Q)'
    <3>1. caller' \in {"join", "merge"} => caller = "join"
      BY <1>4, <2>12
    <3>2. caller' \in {"join", "merge"} => Drawn(parts', Joined(Q, turn'))
      BY <2>11, <2>12, <3>1
    <3>3. \A v \in Workers : \A p \in Q[v] : p <= cursor' /\ ~Held(p)'
      BY <2>9, <2>12
    <3>4. (\A v \in Workers : pc'[v] # "panicked") =>
            \A p \in Kept : p <= cursor' => Held(p)' \/ \E v \in Workers : p \in Q[v]
      BY <2>2, <2>10, <2>12
    <3>5. Q \in [Workers -> SUBSET Kept]
      BY <2>6
    <3>6. /\ Q \in [Workers -> SUBSET Kept]
          /\ \A v, u \in Workers : v # u => Q[v] \cap Q[u] = {}
          /\ \A v \in Workers : Drawn(out'[v], Q[v])
          /\ \A v \in Workers : \A p \in Q[v] : p <= cursor' /\ ~Held(p)'
          /\ (\A v \in Workers : pc'[v] # "panicked") =>
               \A p \in Kept : p <= cursor' => Held(p)' \/ \E v \in Workers : p \in Q[v]
          /\ caller' \in {"join", "merge"} => Drawn(parts', Joined(Q, turn'))
      BY <2>7, <2>8, <3>2, <3>3, <3>4, <3>5, Zenon
    <3> QED BY <3>6, Zenon DEF Shares
  <2> QED BY <1>4, <2>6, <2>12, <2>13 DEF ListInv
<1> QED BY <1>6, <1>7

LEMMA CallerLists ==
  ASSUME IInv, ListInv, Caller
  PROVE  ListInv'
<1>1. PICK P : Shares(P)
  BY DEF ListInv
<1>2. /\ out \in [Workers -> Seq(Nat)] /\ parts \in Seq(Nat)
      /\ P \in [Workers -> SUBSET Kept] /\ \A v, w \in Workers : v # w => P[v] \cap P[w] = {}
      /\ \A w \in Workers : Drawn(out[w], P[w])
  BY <1>1 DEF ListInv, Shares
(* What each part of Shares but the last needs of a step of the caller.     *)
<1>3. ASSUME UNCHANGED <<cursor, out>>, \A p \in Kept : Held(p)' <=> Held(p),
             \A v \in Workers : pc'[v] # "panicked" <=> pc[v] # "panicked",
             caller' \in {"join", "merge"} => Drawn(parts', Joined(P, turn'))
      PROVE  Shares(P)'
  <2>1. cursor' = cursor /\ out' = out
    BY <1>3
  <2>2. \A w \in Workers : \A p \in P[w] : p <= cursor' /\ ~Held(p)'
    BY <1>1, <1>2, <1>3, <2>1 DEF Shares
  <2>3. (\A v \in Workers : pc'[v] # "panicked") =>
          \A p \in Kept : p <= cursor' => Held(p)' \/ \E v \in Workers : p \in P[v]
    BY <1>1, <1>3, <2>1 DEF Shares
  <2> QED BY <1>2, <1>3, <2>1, <2>2, <2>3, Zenon DEF Shares
<1>4. CASE spawn
  <2>1. /\ UNCHANGED <<panics, cursor, next, end, out, parts, result>> /\ caller = "spawn"
        /\ turn \in Workers /\ pc[turn] = "unborn" /\ parts = <<>>
    BY <1>4 DEF spawn, IInv, CallerInv, ListInv, Workers
  <2>2. \/ pc' = [pc EXCEPT ![turn] = "claim"]
        \/ pc' = pc
    BY <1>4 DEF spawn
  <2>3. /\ \A p \in Kept : Held(p)' <=> Held(p)
        /\ \A v \in Workers : pc'[v] # "panicked" <=> pc[v] # "panicked"
    BY <2>1, <2>2 DEF Held, IInv, Types
  <2>4. /\ turn' \in 1 .. (jobs + 1) /\ caller' \in {"spawn", "join", "unwind"}
        /\ caller' = "join" => turn' = 1
    BY <1>4, <2>1, Sizes DEF spawn, Workers
  <2>5. caller' \in {"join", "merge"} => Drawn(parts', Joined(P, turn'))
    <3>1. Joined(P, 1) = {}
      BY DEF Joined, Workers
    <3>2. Drawn(parts, Joined(P, 1))
      BY <2>1, <3>1, DrawnNothing, Zenon
    <3> QED BY <2>1, <2>4, <3>2
  <2>6. Shares(P)'
    BY <1>3, <2>1, <2>3, <2>5
  <2>7. /\ panics' = panics /\ out' = out /\ parts' = parts /\ result' = result
    BY <2>1
  <2> QED BY <2>1, <2>4, <2>6, <2>7 DEF ListInv
<1>5. CASE join
  <2>1. /\ UNCHANGED <<panics, cursor, pc, next, end, out, result>> /\ caller = "join"
        /\ turn \in Workers
    BY <1>5 DEF join, worker, IInv, CallerInv
  <2>2. /\ \A p \in Kept : Held(p)' <=> Held(p)
        /\ \A v \in Workers : pc'[v] # "panicked" <=> pc[v] # "panicked"
    BY <2>1 DEF Held
  <2>3. CASE pc[turn] = "panicked"
    <3>1. caller' = "unwind" /\ turn' = turn /\ parts' = parts
      BY <1>5, <2>3 DEF join
    <3>2. Shares(P)'
      BY <1>3, <2>1, <2>2, <3>1
    <3> QED BY <2>1, <3>1, <3>2 DEF ListInv
  <2>4. CASE pc[turn] # "panicked"
    <3>1. /\ parts' = parts \o out[turn] /\ turn' = turn + 1
          /\ caller' = IF turn = jobs THEN "merge" ELSE "join"
      BY <1>5, <2>1, <2>4 DEF join
    <3>2. parts \in Seq(Nat) /\ out[turn] \in Seq(Nat) /\ Drawn(parts, Joined(P, turn))
          /\ Drawn(out[turn], P[turn])
      BY <1>1, <1>2, <2>1 DEF Shares
    <3>3. \A w \in Workers : w \in Int
      BY DEF Workers
    <3>4. Joined(P, turn) \cap P[turn] = {}
      <4> SUFFICES ASSUME NEW p, p \in Joined(P, turn), p \in P[turn] PROVE FALSE
        OBVIOUS
      <4>1. PICK w \in Workers : w < turn /\ p \in P[w]
        BY DEF Joined
      <4>2. w # turn
        BY <2>1, <3>3, <4>1
      <4> QED BY <1>2, <2>1, <4>1, <4>2
    <3>5. Joined(P, turn) \cup P[turn] = Joined(P, turn + 1)
      <4>1. \A w \in Workers : w < turn + 1 <=> w < turn \/ w = turn
        BY <2>1, <3>3
      <4>2. P[turn] \subseteq Kept
        BY <1>2, <2>1
      <4> QED BY <2>1, <4>1, <4>2, Zenon DEF Joined
    <3>6. Drawn(parts \o out[turn], Joined(P, turn) \cup P[turn])
      BY <3>2, <3>4, DrawnBoth
    <3>7. Drawn(parts', Joined(P, turn'))
      BY <3>1, <3>5, <3>6, Zenon
    <3>8. Shares(P)'
      BY <1>3, <2>1, <2>2, <3>7
    <3>9. parts' \in Seq(Nat) /\ turn' \in 1 .. (jobs + 1)
      BY <2>1, <3>1, <3>2, Sizes DEF Workers
    <3>10. caller' \in {"join", "merge"} /\ (caller' = "merge" => turn' = jobs + 1)
      BY <3>1
    <3> QED BY <2>1, <3>8, <3>9, <3>10 DEF ListInv
  <2> QED BY <2>3, <2>4
<1>6. CASE unwind
  <2>1. UNCHANGED <<panics, cursor, pc, next, end, out, turn, parts, result>> /\ caller' = "raised"
    BY <1>6 DEF unwind, worker
  <2>2. /\ \A p \in Kept : Held(p)' <=> Held(p)
        /\ \A v \in Workers : pc'[v] # "panicked" <=> pc[v] # "panicked"
    BY <2>1 DEF Held
  <2>3. Shares(P)'
    BY <1>3, <2>1, <2>2
  <2> QED BY <2>1, <2>3 DEF ListInv
<1>7. CASE merge
  <2>1. /\ UNCHANGED <<panics, cursor, pc, next, end, out, turn, parts>> /\ caller' = "returned"
        /\ caller = "merge" /\ result' = InOrder(parts)
    BY <1>7 DEF merge, worker
  <2>2. /\ \A p \in Kept : Held(p)' <=> Held(p)
        /\ \A v \in Workers : pc'[v] # "panicked" <=> pc[v] # "panicked"
    BY <2>1 DEF Held
  <2>3. Shares(P)'
    BY <1>3, <2>1, <2>2
  <2>4. Joined(P, turn) = Kept
    <3>1. \A w \in Workers : pc[w] = "finished"
      BY <2>1 DEF IInv, CallerInv
    <3>2. cursor >= N /\ cursor \in Nat
      BY <3>1, Sizes DEF IInv, Types, FinishedInv, Workers
    <3>3. \A p \in Kept : p <= cursor /\ ~Held(p)
      BY <3>1, <3>2, KeptIs, Sizes DEF Held
    <3>4. \A p \in Kept : \E w \in Workers : p \in P[w]
      BY <1>1, <3>1, <3>3 DEF Shares
    <3>5. \A w \in Workers : w < turn
      BY <2>1, Sizes DEF ListInv, Workers
    <3> QED BY <3>4, <3>5, Zenon DEF Joined
  <2>5. Drawn(parts, Kept)
    BY <1>1, <2>1, <2>4 DEF Shares
  <2>6. InOrder(parts) \in Seq(Nat) /\ Sorted(InOrder(parts)) /\ Drawn(InOrder(parts), Kept)
    BY <1>2, <2>5, InOrderIsSorted, DrawnInOrder
  <2>7. /\ panics' = panics /\ turn' = turn /\ out' = out /\ parts' = parts
    BY <2>1
  <2> QED BY <2>1, <2>3, <2>6, <2>7 DEF ListInv
<1> QED BY <1>4, <1>5, <1>6, <1>7 DEF Caller

LEMMA ListStep == IInv /\ ListInv /\ [Next]_vars => ListInv'
<1> SUFFICES ASSUME IInv, ListInv, [Next]_vars PROVE ListInv'
  OBVIOUS
<1>1. CASE \E w \in Workers : Worker(w)
  BY <1>1, ClaimLists, RunLists DEF Worker
<1>2. CASE Caller
  BY <1>2, CallerLists
<1>3. CASE UNCHANGED vars
  <2>1. /\ panics' = panics /\ cursor' = cursor /\ pc' = pc /\ next' = next /\ end' = end
        /\ out' = out /\ caller' = caller /\ turn' = turn /\ parts' = parts /\ result' = result
    BY <1>3 DEF vars, worker
  <2> QED BY <2>1, Zenon DEF ListInv, Shares, Held
<1> QED BY <1>1, <1>2, <1>3 DEF Next, Over

LEMMA ListInvariance == Spec => [](IInv /\ ListInv)
BY InitIInv, InitLists, IInvStep, ListStep, PTL DEF Spec

(* The cursor stays within a machine word, and every variable of map and of *)
(* its workers keeps its type.                                              *)
THEOREM PoolTypes == Spec => []TypeOK
<1>1. IInv /\ ListInv => TypeOK
  <2> SUFFICES ASSUME IInv, ListInv PROVE TypeOK
    OBVIOUS
  <2>1. cursor \in 0 .. Modulus - 1
    <3>1. Cardinality(Finished) + 1 <= Jobs + 1 /\ Cardinality(Finished) \in Nat
      BY FinishedIsFinite, Sizes, SizesAssumption
    <3>2. Batch * (Cardinality(Finished) + 1) <= Batch * (Jobs + 1)
      BY <3>1, Sizes, SizesAssumption
    <3> DEFINE used == Batch * (Cardinality(Finished) + 1)
               room == (Jobs + 1) * Batch
    <3>3. used \in Int /\ room \in Int /\ used <= room
      BY <3>1, <3>2, Sizes, SizesAssumption
    <3>4. cursor \in Nat /\ cursor <= N + used /\ N + room < Modulus
      BY Sizes DEF IInv, Types, CursorInv
    <3> HIDE DEF used, room
    <3> QED BY <3>3, <3>4, Sizes
  <2> QED BY <2>1 DEF IInv, Types, ListInv, TypeOK
<1> QED BY <1>1, ListInvariance, PTL

(* What map returns is sorted and holds each index that gives a result as   *)
(* often as the list does, and nothing else, however the workers' claims    *)
(* and ends interleave.                                                     *)
THEOREM SerialResult == Spec => []ResultIsSerial
<1>1. ListInv => ResultIsSerial
  <2> SUFFICES ASSUME ListInv, caller = "returned"
               PROVE  /\ Sorted(result)
                      /\ \A a \in DOMAIN result : \E p \in Positions : result[a] = Indices[p]
                      /\ \A p \in Positions :
                           Times(result, Indices[p]) = IF Indices[p] \in Keeps
                                                       THEN Times(Indices, Indices[p]) ELSE 0
    BY Zenon DEF ResultIsSerial, Sorted
  <2>1. Sorted(result) /\ Drawn(result, Kept)
    BY DEF ListInv
  <2>2. PICK h : Drawing(h, result, Kept)
    BY <2>1 DEF Drawn
  <2>3. \A a \in DOMAIN result : h[a] \in Kept /\ result[a] = Indices[h[a]]
    BY <2>2, Drawings
  <2>4. Kept \in SUBSET Positions
    BY DEF Kept
  <2>5. ASSUME NEW p \in Positions
        PROVE  Times(result, Indices[p]) = IF Indices[p] \in Keeps
                                           THEN Times(Indices, Indices[p]) ELSE 0
    <3> DEFINE A == { q \in Kept : Indices[q] = Indices[p] }
               B == { q \in DOMAIN Indices : Indices[q] = Indices[p] }
    <3>1. Times(result, Indices[p]) = Cardinality(A)
      BY <2>1, <2>4, DrawnTimes
    <3>2. DOMAIN Indices = Positions
      BY IndicesAssumption DEF Positions, N
    <3>3. Indices[p] \in Keeps => A = B
      BY <3>2 DEF Kept
    <3>4. Indices[p] \notin Keeps => A = {}
      BY DEF Kept
    <3>5. Times(Indices, Indices[p]) = Cardinality(B) /\ Cardinality({}) = 0
      BY FS_EmptySet, Zenon DEF Times
    <3> HIDE DEF A, B
    <3> QED BY <3>1, <3>3, <3>4, <3>5, Zenon
  <2> QED BY <2>1, <2>3, <2>4, <2>5
<1> QED BY <1>1, ListInvariance, PTL
=============================================================================
