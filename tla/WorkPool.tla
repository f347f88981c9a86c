------------------------------ MODULE WorkPool ------------------------------
(***************************************************************************)
(* leek-workpool: Pool::map, the scoped pool the corpus suite and the      *)
(* fight sweeps run on.                                                    *)
(*                                                                         *)
(* Workers claim batches of positions of `indices` from one atomic cursor; *)
(* the caller spawns them, joins them in order, and merges their results   *)
(* by index.  A job is abstracted to whether it yields a result (Keeps) or *)
(* panics (panics); the value is a function of the index.                  *)
(***************************************************************************)
EXTENDS Integers, Sequences, FiniteSets

CONSTANTS
  Indices,   (* the job list                                                *)
  Jobs,      (* Pool.jobs, before it is capped by the length of the list    *)
  Batch,     (* Pool.batch                                                  *)
  Keeps,     (* the indices f answers Some for                              *)
  Panics,    (* the indices f may panic on                                  *)
  SpawnFails,(* the system may refuse a thread                              *)
  Modulus    (* 2 ^ the width of usize                                      *)

ASSUME IndicesAssumption == Indices \in Seq(Nat)
ASSUME SizesAssumption == Jobs \in Nat \ {0} /\ Batch \in Nat \ {0}
ASSUME OutcomesAssumption ==
  Keeps \subseteq Nat /\ Panics \subseteq Nat /\ SpawnFails \in BOOLEAN
(* Room for each worker to overshoot the end of the list once.              *)
ASSUME WidthAssumption ==
  Modulus \in Nat /\ Len(Indices) + (Jobs + 1) * Batch < Modulus

N == Len(Indices)
jobs == IF Jobs < N THEN Jobs ELSE IF N = 0 THEN 1 ELSE N
Workers == 1 .. jobs
Positions == 1 .. N

VARIABLES
  panics,   (* the indices f panics on in this call                         *)
  cursor,   (* the shared atomic                                            *)
  pc,       (* where each worker is                                         *)
  next,     (* the position each worker runs next                           *)
  end,      (* and the one its batch ends before                            *)
  out,      (* the indices each worker has a result for, in its own order   *)
  caller,   (* where map itself is                                          *)
  turn,     (* the worker it spawns or joins next                           *)
  parts,    (* the results joined so far                                    *)
  result    (* what map returns                                             *)

worker == <<pc, next, end, out>>
vars == <<panics, cursor, worker, caller, turn, parts, result>>

Running == {"claim", "run"}
Ended == {"finished", "panicked"}

TypeOK ==
  /\ panics \subseteq Panics
  /\ cursor \in 0 .. Modulus - 1
  /\ pc \in [Workers -> {"unborn"} \cup Running \cup Ended]
  /\ next \in [Workers -> Nat] /\ end \in [Workers -> Nat]
  /\ out \in [Workers -> Seq(Nat)]
  /\ caller \in {"spawn", "join", "merge", "unwind", "returned", "raised"}
  /\ turn \in 1 .. (jobs + 1)
  /\ parts \in Seq(Nat) /\ result \in Seq(Nat)

Init ==
  /\ panics \in SUBSET Panics
  /\ cursor = 0
  /\ pc = [w \in Workers |-> "unborn"]
  /\ next = [w \in Workers |-> 1] /\ end = [w \in Workers |-> 1]
  /\ out = [w \in Workers |-> <<>>]
  /\ caller = "spawn" /\ turn = 1
  /\ parts = <<>> /\ result = <<>>
-----------------------------------------------------------------------------
(* Variants with a fault, named Bad*, stand before the definition they      *)
(* replace: each makes TLC find one of the properties violated.             *)

(* Where a claim leaves the cursor.                                         *)
BadFetchAddOne == (cursor + 1) % Modulus
BadFetchAddForAll == cursor + Jobs * Batch

fetch_add == (cursor + Batch) % Modulus

(* A worker.  The positions are one more than the slice's offsets.          *)
claim(w) ==
  LET start == cursor
      stop == IF start + Batch < N THEN start + Batch ELSE N
  IN /\ pc[w] = "claim"
     /\ cursor' = fetch_add
     /\ IF start >= N
        THEN pc' = [pc EXCEPT ![w] = "finished"] /\ UNCHANGED <<next, end>>
        ELSE /\ pc' = [pc EXCEPT ![w] = "run"]
             /\ next' = [next EXCEPT ![w] = start + 1]
             /\ end' = [end EXCEPT ![w] = stop + 1]
     /\ UNCHANGED <<panics, out, caller, turn, parts, result>>

(* One job; the worker's own results are lost with it if the job panics.    *)
run(w) ==
  LET i == Indices[next[w]]
  IN /\ pc[w] = "run"
     /\ IF i \in panics
        THEN /\ pc' = [pc EXCEPT ![w] = "panicked"]
             /\ UNCHANGED <<next, out>>
        ELSE /\ out' = IF i \in Keeps THEN [out EXCEPT ![w] = Append(@, i)] ELSE out
             /\ next' = [next EXCEPT ![w] = @ + 1]
             /\ pc' = IF next[w] + 1 < end[w] THEN pc ELSE [pc EXCEPT ![w] = "claim"]
     /\ UNCHANGED <<panics, cursor, end, caller, turn, parts, result>>

(* The caller.  A refused thread unwinds out of the scope, and the scope    *)
(* waits for the threads already running.                                   *)
spawn ==
  /\ caller = "spawn"
  /\ \/ /\ pc' = [pc EXCEPT ![turn] = "claim"]
        /\ IF turn = jobs
           THEN caller' = "join" /\ turn' = 1
           ELSE turn' = turn + 1 /\ UNCHANGED caller
     \/ SpawnFails /\ caller' = "unwind" /\ UNCHANGED <<pc, turn>>
  /\ UNCHANGED <<panics, cursor, next, end, out, parts, result>>

BadJoinSkipsPanics ==
  /\ caller = "join" /\ pc[turn] \in Ended
  /\ parts' = IF pc[turn] = "panicked" THEN parts ELSE parts \o out[turn]
  /\ turn' = turn + 1
  /\ caller' = IF turn = jobs THEN "merge" ELSE caller
  /\ UNCHANGED <<panics, cursor, worker, result>>

join ==
  /\ caller = "join" /\ pc[turn] \in Ended
  /\ IF pc[turn] = "panicked"
     THEN caller' = "unwind" /\ UNCHANGED <<turn, parts>>
     ELSE /\ parts' = parts \o out[turn]
          /\ turn' = turn + 1
          /\ caller' = IF turn = jobs THEN "merge" ELSE caller
  /\ UNCHANGED <<panics, cursor, worker, result>>

BadScopeWaitsForTheDead == \A w \in Workers : pc[w] \in {"unborn", "finished"}

ScopeEnded == \A w \in Workers : pc[w] \notin Running

unwind ==
  /\ caller = "unwind" /\ ScopeEnded
  /\ caller' = "raised"
  /\ UNCHANGED <<panics, cursor, worker, turn, parts, result>>

(* Sorted by index; a stable sort keeps equals in the order they came in.   *)
Rank(s, k) == Cardinality({ j \in DOMAIN s : s[j] < s[k] \/ (s[j] = s[k] /\ j <= k) })

BadInOrder(s) == s

InOrder(s) == [r \in 1 .. Len(s) |-> s[CHOOSE k \in DOMAIN s : Rank(s, k) = r]]

merge ==
  /\ caller = "merge"
  /\ caller' = "returned"
  /\ result' = InOrder(parts)
  /\ UNCHANGED <<panics, cursor, worker, turn, parts>>

Over == caller \in {"returned", "raised"} /\ UNCHANGED vars

Worker(w) == claim(w) \/ run(w)
Caller == spawn \/ join \/ unwind \/ merge

Next == (\E w \in Workers : Worker(w)) \/ Caller \/ Over

Spec == Init /\ [][Next]_vars

(* The system schedules every thread, and a job ends.                       *)
FairSpec == Spec /\ WF_vars(Caller) /\ \A w \in Workers : WF_vars(Worker(w))
-----------------------------------------------------------------------------
(* The positions a worker has claimed and not run.                          *)
Pending(w) == IF pc[w] = "run" THEN next[w] .. (end[w] - 1) ELSE {}

(* No position is in two workers' hands, and the cursor is past them all:   *)
(* no job can be run twice, however the claims interleave.                  *)
ClaimsAreDisjoint ==
  \A w \in Workers :
    /\ Pending(w) \subseteq 1 .. cursor
    /\ \A v \in Workers \ {w} : Pending(v) \cap Pending(w) = {}

Times(s, i) == Cardinality({ k \in DOMAIN s : s[k] = i })

(* What comes back is what one thread going through the list would produce, *)
(* sorted: each index that gives a result as many times as it is listed,    *)
(* nothing else, whichever worker finished first.                           *)
ResultIsSerial ==
  caller = "returned" =>
    /\ \A a, b \in DOMAIN result : a < b => result[a] <= result[b]
    /\ \A a \in DOMAIN result : \E p \in Positions : result[a] = Indices[p]
    /\ \A p \in Positions :
         Times(result, Indices[p]) = IF Indices[p] \in Keeps THEN Times(Indices, Indices[p]) ELSE 0

(* A panicking job is never swallowed into a thinner result, and when map   *)
(* leaves, by either way, no worker still runs on what it borrowed.         *)
PanicIsRaised ==
  /\ caller = "returned" => \A p \in Positions : Indices[p] \notin panics
  /\ caller \in {"returned", "raised"} => ScopeEnded

(* map ends, with every worker idle or dead.                                *)
MapEnds == <>(caller \in {"returned", "raised"})
=============================================================================
