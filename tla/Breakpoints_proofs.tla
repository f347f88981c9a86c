------------------------- MODULE Breakpoints_proofs -------------------------
(***************************************************************************)
(* That the debuggee's table, its hit counts and what the client was told  *)
(* of its breakpoints agree, for any files, safepoints and requests.       *)
(***************************************************************************)
EXTENDS Breakpoints, FiniteSetTheorems, WellFoundedInduction, TLAPS

(* Requests that name no line twice.                                        *)
OneEntryPerLine ==
  \A r \in Requests : \A i, j \in DOMAIN r : r[i].line = r[j].line => i = j \/ r[i].line < 0

(* What TypeOK leaves open.                                                 *)
Counted ==
  /\ \A id \in 1 .. next_id : charged[id] \in Nat
  /\ dbg = "fires" => trigger.id # 0
  /\ \A i \in DOMAIN request.answers : request.answers[i].id \in 0 .. next_id

(* A controller needs a program; a request hands it the table only then.    *)
Controlled ==
  /\ native_debug => program
  /\ srv \in {"retain", "install"} => native_debug

(* Between requests, the table is the store's.                              *)
Installed == native_debug /\ srv \notin {"retain", "install"} => breakpoints = by_source

(* The counts of what the store would arm.                                  *)
Exact == \A id \in Ids(by_source) : Count(hits, id) = charged[id]

IInv == TypeOK /\ Counted /\ Controlled /\ Installed /\ Exact
-----------------------------------------------------------------------------
(* Lines are numbers: the lowest of some there is.                          *)
LEMMA MinIsLeast ==
  ASSUME NEW S \in SUBSET Nat, S # {}
  PROVE  Min(S) \in S /\ \A y \in S : Min(S) =< y
<1>1. PICK i \in S : \A j \in S : ~ (<<j, i>> \in OpToRel(<, Nat))
  BY NatLessThanWellFounded, WFMin, Zenon
<1>2. \A j \in S : ~ (j < i)
  BY <1>1 DEF OpToRel
<1>3. \A j \in S : i =< j
  BY <1>2
<1> QED
  BY <1>3, Zenon DEF Min

(* Entries of a request are spelled by the first that names their line.     *)
LEMMA RequestEntries ==
  ASSUME NEW specs \in Requests
  PROVE  /\ DOMAIN specs = 1 .. Len(specs) /\ Len(specs) \in Nat
         /\ \A i \in DOMAIN specs : specs[i].line \in Int
         /\ Firsts(specs) \subseteq DOMAIN specs
         /\ \A i \in Firsts(specs) : specs[i].line \in Nat
<1> DEFINE Entries == [line : Int, spec : Specs]
<1>1. specs \in Seq(Entries)
  BY RequestsAssumption
<1>2. /\ DOMAIN specs = 1 .. Len(specs) /\ Len(specs) \in Nat
      /\ \A i \in DOMAIN specs : specs[i].line \in Int
  <2>1. \A e \in Entries : e.line \in Int
    OBVIOUS
  <2> HIDE DEF Entries
  <2>2. /\ DOMAIN specs = 1 .. Len(specs) /\ Len(specs) \in Nat
        /\ \A i \in DOMAIN specs : specs[i] \in Entries
    BY <1>1
  <2> QED
    BY <2>1, <2>2
<1>3. Firsts(specs) \subseteq DOMAIN specs
  BY DEF Firsts
<1>4. \A i \in Firsts(specs) : specs[i].line \in Nat
  BY <1>2 DEF Firsts, First
<1> QED
  BY <1>2, <1>3, <1>4

LEMMA SpellingNames ==
  ASSUME NEW specs \in Requests, NEW line \in { specs[i].line : i \in Firsts(specs) }
  PROVE  Spelling(specs, line) \in Firsts(specs) /\ specs[Spelling(specs, line)].line = line
BY DEF Spelling

(* Ids are fresh, one for each line named.                                  *)
LEMMA FirstsAreFinite ==
  ASSUME NEW specs \in Requests
  PROVE  /\ IsFiniteSet(Firsts(specs))
         /\ Cardinality(Firsts(specs)) \in Nat /\ Cardinality(Firsts(specs)) <= Len(specs)
<1>1. DOMAIN specs = 1 .. Len(specs) /\ Len(specs) \in Nat /\ Firsts(specs) \subseteq DOMAIN specs
  BY RequestEntries
<1>2. IsFiniteSet(1 .. Len(specs)) /\ Cardinality(1 .. Len(specs)) = Len(specs)
  BY <1>1, FS_Interval
<1>3. IsFiniteSet(Firsts(specs)) /\ Cardinality(Firsts(specs)) <= Len(specs)
  BY <1>1, <1>2, FS_Subset
<1> QED
  BY <1>3, FS_CardinalityType

LEMMA MintedIsFresh ==
  ASSUME NEW specs \in Requests, next_id \in Nat,
         NEW line \in { specs[i].line : i \in Firsts(specs) }
  PROVE  MintedId(specs, line) \in next_id + 1 .. next_id + Cardinality(Firsts(specs))
<1> DEFINE A == { i \in Firsts(specs) : i <= Spelling(specs, line) }
<1>1. Spelling(specs, line) \in Firsts(specs) /\ Spelling(specs, line) \in Int
  BY SpellingNames, RequestEntries
<1>2. Spelling(specs, line) \in A
  BY <1>1
<1>3. A \in SUBSET Firsts(specs) /\ A # {}
  BY <1>2
<1>4. IsFiniteSet(A) /\ Cardinality(A) <= Cardinality(Firsts(specs))
  BY <1>3, FirstsAreFinite, FS_Subset
<1>5. Cardinality(A) \in Nat /\ Cardinality(A) # 0
  BY <1>3, <1>4, FS_CardinalityType, FS_EmptySet
<1>6. MintedId(specs, line) = next_id + Cardinality(A)
  BY DEF MintedId
<1> QED
  BY <1>4, <1>5, <1>6, FirstsAreFinite

LEMMA MintedApart ==
  ASSUME NEW specs \in Requests, next_id \in Nat,
         NEW l \in { specs[i].line : i \in Firsts(specs) },
         NEW m \in { specs[i].line : i \in Firsts(specs) },
         MintedId(specs, l) = MintedId(specs, m)
  PROVE  l = m
<1> DEFINE A(x) == { i \in Firsts(specs) : i <= Spelling(specs, x) }
<1>1. /\ Spelling(specs, l) \in Firsts(specs) /\ specs[Spelling(specs, l)].line = l
      /\ Spelling(specs, m) \in Firsts(specs) /\ specs[Spelling(specs, m)].line = m
  BY SpellingNames
<1>2. Spelling(specs, l) \in Int /\ Spelling(specs, m) \in Int /\ Firsts(specs) \subseteq Int
  BY <1>1, RequestEntries
<1>3. IsFiniteSet(A(l)) /\ IsFiniteSet(A(m))
  <2>1. A(l) \in SUBSET Firsts(specs) /\ A(m) \in SUBSET Firsts(specs)
    OBVIOUS
  <2> QED
    BY <2>1, FirstsAreFinite, FS_Subset
<1>4. Cardinality(A(l)) \in Nat /\ Cardinality(A(m)) \in Nat
  BY <1>3, FS_CardinalityType
<1>5. Cardinality(A(l)) = Cardinality(A(m))
  <2>1. MintedId(specs, l) = next_id + Cardinality(A(l)) /\ MintedId(specs, m) = next_id + Cardinality(A(m))
    BY DEF MintedId
  <2>2. \A a, b \in Nat : next_id + a = next_id + b => a = b
    OBVIOUS
  <2> HIDE DEF A
  <2> QED
    BY <2>1, <2>2, <1>4, Zenon
<1>6. A(l) \subseteq A(m) \/ A(m) \subseteq A(l)
  BY <1>2
<1>7. A(l) = A(m)
  <2> HIDE DEF A
  <2> QED
    BY <1>3, <1>5, <1>6, FS_Subset
<1>8. Spelling(specs, l) \in A(m) /\ Spelling(specs, m) \in A(l)
  <2>1. Spelling(specs, l) \in A(l) /\ Spelling(specs, m) \in A(m)
    BY <1>1, <1>2
  <2> QED
    BY <2>1, <1>7
<1>9. Spelling(specs, l) = Spelling(specs, m)
  BY <1>8, <1>2
<1> QED
  BY <1>1, <1>9

LEMMA ReplaceStores ==
  ASSUME NEW specs \in Requests, next_id \in Nat
  PROVE  /\ DOMAIN replace(specs) \subseteq Nat
         /\ \A l \in DOMAIN replace(specs) :
              replace(specs)[l].id \in next_id + 1 .. next_id + Cardinality(Firsts(specs))
<1> DEFINE L == { specs[i].line : i \in Firsts(specs) }
<1>1. L \subseteq Nat
  BY RequestEntries
<1>2. /\ DOMAIN replace(specs) = L
      /\ \A l \in L : replace(specs)[l].id = MintedId(specs, l)
  BY DEF replace
<1>3. \A l \in L : MintedId(specs, l) \in next_id + 1 .. next_id + Cardinality(Firsts(specs))
  BY MintedIsFresh
<1> QED
  <2> HIDE DEF L
  <2> QED
    BY <1>1, <1>2, <1>3

(* Each entry of the store's table is a stored breakpoint that lands there. *)
Lined == \A f \in Files : DOMAIN by_path[f] \subseteq Nat

SourceIsStored ==
  \A k \in DOMAIN by_source :
    /\ k \in Keys /\ k[1] \in Files
    /\ Min(Landing(k[1], k[2])) \in Landing(k[1], k[2])
    /\ by_source[k] = by_path[k[1]][Min(Landing(k[1], k[2]))]

LEMMA ArmedIsStored == Lined => SourceIsStored
<1> SUFFICES ASSUME Lined, NEW k \in DOMAIN by_source
             PROVE  /\ k \in Keys /\ k[1] \in Files
                    /\ Min(Landing(k[1], k[2])) \in Landing(k[1], k[2])
                    /\ by_source[k] = by_path[k[1]][Min(Landing(k[1], k[2]))]
  BY DEF SourceIsStored
<1>1. /\ k \in Keys /\ Landing(k[1], k[2]) # {}
      /\ by_source[k] = by_path[k[1]][Min(Landing(k[1], k[2]))]
  BY DEF by_source
<1>2. k[1] \in Files
  BY <1>1, PlacesAssumption DEF Keys
<1>3. Landing(k[1], k[2]) \in SUBSET Nat
  BY <1>2 DEF Landing, Lined
<1>4. Min(Landing(k[1], k[2])) \in Landing(k[1], k[2])
  BY <1>1, <1>3, MinIsLeast
<1> QED
  BY <1>1, <1>2, <1>4

LEMMA NothingAsked == DOMAIN NoRequest.answers = {}
<1>1. <<>> \in Seq({}) /\ Len(<<>>) = 0
  OBVIOUS
<1>2. DOMAIN <<>> = 1 .. 0
  BY <1>1
<1>3. 1 .. 0 = {}
  OBVIOUS
<1> QED
  BY <1>2, <1>3, Zenon DEF NoRequest

LEMMA InitIInv == Init => IInv
<1> SUFFICES ASSUME Init PROVE IInv
  OBVIOUS
<1>1. TypeOK
  <2>1. DOMAIN Empty = {} /\ Ids(Empty) = {} /\ Range(Empty) = {} /\ 1 .. 0 = {}
    BY DEF Empty, Ids, Range
  <2>2. /\ DOMAIN by_path = Files /\ \A f \in Files : by_path[f] = Empty
        /\ next_id = 0 /\ trigger.id = 0
    BY DEF Init, NoTrigger
  <2>3. /\ DOMAIN breakpoints \subseteq Keys /\ Ids(breakpoints) \subseteq 1 .. next_id
        /\ DOMAIN hits \subseteq 1 .. next_id /\ Range(hits) \subseteq 1 .. MaxHits
        /\ DOMAIN view \subseteq 1 .. next_id
    BY <2>1 DEF Init
  <2>4. DOMAIN charged = 1 .. next_id
    BY <2>1, <2>2 DEF Init
  <2>5. \A f \in Files : \A l \in DOMAIN by_path[f] :
          l \in Nat /\ by_path[f][l].id \in 1 .. next_id
    BY <2>1, <2>2
  <2>6. next_id \in 0 .. MaxId /\ trigger.id \in 0 .. next_id
    BY <2>2, BoundsAssumption
  <2>7. /\ program \in BOOLEAN /\ native_debug \in BOOLEAN
        /\ srv \in {"idle", "retain", "install", "respond"}
        /\ dbg \in {"none", "user", "fires", "stopped"}
    BY DEF Init
  <2> QED
    BY <2>2, <2>3, <2>4, <2>5, <2>6, <2>7, Zenon DEF TypeOK
<1>2. Counted /\ Controlled /\ Installed
  <2>1. DOMAIN request.answers = {} /\ 1 .. next_id = {}
    BY NothingAsked DEF Init
  <2> QED
    BY <2>1 DEF Init, Counted, Controlled, Installed
<1>3. Lined
  BY DEF Init, Lined, Empty
<1>4. DOMAIN by_source = {}
  <2>1. \A k \in DOMAIN by_source : FALSE
    BY <1>3, ArmedIsStored DEF Init, Landing, Empty, SourceIsStored
  <2> QED
    BY <2>1
<1>5. Exact
  BY <1>4 DEF Exact, Ids
<1> QED
  BY <1>1, <1>2, <1>5 DEF IInv
-----------------------------------------------------------------------------
LEMMA SetKeeps ==
  ASSUME IInv, NEW f \in Files, NEW specs \in Requests, set(f, specs)
  PROVE  IInv'
<1>1. TypeOK /\ Counted /\ Controlled /\ Installed /\ Exact
  BY DEF IInv
<1> DEFINE n == Cardinality(Firsts(specs))
<1>2. /\ srv = "idle" /\ next_id + Len(specs) <= MaxId
      /\ by_path' = [by_path EXCEPT ![f] = replace(specs)]
      /\ next_id' = next_id + n
      /\ request' = [file |-> f, answers |-> Requested(specs)]
      /\ srv' = IF native_debug /\ program THEN "retain" ELSE "respond"
      /\ charged' = [id \in 1 .. next_id' |-> IF id > next_id THEN 0 ELSE charged[id]]
      /\ UNCHANGED <<program, native_debug, breakpoints, hits, dbg, trigger, view>>
  BY DEF set
<1>3. /\ next_id \in Nat /\ n \in Nat /\ next_id' \in Nat /\ next_id' \in 0 .. MaxId
      /\ next_id <= next_id'
  BY <1>1, <1>2, FirstsAreFinite, RequestEntries, BoundsAssumption DEF TypeOK
<1>4. /\ DOMAIN by_path' = Files
      /\ by_path'[f] = replace(specs) /\ \A g \in Files \ {f} : by_path'[g] = by_path[g]
  BY <1>1, <1>2 DEF TypeOK
<1>5. /\ DOMAIN replace(specs) \subseteq Nat
      /\ \A l \in DOMAIN replace(specs) : replace(specs)[l].id \in next_id + 1 .. next_id'
  BY <1>2, <1>3, ReplaceStores
<1>6. \A g \in Files : \A l \in DOMAIN by_path'[g] :
        l \in Nat /\ by_path'[g][l].id \in 1 .. next_id'
  BY <1>1, <1>3, <1>4, <1>5 DEF TypeOK
<1>7. \A i \in DOMAIN request'.answers : request'.answers[i].id \in 0 .. next_id'
  <2> SUFFICES ASSUME NEW i \in DOMAIN specs
               PROVE  Requested(specs)[i].id \in 0 .. next_id'
    BY <1>2 DEF Requested
  <2>1. CASE specs[i].line < 0
    BY <2>1, <1>3 DEF Requested
  <2>2. CASE ~ (specs[i].line < 0)
    <3>1. \E j \in Firsts(specs) : specs[j].line = specs[i].line
      <4> DEFINE S == { j \in DOMAIN specs : specs[j].line = specs[i].line }
      <4>1. S \in SUBSET Nat /\ S # {}
        BY RequestEntries
      <4>2. Min(S) \in S /\ \A j \in S : Min(S) <= j
        BY <4>1, MinIsLeast
      <4>3. specs[i].line \in Int /\ DOMAIN specs = 1 .. Len(specs) /\ Len(specs) \in Nat
        BY RequestEntries
      <4>4. First(specs, Min(S))
        <5> HIDE DEF First
        <5>1. specs[Min(S)].line >= 0
          BY <4>2, <4>3, <2>2
        <5>2. ASSUME NEW j \in 1 .. (Min(S) - 1)
              PROVE  specs[j].line # specs[Min(S)].line
          <6>1. j \in DOMAIN specs /\ ~ (Min(S) <= j)
            <7>1. Min(S) \in 1 .. Len(specs)
              BY <4>2, <4>3
            <7> HIDE DEF S
            <7> QED
              BY <7>1, <4>3
          <6>2. j \notin S
            BY <6>1, <4>2
          <6> QED
            BY <6>1, <6>2, <4>2
        <5> QED
          BY <5>1, <5>2 DEF First
      <4> QED
        BY <4>2, <4>4 DEF Firsts
    <3>2. MintedId(specs, specs[i].line) \in next_id + 1 .. next_id'
      BY <3>1, <1>2, <1>3, MintedIsFresh
    <3> QED
      BY <2>2, <3>2, <1>3 DEF Requested
  <2> QED
    BY <2>1, <2>2
<1>8. /\ Ids(breakpoints)' \subseteq 1 .. next_id' /\ DOMAIN hits' \subseteq 1 .. next_id'
      /\ trigger'.id \in 0 .. next_id' /\ DOMAIN view' \subseteq 1 .. next_id'
      /\ DOMAIN charged' = 1 .. next_id'
  <2>1. 1 .. next_id \subseteq 1 .. next_id' /\ 0 .. next_id \subseteq 0 .. next_id'
    BY <1>3
  <2>2. Ids(breakpoints)' = Ids(breakpoints) /\ hits' = hits /\ trigger' = trigger /\ view' = view
    BY <1>2 DEF Ids
  <2>3. /\ Ids(breakpoints) \subseteq 1 .. next_id /\ DOMAIN hits \subseteq 1 .. next_id
        /\ trigger.id \in 0 .. next_id /\ DOMAIN view \subseteq 1 .. next_id
    BY <1>1 DEF TypeOK
  <2>4. DOMAIN charged' = 1 .. next_id'
    BY <1>2
  <2>5. /\ Ids(breakpoints)' \subseteq 1 .. next_id' /\ DOMAIN hits' \subseteq 1 .. next_id'
        /\ DOMAIN view' \subseteq 1 .. next_id' /\ trigger'.id \in 0 .. next_id'
    BY <2>1, <2>2, <2>3, Zenon
  <2> QED
    BY <2>4, <2>5
<1>9. TypeOK'
  <2>1. srv' \in {"idle", "retain", "install", "respond"}
    BY <1>2
  <2> QED
    BY <1>1, <1>2, <1>3, <1>4, <1>6, <1>8, <2>1 DEF TypeOK
<1>10. Counted'
  <2>1. \A id \in 1 .. next_id' : charged'[id] \in Nat
    BY <1>1, <1>2, <1>3 DEF Counted
  <2> QED
    BY <1>1, <1>2, <1>7, <2>1 DEF Counted
<1>11. Controlled' /\ Installed'
  BY <1>1, <1>2 DEF Controlled, Installed
<1>12. Exact'
  <2>1. Lined /\ Lined'
    BY <1>1, <1>6 DEF TypeOK, Lined
  <2>0. SourceIsStored /\ SourceIsStored'
    BY <2>1, ArmedIsStored, PTL
  <2>2. /\ \A k \in DOMAIN by_source :
            by_source[k] = by_path[k[1]][Min(Landing(k[1], k[2]))]
        /\ \A k \in DOMAIN by_source' :
            /\ k \in Keys /\ k[1] \in Files
            /\ Min(Landing(k[1], k[2])') \in Landing(k[1], k[2])'
            /\ by_source'[k] = by_path'[k[1]][Min(Landing(k[1], k[2])')]
    BY <2>0 DEF SourceIsStored
  <2>3. ASSUME NEW k \in DOMAIN by_source'
        PROVE  Count(hits', by_source'[k].id) = charged'[by_source'[k].id]
    <3>1. CASE k[1] = f
      <4>1. by_source'[k].id \in next_id + 1 .. next_id'
        <5>1. Min(Landing(k[1], k[2])') \in DOMAIN by_path'[k[1]]
          BY <2>2 DEF Landing
        <5> QED
          BY <5>1, <2>2, <3>1, <1>4, <1>5
      <4>2. by_source'[k].id \notin DOMAIN hits' /\ by_source'[k].id > next_id
            /\ by_source'[k].id \in 1 .. next_id'
        BY <4>1, <1>1, <1>2, <1>3 DEF TypeOK
      <4> QED
        BY <4>2, <1>2 DEF Count
    <3>2. CASE k[1] # f
      <4>1. by_path'[k[1]] = by_path[k[1]]
        BY <2>2, <3>2, <1>4
      <4>2. Landing(k[1], k[2])' = Landing(k[1], k[2])
        BY <4>1 DEF Landing
      <4>3. k \in DOMAIN by_source
        BY <2>2, <4>2 DEF by_source
      <4>4. by_source'[k] = by_source[k]
        BY <2>2, <4>1, <4>2, <4>3
      <4>5. by_source[k].id \in Ids(by_source)
        BY <4>3 DEF Ids
      <4>6. by_source[k].id \in 1 .. next_id
        <5>1. /\ k[1] \in Files /\ Min(Landing(k[1], k[2])) \in DOMAIN by_path[k[1]]
          BY <2>2, <4>2 DEF Landing
        <5> QED
          BY <5>1, <2>2, <4>3, <1>1 DEF TypeOK
      <4>7. charged'[by_source[k].id] = charged[by_source[k].id]
        BY <4>6, <1>2, <1>3
      <4> QED
        BY <4>4, <4>5, <4>7, <1>1, <1>2 DEF Exact
    <3> QED
      BY <3>1, <3>2
  <2> QED
    BY <2>3 DEF Exact, Ids
<1> QED
  BY <1>9, <1>10, <1>11, <1>12 DEF IInv

LEMMA RetainKeeps ==
  ASSUME IInv, retain_hits
  PROVE  IInv'
<1>1. TypeOK /\ Counted /\ Controlled /\ Installed /\ Exact
  BY DEF IInv
<1>2. /\ srv = "retain" /\ srv' = "install"
      /\ UNCHANGED <<by_path, next_id, program, native_debug, breakpoints, request,
                     dbg, trigger, view, charged>>
  BY DEF retain_hits
<1>3. /\ DOMAIN hits' = DOMAIN hits \cap Ids(by_source)
      /\ \A id \in DOMAIN hits' : hits'[id] = hits[id]
  BY DEF retain_hits, Restrict
<1>4. by_source' = by_source
  BY <1>2 DEF by_source, Landing
<1>5. TypeOK'
  <2>1. Range(hits') \subseteq 1 .. MaxHits
    BY <1>1, <1>3 DEF TypeOK, Range
  <2>2. Ids(breakpoints)' = Ids(breakpoints)
    BY <1>2 DEF Ids
  <2> QED
    BY <1>1, <1>2, <1>3, <2>1, <2>2 DEF TypeOK
<1>6. Counted' /\ Controlled' /\ Installed'
  BY <1>1, <1>2 DEF Counted, Controlled, Installed
<1>7. Exact'
  <2>1. \A id \in Ids(by_source) : Count(hits', id) = Count(hits, id)
    BY <1>3 DEF Count
  <2>2. Ids(by_source)' = Ids(by_source)
    BY <1>4 DEF Ids
  <2> QED
    BY <1>1, <1>2, <2>1, <2>2 DEF Exact
<1> QED
  BY <1>5, <1>6, <1>7 DEF IInv

(* The ids of the store's table are ids of the store.                       *)
LEMMA ArmedIdsMinted ==
  ASSUME TypeOK
  PROVE  DOMAIN by_source \subseteq Keys /\ Ids(by_source) \subseteq 1 .. next_id
<1>1. SourceIsStored
  BY ArmedIsStored DEF TypeOK, Lined
<1>2. ASSUME NEW k \in DOMAIN by_source
      PROVE  by_source[k].id \in 1 .. next_id
  <2>1. k[1] \in Files /\ Min(Landing(k[1], k[2])) \in DOMAIN by_path[k[1]]
    BY <1>1 DEF SourceIsStored, Landing
  <2> QED
    BY <1>1, <2>1 DEF SourceIsStored, TypeOK
<1> QED
  BY <1>1, <1>2 DEF SourceIsStored, Ids

LEMMA InstallKeeps ==
  ASSUME IInv, install_table
  PROVE  IInv'
<1>1. TypeOK /\ Counted /\ Controlled /\ Installed /\ Exact
  BY DEF IInv
<1>2. /\ srv = "install" /\ srv' = "respond" /\ breakpoints' = by_source
      /\ UNCHANGED <<by_path, next_id, program, native_debug, hits, request,
                     dbg, trigger, view, charged>>
  BY DEF install_table
<1>3. by_source' = by_source
  BY <1>2 DEF by_source, Landing
<1>4. TypeOK'
  <2>1. Ids(breakpoints)' = Ids(by_source)
    BY <1>2 DEF Ids
  <2> QED
    BY <1>1, <1>2, <2>1, ArmedIdsMinted DEF TypeOK
<1>5. Counted' /\ Controlled' /\ Installed'
  BY <1>1, <1>2, <1>3 DEF Counted, Controlled, Installed
<1>6. Exact'
  <2>1. Ids(by_source)' = Ids(by_source)
    BY <1>3 DEF Ids
  <2> QED
    BY <1>1, <1>2, <2>1 DEF Exact
<1> QED
  BY <1>4, <1>5, <1>6 DEF IInv

LEMMA RespondKeeps ==
  ASSUME IInv, respond
  PROVE  IInv'
<1>1. TypeOK /\ Counted /\ Controlled /\ Installed /\ Exact
  BY DEF IInv
<1> DEFINE named == { request.answers[i].id : i \in DOMAIN request.answers } \ {0}
           kept == { id \in DOMAIN view : view[id].file # request.file }
<1>2. /\ srv = "respond" /\ srv' = "idle" /\ request' = NoRequest
      /\ DOMAIN view' = kept \cup named
      /\ UNCHANGED <<by_path, next_id, program, native_debug, breakpoints, hits,
                     dbg, trigger, charged>>
  BY DEF respond
<1>3. by_source' = by_source
  BY <1>2 DEF by_source, Landing
<1>4. TypeOK'
  <2>1. named \subseteq 1 .. next_id
    BY <1>1 DEF Counted, TypeOK
  <2>2. DOMAIN view' \subseteq 1 .. next_id
    BY <1>1, <1>2, <2>1 DEF TypeOK
  <2>3. Ids(breakpoints)' = Ids(breakpoints)
    BY <1>2 DEF Ids
  <2> QED
    BY <1>1, <1>2, <2>2, <2>3 DEF TypeOK
<1>5. Counted' /\ Controlled' /\ Installed'
  <2>1. DOMAIN request'.answers = {}
    BY <1>2, NothingAsked
  <2> QED
    BY <1>1, <1>2, <1>3, <2>1 DEF Counted, Controlled, Installed
<1>6. Exact'
  <2>1. Ids(by_source)' = Ids(by_source)
    BY <1>3 DEF Ids
  <2> QED
    BY <1>1, <1>2, <2>1 DEF Exact
<1> QED
  BY <1>4, <1>5, <1>6 DEF IInv

LEMMA ConfigureKeeps ==
  ASSUME IInv, configuration_done
  PROVE  IInv'
<1>1. TypeOK /\ Counted /\ Controlled /\ Installed /\ Exact
  BY DEF IInv
<1>2. /\ srv = "idle" /\ ~program /\ program' = TRUE
      /\ DOMAIN view' = UNION { Ids(by_path[f]) : f \in Files }
      /\ \/ native_debug' = TRUE /\ breakpoints' = by_source /\ dbg' = "user"
         \/ UNCHANGED <<native_debug, breakpoints, dbg>>
      /\ UNCHANGED <<by_path, next_id, hits, srv, request, trigger, charged>>
  BY DEF configuration_done
<1>3. by_source' = by_source
  BY <1>2 DEF by_source, Landing
<1>4. TypeOK'
  <2>1. \A f \in Files : Ids(by_path[f]) \subseteq 1 .. next_id
    BY <1>1 DEF TypeOK, Ids
  <2>2. DOMAIN view' \subseteq 1 .. next_id
    BY <1>2, <2>1
  <2>3. DOMAIN breakpoints' \subseteq Keys /\ Ids(breakpoints)' \subseteq 1 .. next_id
    <3>1. CASE breakpoints' = by_source
      BY <3>1, <1>1, ArmedIdsMinted DEF Ids
    <3>2. CASE breakpoints' = breakpoints
      BY <3>2, <1>1 DEF Ids, TypeOK
    <3> QED
      BY <1>2, <3>1, <3>2
  <2>4. native_debug' \in BOOLEAN /\ dbg' \in {"none", "user", "fires", "stopped"}
    BY <1>1, <1>2 DEF TypeOK
  <2> QED
    BY <1>1, <1>2, <2>2, <2>3, <2>4 DEF TypeOK
<1>5. Counted'
  BY <1>1, <1>2 DEF Counted
<1>6. Controlled' /\ Installed'
  BY <1>1, <1>2, <1>3 DEF Controlled, Installed
<1>7. Exact'
  <2>1. Ids(by_source)' = Ids(by_source)
    BY <1>3 DEF Ids
  <2> QED
    BY <1>1, <1>2, <2>1 DEF Exact
<1> QED
  BY <1>4, <1>5, <1>6, <1>7 DEF IInv
-----------------------------------------------------------------------------
(* The debuggee's thread.                                                   *)
LEMMA CloneKeeps ==
  ASSUME IInv, NEW key \in Keys, breakpoint_at(key)
  PROVE  IInv'
<1>1. TypeOK /\ Counted /\ Controlled /\ Installed /\ Exact
  BY DEF IInv
<1>2. /\ key \in DOMAIN breakpoints /\ trigger' = breakpoints[key] /\ dbg' = "fires"
      /\ UNCHANGED <<by_path, next_id, program, native_debug, srv, request, view,
                     breakpoints, hits, charged>>
  BY DEF breakpoint_at, server
<1>3. trigger'.id \in 1 .. next_id
  BY <1>1, <1>2 DEF TypeOK, Ids
<1>4. TypeOK'
  <2>1. Ids(breakpoints)' = Ids(breakpoints)
    BY <1>2 DEF Ids
  <2> QED
    BY <1>1, <1>2, <1>3, <2>1 DEF TypeOK
<1>5. Counted'
  BY <1>1, <1>2, <1>3 DEF Counted
<1>6. by_source' = by_source
  BY <1>2 DEF by_source, Landing
<1>7. Controlled' /\ Installed'
  BY <1>1, <1>2, <1>6 DEF Controlled, Installed
<1>8. Exact'
  <2>1. Ids(by_source)' = Ids(by_source)
    BY <1>6 DEF Ids
  <2> QED
    BY <1>1, <1>2, <2>1 DEF Exact
<1> QED
  BY <1>4, <1>5, <1>7, <1>8 DEF IInv

(* A step that decides without counting.                                    *)
LEMMA DecideKeeps ==
  ASSUME IInv, trigger' \in {trigger, NoTrigger}, dbg' \in {"user", "stopped"},
         UNCHANGED <<server, breakpoints, hits, charged>>
  PROVE  IInv'
<1>1. TypeOK /\ Counted /\ Controlled /\ Installed /\ Exact
  BY DEF IInv
<1>2. UNCHANGED <<by_path, next_id, program, native_debug, srv, request, view,
                  breakpoints, hits, charged>>
  BY DEF server
<1>3. trigger'.id \in 0 .. next_id
  BY <1>1 DEF TypeOK, NoTrigger
<1>4. TypeOK'
  <2>1. Ids(breakpoints)' = Ids(breakpoints)
    BY <1>2 DEF Ids
  <2> QED
    BY <1>1, <1>2, <1>3, <2>1 DEF TypeOK
<1>5. by_source' = by_source
  BY <1>2 DEF by_source, Landing
<1>6. Counted' /\ Controlled' /\ Installed'
  BY <1>1, <1>2, <1>5 DEF Counted, Controlled, Installed
<1>7. Exact'
  <2>1. Ids(by_source)' = Ids(by_source)
    BY <1>5 DEF Ids
  <2> QED
    BY <1>1, <1>2, <2>1 DEF Exact
<1> QED
  BY <1>4, <1>6, <1>7 DEF IInv

(* A hit counts in both, whether or not its breakpoint is still there.      *)
LEMMA HitKeeps ==
  ASSUME IInv, fires_hit
  PROVE  IInv'
<1>1. TypeOK /\ Counted /\ Controlled /\ Installed /\ Exact
  BY DEF IInv
<1> DEFINE t == trigger.id
           count == Count(hits, t) + 1
<1>2. /\ dbg = "fires" /\ count <= MaxHits
      /\ hits' = [id \in DOMAIN hits \cup {t} |-> IF id = t THEN count ELSE hits[id]]
      /\ charged' = [charged EXCEPT ![t] = @ + 1]
      /\ trigger' \in {trigger, NoTrigger} /\ dbg' \in {"user", "stopped"}
      /\ UNCHANGED <<by_path, next_id, program, native_debug, srv, request, view, breakpoints>>
  BY DEF fires_hit, Outcome, server
<1>3. t \in 1 .. next_id /\ next_id \in Nat
  BY <1>1, <1>2 DEF TypeOK, Counted
<1>4. \A id \in DOMAIN hits : hits[id] \in 1 .. MaxHits
  BY <1>1 DEF TypeOK, Range
<1>5. count \in 1 .. MaxHits
  <2>1. Count(hits, t) \in Nat
    BY <1>4, BoundsAssumption DEF Count
  <2> HIDE DEF t
  <2> QED
    BY <2>1, <1>2, BoundsAssumption
<1>6. TypeOK'
  <2>1. DOMAIN hits' = DOMAIN hits \cup {t} /\ Range(hits') \subseteq 1 .. MaxHits
    <3> HIDE DEF t, count
    <3> QED
      BY <1>2, <1>4, <1>5 DEF Range
  <2>2. Ids(breakpoints)' = Ids(breakpoints)
    BY <1>2 DEF Ids
  <2>3. trigger'.id \in 0 .. next_id
    BY <1>1, <1>2, <1>3 DEF TypeOK, NoTrigger
  <2>4. DOMAIN charged' = DOMAIN charged
    BY <1>2
  <2> HIDE DEF t, count
  <2> QED
    BY <1>1, <1>2, <1>3, <2>1, <2>2, <2>3, <2>4 DEF TypeOK
<1>7. \A id \in 1 .. next_id : charged'[id] = IF id = t THEN charged[id] + 1 ELSE charged[id]
  <2> HIDE DEF t
  <2> QED
    BY <1>1, <1>2 DEF TypeOK
<1>8. Counted'
  <2>1. \A id \in 1 .. next_id : charged'[id] \in Nat
    BY <1>1, <1>7 DEF Counted
  <2> QED
    BY <1>1, <1>2, <2>1 DEF Counted
<1>9. by_source' = by_source
  BY <1>2 DEF by_source, Landing
<1>10. Controlled' /\ Installed'
  BY <1>1, <1>2, <1>9 DEF Controlled, Installed
<1>11. Exact'
  <2>1. Ids(by_source)' = Ids(by_source)
    BY <1>9 DEF Ids
  <2>2. ASSUME NEW id \in Ids(by_source)
        PROVE  Count(hits', id) = charged'[id]
    <3>1. id \in 1 .. next_id /\ Count(hits, id) = charged[id]
      BY <1>1, ArmedIdsMinted DEF Exact
    <3>2. Count(hits', id) = IF id = t THEN Count(hits, id) + 1 ELSE Count(hits, id)
      BY <1>2 DEF Count
    <3> QED
      BY <3>1, <3>2, <1>7
  <2> QED
    BY <2>1, <2>2 DEF Exact
<1> QED
  BY <1>6, <1>8, <1>10, <1>11 DEF IInv
-----------------------------------------------------------------------------
LEMMA NextKeeps == IInv /\ [Next]_vars => IInv'
<1> SUFFICES ASSUME IInv, [Next]_vars PROVE IInv'
  OBVIOUS
<1>1. CASE \E f \in Files, specs \in Requests : set(f, specs)
  BY <1>1, SetKeeps
<1>2. CASE retain_hits
  BY <1>2, RetainKeeps
<1>3. CASE install_table
  BY <1>3, InstallKeeps
<1>4. CASE respond
  BY <1>4, RespondKeeps
<1>5. CASE configuration_done
  BY <1>5, ConfigureKeeps
<1>6. CASE \E key \in Keys : breakpoint_at(key)
  BY <1>6, CloneKeeps
<1>7. CASE fires_condition \/ fires_always \/ resumed
  <2>1. /\ trigger' \in {trigger, NoTrigger} /\ dbg' \in {"user", "stopped"}
        /\ UNCHANGED <<server, breakpoints, hits, charged>>
    BY <1>7 DEF fires_condition, fires_always, resumed, Outcome
  <2> QED
    BY <2>1, DecideKeeps
<1>8. CASE fires_hit
  BY <1>8, HitKeeps
<1>9. CASE UNCHANGED vars
  <2>1. by_source' = by_source /\ Ids(by_source)' = Ids(by_source)
        /\ Ids(breakpoints)' = Ids(breakpoints)
    BY <1>9 DEF vars, server, by_source, Landing, Ids
  <2> QED
    BY <1>9, <2>1 DEF vars, server, IInv, TypeOK, Counted, Controlled, Installed, Exact
<1> QED
  BY <1>1, <1>2, <1>3, <1>4, <1>5, <1>6, <1>7, <1>8, <1>9 DEF Next

THEOREM Invariance == Spec => []IInv
BY InitIInv, NextKeeps, PTL DEF Spec

(* Every variable keeps its type.                                           *)
THEOREM TableTypes == Spec => []TypeOK
<1>1. IInv => TypeOK
  BY DEF IInv
<1> QED
  BY <1>1, Invariance, PTL

(* Whatever replacements come between a breakpoint's entry being cloned and *)
(* its hit being charged, the count of an armed breakpoint is its hits.     *)
THEOREM CountsAreExact == Spec => []ArmedCountsEveryHit
<1>1. IInv => ArmedCountsEveryHit
  BY DEF IInv, Installed, Exact, ArmedCountsEveryHit, Settled
<1> QED
  BY <1>1, Invariance, PTL
-----------------------------------------------------------------------------
(***************************************************************************)
(* What the client was told, for requests that name no line twice.         *)
(***************************************************************************)
(* No id is given twice.                                                    *)
Apart ==
  \A f, g \in Files : \A l \in DOMAIN by_path[f], m \in DOMAIN by_path[g] :
    by_path[f][l].id = by_path[g][m].id => f = g /\ l = m

(* All files but the one a request is replacing.                            *)
Answered(f) == srv = "idle" \/ f # request.file

(* Every stored breakpoint was answered as the program would answer it now, *)
(* and nothing else is in the client's view.                                *)
Told ==
  /\ \A f \in Files : Answered(f) =>
       \A l \in DOMAIN by_path[f] :
         /\ by_path[f][l].id \in DOMAIN view
         /\ view[by_path[f][l].id] = answer(program, f, l, by_path[f][l].spec)
  /\ \A id \in DOMAIN view :
       /\ view[id].file \in Files
       /\ Answered(view[id].file) => id \in Ids(by_path[view[id].file])

(* The answers prepared are about what is stored.                           *)
Prepared ==
  srv # "idle" =>
    /\ request.file \in Files
    /\ \A i \in DOMAIN request.answers : request.answers[i].id # 0 =>
         /\ request.answers[i].line \in DOMAIN by_path[request.file]
         /\ by_path[request.file][request.answers[i].line].id = request.answers[i].id
         /\ by_path[request.file][request.answers[i].line].spec = request.answers[i].spec
    /\ \A l \in DOMAIN by_path[request.file] :
         \E i \in DOMAIN request.answers : request.answers[i].id = by_path[request.file][l].id
    /\ \A i, j \in DOMAIN request.answers :
         request.answers[i].id = request.answers[j].id => i = j \/ request.answers[i].id = 0
    /\ DOMAIN request.answers \subseteq Int

Verdicts == Apart /\ Told /\ Prepared

LEMMA OneSpelling ==
  ASSUME OneEntryPerLine, NEW specs \in Requests, next_id \in Nat
  PROVE  /\ \A i \in DOMAIN specs : specs[i].line >= 0 =>
              /\ specs[i].line \in DOMAIN replace(specs)
              /\ replace(specs)[specs[i].line].id = MintedId(specs, specs[i].line)
              /\ replace(specs)[specs[i].line].spec = specs[i].spec
         /\ \A l \in DOMAIN replace(specs) :
              \E i \in DOMAIN specs : specs[i].line = l /\ specs[i].line >= 0
         /\ \A l, m \in DOMAIN replace(specs) :
              replace(specs)[l].id = replace(specs)[m].id => l = m
<1>1. /\ DOMAIN specs = 1 .. Len(specs) /\ Len(specs) \in Nat
      /\ \A i \in DOMAIN specs : specs[i].line \in Int
      /\ Firsts(specs) \subseteq DOMAIN specs
      /\ \A i \in Firsts(specs) : specs[i].line \in Nat
  BY RequestEntries
<1> DEFINE L == { specs[i].line : i \in Firsts(specs) }
<1>2. /\ DOMAIN replace(specs) = L
      /\ \A l \in L : /\ replace(specs)[l].id = MintedId(specs, l)
                      /\ replace(specs)[l].spec = specs[Spelling(specs, l)].spec
  BY DEF replace
<1>3. ASSUME NEW i \in DOMAIN specs, specs[i].line >= 0
      PROVE  i \in Firsts(specs)
  <2>1. ASSUME NEW j \in 1 .. (i - 1), specs[j].line = specs[i].line
        PROVE  FALSE
    <3>1. j \in DOMAIN specs /\ j # i
      BY <1>1
    <3> QED
      BY <3>1, <2>1, <1>1, <1>3 DEF OneEntryPerLine
  <2> QED
    BY <1>3, <2>1 DEF Firsts, First
<1>4. ASSUME NEW i \in DOMAIN specs, specs[i].line >= 0
      PROVE  specs[i].line \in L /\ Spelling(specs, specs[i].line) = i
  <2>1. specs[i].line \in L
    BY <1>3, <1>4
  <2>2. /\ Spelling(specs, specs[i].line) \in DOMAIN specs
        /\ specs[Spelling(specs, specs[i].line)].line = specs[i].line
    BY <2>1, <1>1, SpellingNames
  <2> QED
    BY <2>1, <2>2, <1>1, <1>4 DEF OneEntryPerLine
<1>5. \A l, m \in L : MintedId(specs, l) = MintedId(specs, m) => l = m
  BY MintedApart
<1>6. \A l \in L : \E i \in DOMAIN specs : specs[i].line = l /\ specs[i].line >= 0
  BY <1>1
<1> QED
  <2> HIDE DEF L
  <2> QED
    BY <1>2, <1>4, <1>5, <1>6

LEMMA SetVerdicts ==
  ASSUME OneEntryPerLine, IInv, Verdicts, NEW f \in Files, NEW specs \in Requests, set(f, specs)
  PROVE  Verdicts'
<1>1. TypeOK /\ Apart /\ Told /\ Prepared /\ next_id \in Nat
  BY DEF IInv, Verdicts, TypeOK
<1> DEFINE R == replace(specs)
<1>2. /\ srv = "idle" /\ srv' # "idle"
      /\ by_path' = [by_path EXCEPT ![f] = R]
      /\ request'.file = f /\ request'.answers = Requested(specs)
      /\ UNCHANGED <<program, view>>
  BY DEF set
<1>3. /\ DOMAIN by_path = Files
      /\ \A g \in Files : \A l \in DOMAIN by_path[g] : by_path[g][l].id \in 1 .. next_id
      /\ DOMAIN view \subseteq 1 .. next_id
  BY <1>1 DEF TypeOK
<1>4. by_path'[f] = R /\ \A g \in Files \ {f} : by_path'[g] = by_path[g]
  BY <1>2, <1>3
<1>5. \A l \in DOMAIN R : R[l].id \in Int /\ R[l].id > next_id
  BY <1>1, ReplaceStores, FirstsAreFinite
<1>6. \A l, m \in DOMAIN R : R[l].id = R[m].id => l = m
  BY <1>1, OneSpelling
<1> HIDE DEF R
<1>7. Apart'
  <2>1. \A g, h \in Files : \A l \in DOMAIN by_path'[g], m \in DOMAIN by_path'[h] :
          by_path'[g][l].id = by_path'[h][m].id => g = h /\ l = m
    <3> SUFFICES ASSUME NEW g \in Files, NEW h \in Files,
                        NEW l \in DOMAIN by_path'[g], NEW m \in DOMAIN by_path'[h],
                        by_path'[g][l].id = by_path'[h][m].id
                 PROVE  g = h /\ l = m
      OBVIOUS
    <3>1. CASE g = f /\ h = f
      BY <3>1, <1>4, <1>6
    <3>2. CASE g # f /\ h # f
      BY <3>2, <1>1, <1>4 DEF Apart
    <3>3. CASE g = f /\ h # f
      BY <3>3, <1>1, <1>3, <1>4, <1>5
    <3>4. CASE g # f /\ h = f
      BY <3>4, <1>1, <1>3, <1>4, <1>5
    <3> QED
      BY <3>1, <3>2, <3>3, <3>4
  <2> QED
    BY <2>1 DEF Apart
<1>8. Told'
  <2>1. \A g \in Files : Answered(g)' <=> g # f
    BY <1>2 DEF Answered
  <2>2. \A g \in Files : Answered(g)
    BY <1>2 DEF Answered
  <2>3. \A g \in Files \ {f} : \A l \in DOMAIN by_path'[g] :
          /\ by_path'[g][l].id \in DOMAIN view'
          /\ view'[by_path'[g][l].id] = answer(program, g, l, by_path'[g][l].spec)
    BY <2>2, <1>1, <1>2, <1>4 DEF Told
  <2>4. \A id \in DOMAIN view' :
          /\ view'[id].file \in Files
          /\ view'[id].file # f => id \in Ids(by_path'[view'[id].file])
    BY <2>2, <1>1, <1>2, <1>4 DEF Told
  <2>5. \A g, l, spec : answer(program, g, l, spec)' = answer(program, g, l, spec)
    BY <1>2 DEF answer, Placeable, place, Below
  <2> QED
    BY <2>1, <2>3, <2>4, <2>5, <1>2 DEF Told, Ids
<1>9. Prepared'
  <2> DEFINE A == Requested(specs)
  <2>1. /\ DOMAIN A = DOMAIN specs
        /\ \A i \in DOMAIN specs :
             /\ A[i].line = specs[i].line /\ A[i].spec = specs[i].spec
             /\ A[i].id = IF specs[i].line < 0 THEN 0 ELSE MintedId(specs, specs[i].line)
    BY DEF Requested
  <2>2. \A i \in DOMAIN specs : specs[i].line \in Int /\ i \in Int
    BY RequestEntries
  <2>3. \A i \in DOMAIN specs : ~ (specs[i].line < 0) =>
          specs[i].line \in DOMAIN R /\ R[specs[i].line].id = A[i].id /\ R[specs[i].line].spec = A[i].spec
    <3> HIDE DEF A
    <3> QED
      BY <2>1, <2>2, <1>1, OneSpelling DEF R
  <2>4. \A l \in DOMAIN R : \E i \in DOMAIN specs : specs[i].line = l /\ ~ (specs[i].line < 0)
    <3> HIDE DEF A
    <3> QED
      BY <2>2, <1>1, OneSpelling DEF R
  <2> HIDE DEF A
  <2>5. \A i \in DOMAIN A : A[i].id # 0 =>
          A[i].line \in DOMAIN R /\ R[A[i].line].id = A[i].id /\ R[A[i].line].spec = A[i].spec
    BY <2>1, <2>3
  <2>6. \A l \in DOMAIN R : \E i \in DOMAIN A : A[i].id = R[l].id
    BY <2>1, <2>3, <2>4
  <2>7. \A i, j \in DOMAIN A : A[i].id = A[j].id => i = j \/ A[i].id = 0
    <3> SUFFICES ASSUME NEW i \in DOMAIN A, NEW j \in DOMAIN A, A[i].id = A[j].id, A[i].id # 0
                 PROVE  i = j
      OBVIOUS
    <3>1. A[i].line = A[j].line
      BY <2>5, <1>6
    <3>2. specs[i].line = specs[j].line /\ ~ (specs[i].line < 0)
      BY <3>1, <2>1
    <3> QED
      BY <3>2, <2>1 DEF OneEntryPerLine
  <2> QED
    BY <2>1, <2>2, <2>5, <2>6, <2>7, <1>2, <1>4 DEF Prepared, A
<1> QED
  BY <1>7, <1>8, <1>9 DEF Verdicts

LEMMA RespondVerdicts ==
  ASSUME IInv, Verdicts, respond
  PROVE  Verdicts'
<1>1. TypeOK /\ Counted /\ Apart /\ Told /\ Prepared
  BY DEF IInv, Verdicts
<1> DEFINE f == request.file
           A == request.answers
           named == { A[i].id : i \in DOMAIN A } \ {0}
           last(id) == Max({ i \in DOMAIN A : A[i].id = id })
           kept == { id \in DOMAIN view : view[id].file # f }
<1>2. /\ srv = "respond" /\ srv' = "idle"
      /\ view' = [id \in kept \cup named |->
                    IF id \in named
                    THEN answer(program, f, A[last(id)].line, A[last(id)].spec)
                    ELSE view[id]]
      /\ UNCHANGED <<by_path, program>>
  BY DEF respond
<1>3. /\ f \in Files
      /\ \A i \in DOMAIN A : A[i].id # 0 =>
           /\ A[i].line \in DOMAIN by_path[f]
           /\ by_path[f][A[i].line].id = A[i].id
           /\ by_path[f][A[i].line].spec = A[i].spec
      /\ \A l \in DOMAIN by_path[f] : \E i \in DOMAIN A : A[i].id = by_path[f][l].id
      /\ \A i, j \in DOMAIN A : A[i].id = A[j].id => i = j \/ A[i].id = 0
      /\ DOMAIN A \subseteq Int
  BY <1>1, <1>2 DEF Prepared
<1>4. ASSUME NEW i \in DOMAIN A, A[i].id # 0
      PROVE  last(A[i].id) = i
  <2>1. { j \in DOMAIN A : A[j].id = A[i].id } = {i}
    BY <1>3, <1>4
  <2>2. i \in Int
    BY <1>3
  <2>3. Max({i}) = i
    BY <2>2 DEF Max
  <2> QED
    BY <2>1, <2>3
<1> HIDE DEF last
(* The entry for a stored line is the one that names it.                    *)
<1>5. ASSUME NEW l \in DOMAIN by_path[f]
      PROVE  /\ by_path[f][l].id \in named
             /\ view'[by_path[f][l].id] = answer(program, f, l, by_path[f][l].spec)
  <2>1. PICK i \in DOMAIN A : A[i].id = by_path[f][l].id
    BY <1>3
  <2>2. A[i].id \in 1 .. next_id /\ next_id \in Nat
    BY <1>1, <1>3, <2>1 DEF TypeOK
  <2>3. A[i].id # 0
    BY <2>2
  <2>4. A[i].line = l /\ A[i].spec = by_path[f][l].spec /\ last(A[i].id) = i
    BY <2>1, <2>3, <1>1, <1>3, <1>4 DEF Apart
  <2>5. A[i].id \in named
    BY <2>3
  <2> HIDE DEF A, f, named, kept
  <2> QED
    BY <2>1, <2>4, <2>5, <1>2
<1>6. ASSUME NEW g \in Files \ {f}, NEW l \in DOMAIN by_path[g]
      PROVE  /\ by_path[g][l].id \in kept \ named
             /\ view'[by_path[g][l].id] = answer(program, g, l, by_path[g][l].spec)
  <2>1. /\ by_path[g][l].id \in DOMAIN view
        /\ view[by_path[g][l].id] = answer(program, g, l, by_path[g][l].spec)
    BY <1>1, <1>2 DEF Told, Answered
  <2>2. view[by_path[g][l].id].file = g
    BY <2>1 DEF answer
  <2>3. by_path[g][l].id \notin named
    BY <1>1, <1>3 DEF Apart
  <2>4. by_path[g][l].id \in kept
    BY <2>1, <2>2
  <2> HIDE DEF named, kept
  <2> QED
    BY <2>1, <2>3, <2>4, <1>2
<1>7. ASSUME NEW id \in DOMAIN view'
      PROVE  view'[id].file \in Files /\ id \in Ids(by_path[view'[id].file])
  <2>1. id \in kept \cup named
    BY <1>2
  <2>2. CASE id \in named
    <3>1. PICK i \in DOMAIN A : id = A[i].id /\ A[i].id # 0
      BY <2>2
    <3>2. view'[id].file = f
      BY <2>2, <1>2 DEF answer
    <3>3. id \in Ids(by_path[f])
      BY <3>1, <1>3 DEF Ids
    <3> QED
      BY <3>2, <3>3, <1>3
  <2>3. CASE id \notin named
    <3>1. id \in DOMAIN view /\ view[id].file # f /\ view'[id] = view[id]
      BY <2>1, <2>3, <1>2
    <3> QED
      BY <3>1, <1>1, <1>2 DEF Told, Answered
  <2> QED
    BY <2>2, <2>3
<1>8. Told'
  <2>1. \A g \in Files : \A l \in DOMAIN by_path[g] :
          /\ by_path[g][l].id \in DOMAIN view'
          /\ view'[by_path[g][l].id] = answer(program, g, l, by_path[g][l].spec)
    <3> HIDE DEF named, kept, A
    <3>1. DOMAIN view' = kept \cup named
      BY <1>2
    <3> HIDE DEF f
    <3> QED
      BY <3>1, <1>3, <1>5, <1>6
  <2>2. by_path' = by_path /\ program' = program
    BY <1>2
  <2> HIDE DEF named, kept, A, f
  <2>3. \A g \in Files : \A l \in DOMAIN by_path'[g] :
          /\ by_path'[g][l].id \in DOMAIN view'
          /\ view'[by_path'[g][l].id] = answer(program', g, l, by_path'[g][l].spec)
    BY <2>1, <2>2
  <2>4. \A id \in DOMAIN view' :
          view'[id].file \in Files /\ id \in Ids(by_path'[view'[id].file])
    BY <2>2, <1>7
  <2> QED
    BY <2>3, <2>4 DEF Told, Ids
<1> QED
  BY <1>1, <1>2, <1>8 DEF Verdicts, Apart, Prepared

LEMMA ConfigureVerdicts ==
  ASSUME IInv, Verdicts, configuration_done
  PROVE  Verdicts'
<1>1. TypeOK /\ Apart /\ Told /\ Prepared
  BY DEF IInv, Verdicts
<1> DEFINE All == UNION { Ids(by_path[f]) : f \in Files }
           file(id) == CHOOSE g \in Files : id \in Ids(by_path[g])
           line(id) == CHOOSE l \in DOMAIN by_path[file(id)] : by_path[file(id)][l].id = id
<1>2. /\ srv = "idle" /\ srv' = "idle" /\ program' = TRUE
      /\ view' = [id \in All |->
                    answer(TRUE, file(id), line(id), by_path[file(id)][line(id)].spec)]
      /\ UNCHANGED <<by_path, request>>
  BY DEF configuration_done
<1>3. ASSUME NEW g \in Files, NEW l \in DOMAIN by_path[g]
      PROVE  /\ by_path[g][l].id \in All
             /\ file(by_path[g][l].id) = g /\ line(by_path[g][l].id) = l
  <2>1. by_path[g][l].id \in Ids(by_path[g])
    BY DEF Ids
  <2>2. \A h \in Files : by_path[g][l].id \in Ids(by_path[h]) => h = g
    BY <1>1 DEF Ids, Apart
  <2>3. file(by_path[g][l].id) = g
    BY <2>1, <2>2
  <2>4. \A m \in DOMAIN by_path[g] : by_path[g][m].id = by_path[g][l].id => m = l
    BY <1>1 DEF Apart
  <2>5. line(by_path[g][l].id) = l
    BY <2>3, <2>4
  <2> QED
    BY <2>1, <2>3, <2>5
<1> HIDE DEF file, line
<1>4. \A g \in Files : \A l \in DOMAIN by_path[g] :
        /\ by_path[g][l].id \in DOMAIN view'
        /\ view'[by_path[g][l].id] = answer(TRUE, g, l, by_path[g][l].spec)
  <2> HIDE DEF All
  <2> QED
    BY <1>2, <1>3
<1>5. ASSUME NEW id \in DOMAIN view'
      PROVE  view'[id].file \in Files /\ id \in Ids(by_path[view'[id].file])
  <2>1. PICK g \in Files : id \in Ids(by_path[g])
    BY <1>2
  <2>2. PICK l \in DOMAIN by_path[g] : id = by_path[g][l].id
    BY <2>1 DEF Ids
  <2>3. view'[id] = answer(TRUE, g, l, by_path[g][l].spec)
    BY <2>2, <1>4
  <2>4. answer(TRUE, g, l, by_path[g][l].spec).file = g
    BY DEF answer
  <2>5. view'[id].file = g
    BY <2>3, <2>4
  <2> QED
    BY <2>1, <2>5
<1>6. Told'
  <2>1. \A g \in Files : \A l \in DOMAIN by_path'[g] :
          /\ by_path'[g][l].id \in DOMAIN view'
          /\ view'[by_path'[g][l].id] = answer(program', g, l, by_path'[g][l].spec)
    <3> HIDE DEF All
    <3>1. by_path' = by_path
      BY <1>2
    <3>2. program' <=> TRUE
      BY <1>2
    <3>3. \A g, l, spec : answer(program', g, l, spec) = answer(TRUE, g, l, spec)
      BY <3>2 DEF answer
    <3>4. ASSUME NEW g \in Files, NEW l \in DOMAIN by_path[g]
          PROVE  view'[by_path[g][l].id] = answer(program', g, l, by_path[g][l].spec)
      <4>1. view'[by_path[g][l].id] = answer(TRUE, g, l, by_path[g][l].spec)
        BY <1>4
      <4>2. answer(program', g, l, by_path[g][l].spec) = answer(TRUE, g, l, by_path[g][l].spec)
        BY <3>3
      <4> QED
        BY <4>1, <4>2, Zenon
    <3> QED
      BY <3>1, <3>4, <1>4
  <2>2. \A id \in DOMAIN view' :
          view'[id].file \in Files /\ id \in Ids(by_path'[view'[id].file])
    BY <1>2, <1>5
  <2> QED
    BY <2>1, <2>2 DEF Told, Ids
<1> QED
  BY <1>1, <1>2, <1>6 DEF Verdicts, Apart, Prepared

(* A step that leaves the store, the request and the view alone.            *)
LEMMA UntouchedVerdicts ==
  ASSUME Verdicts, UNCHANGED <<by_path, view, program, request>>,
         (srv = "idle") = (srv' = "idle")
  PROVE  Verdicts'
<1>1. \A g, l, spec : answer(program, g, l, spec)' = answer(program, g, l, spec)
  BY DEF answer, Placeable, place, Below
<1>2. Told'
  BY <1>1 DEF Verdicts, Told, Answered, Ids
<1> QED
  BY <1>2 DEF Verdicts, Apart, Prepared

LEMMA NextVerdicts == OneEntryPerLine /\ IInv /\ Verdicts /\ [Next]_vars => Verdicts'
<1> SUFFICES ASSUME OneEntryPerLine, IInv, Verdicts, [Next]_vars
             PROVE  Verdicts'
  OBVIOUS
<1>1. CASE \E f \in Files, specs \in Requests : set(f, specs)
  BY <1>1, SetVerdicts
<1>2. CASE respond
  BY <1>2, RespondVerdicts
<1>3. CASE configuration_done
  BY <1>3, ConfigureVerdicts
<1>4. CASE retain_hits \/ install_table
  BY <1>4, UntouchedVerdicts DEF retain_hits, install_table
<1>5. CASE \/ \E key \in Keys : breakpoint_at(key)
           \/ fires_condition \/ fires_hit \/ fires_always \/ resumed
  BY <1>5, UntouchedVerdicts DEF breakpoint_at, fires_condition, fires_hit, fires_always,
                                 resumed, server
<1>6. CASE UNCHANGED vars
  BY <1>6, UntouchedVerdicts DEF vars, server
<1> QED
  BY <1>1, <1>2, <1>3, <1>4, <1>5, <1>6 DEF Next

LEMMA InitVerdicts == Init => Verdicts
<1> SUFFICES ASSUME Init PROVE Verdicts
  OBVIOUS
<1>1. DOMAIN Empty = {}
  BY DEF Empty
<1>2. /\ srv = "idle" /\ view = Empty
      /\ \A f \in Files : by_path[f] = Empty
  BY DEF Init
<1> QED
  BY <1>1, <1>2 DEF Verdicts, Apart, Told, Prepared

LEMMA VerdictsHold == ASSUME OneEntryPerLine PROVE Spec => [](IInv /\ Verdicts)
<1>1. Init => IInv /\ Verdicts
  BY InitIInv, InitVerdicts
<1>2. IInv /\ Verdicts /\ [Next]_vars => (IInv /\ Verdicts)'
  BY NextKeeps, NextVerdicts
<1> QED
  BY <1>1, <1>2, PTL DEF Spec

(* A line the client was told is live is where a stored breakpoint lands,   *)
(* so the lowest that lands there is in the debuggee's table.               *)
THEOREM VerifiedIsArmed ==
  ASSUME OneEntryPerLine
  PROVE  Spec => []VerifiedLineIsArmed
<1>1. IInv /\ Verdicts => VerifiedLineIsArmed
  <2> SUFFICES ASSUME IInv, Verdicts, Settled, NEW id \in DOMAIN view, view[id].verified
               PROVE  <<view[id].file, view[id].line>> \in DOMAIN breakpoints
    BY DEF VerifiedLineIsArmed
  <2>1. TypeOK /\ Controlled /\ Installed /\ Told
    BY DEF IInv, Verdicts
  <2>2. breakpoints = by_source /\ program /\ srv = "idle"
    BY <2>1 DEF Settled, Controlled, Installed
  <2>3. /\ view[id].file \in Files
        /\ id \in Ids(by_path[view[id].file])
    BY <2>1, <2>2 DEF Told, Answered
  <2>4. PICK l \in DOMAIN by_path[view[id].file] : by_path[view[id].file][l].id = id
    BY <2>3 DEF Ids
  <2> DEFINE f == view[id].file
             spec == by_path[f][l].spec
  <2>5. view[id] = answer(program, f, l, spec)
    BY <2>1, <2>2, <2>3, <2>4 DEF Told, Answered
  <2>6. /\ Placeable(f, l) /\ spec.compiles /\ view[id].line = place(f, l)
    BY <2>5, <2>2 DEF answer
  <2>7. place(f, l) \in Safepoints[f]
    <3>1. Below(f, l) \in SUBSET Nat /\ Below(f, l) # {}
      BY <2>6, PlacesAssumption DEF Placeable, Below
    <3>2. place(f, l) \in Below(f, l)
      BY <3>1, MinIsLeast DEF place
    <3> QED
      BY <3>2 DEF Below
  <2>8. <<f, place(f, l)>> \in Keys
    BY <2>6, <2>7 DEF Keys, Placeable
  <2>9. l \in Landing(f, place(f, l))
    BY <2>6, <2>4 DEF Landing
  <2>10. <<f, place(f, l)>> \in DOMAIN by_source
    BY <2>8, <2>9 DEF by_source
  <2> QED
    BY <2>2, <2>6, <2>10
<1> QED
  BY <1>1, VerdictsHold, PTL

(* An entry of the debuggee's table is a stored breakpoint whose verdict,   *)
(* however long ago it was given, is the safepoint it stands at.            *)
THEOREM ArmedIsTold ==
  ASSUME OneEntryPerLine
  PROVE  Spec => []ArmedIsVerified
<1>1. IInv /\ Verdicts => ArmedIsVerified
  <2> SUFFICES ASSUME IInv, Verdicts, Settled, NEW k \in DOMAIN breakpoints
               PROVE  /\ breakpoints[k].id \in DOMAIN view
                      /\ view[breakpoints[k].id]
                           = [file |-> k[1], verified |-> TRUE, line |-> k[2]]
    BY DEF ArmedIsVerified
  <2>1. TypeOK /\ Controlled /\ Installed /\ Told
    BY DEF IInv, Verdicts
  <2>2. breakpoints = by_source /\ program /\ srv = "idle"
    BY <2>1 DEF Settled, Controlled, Installed
  <2>3. Lined
    BY <2>1 DEF TypeOK, Lined
  <2> DEFINE l == Min(Landing(k[1], k[2]))
  <2>4. /\ k[1] \in Files /\ l \in Landing(k[1], k[2])
        /\ breakpoints[k] = by_path[k[1]][l]
    <3>1. SourceIsStored
      BY <2>3, ArmedIsStored
    <3>2. k \in DOMAIN by_source
      BY <2>2
    <3> QED
      BY <2>2, <3>1, <3>2, Zenon DEF SourceIsStored
  <2> HIDE DEF l
  <2>5. /\ l \in DOMAIN by_path[k[1]] /\ Placeable(k[1], l) /\ place(k[1], l) = k[2]
        /\ by_path[k[1]][l].spec.compiles
    BY <2>4 DEF Landing
  <2>6. /\ by_path[k[1]][l].id \in DOMAIN view
        /\ view[by_path[k[1]][l].id] = answer(program, k[1], l, by_path[k[1]][l].spec)
    BY <2>1, <2>2, <2>4, <2>5 DEF Told, Answered
  <2>7. answer(program, k[1], l, by_path[k[1]][l].spec)
          = [file |-> k[1], verified |-> TRUE, line |-> k[2]]
    BY <2>2, <2>5 DEF answer
  <2> QED
    BY <2>4, <2>6, <2>7
<1> QED
  BY <1>1, VerdictsHold, PTL
=============================================================================
