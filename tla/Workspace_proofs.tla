-------------------------- MODULE Workspace_proofs --------------------------
(***************************************************************************)
(* Proofs about Workspace, for any files, project, texts and includes: its *)
(* types and that no step of the buffers loses an input; and, for orderly  *)
(* moves, that a file is one input, that a buffer shadows its file, and    *)
(* that a closed file of the project is analysed as it is on disk.         *)
(***************************************************************************)
EXTENDS Workspace, SequenceTheorems, FiniteSetTheorems, TLAPS

Input == [path : Paths, text : Texts]
Entries(I) == [input : I, text : Texts]
IsInputs(ins) == ins \in [DOMAIN ins -> Input]

(* A map of paths, and the inputs and the maps that a handler leaves to     *)
(* resync, or resync to the next handler.                                   *)
IsMap(f, V) == DOMAIN f \subseteq Paths /\ f \in [DOMAIN f -> V]

IsWorld(w) ==
  /\ w = [inputs |-> w.inputs, docs |-> w.docs, indexed |-> w.indexed, retained |-> w.retained]
  /\ IsFiniteSet(DOMAIN w.inputs) /\ DOMAIN w.inputs \subseteq Nat
  /\ w.inputs \in [DOMAIN w.inputs -> Input]
  /\ IsMap(w.docs, Entries(DOMAIN w.inputs))
  /\ IsMap(w.indexed, Entries(DOMAIN w.inputs))
  /\ IsMap(w.retained, Entries(DOMAIN w.inputs))

Events == [type : {"changed", "created", "deleted"}, path : Project]

TypeInv ==
  /\ IsMap(disk, Texts) /\ IsWorld(Now)
  /\ IsMap(files, DOMAIN inputs)
  /\ tabs \subseteq Paths /\ ready \in BOOLEAN /\ changes \in 0 .. MaxChanges
  /\ watched \in Seq(Events) /\ moving \subseteq Moves

(* One input stands for a path, in all the maps that have it, and is the    *)
(* only one that carries it; a buffer gives it its text.                    *)
Carries(ins, f) == \A p \in DOMAIN f : ins[f[p].input].path = p
Meet(f, g) == \A p \in DOMAIN f \cap DOMAIN g : f[p].input = g[p].input
OneEach(w) ==
  /\ Carries(w.inputs, w.docs) /\ Carries(w.inputs, w.indexed) /\ Carries(w.inputs, w.retained)
  /\ Meet(w.docs, w.indexed) /\ Meet(w.docs, w.retained) /\ Meet(w.indexed, w.retained)

HeldBy(w) == Held(w.docs) \cup Held(w.indexed) \cup Held(w.retained)
Shown(w) == \A p \in DOMAIN w.docs : w.inputs[w.docs[p].input].text = w.docs[p].text

Ordered ==
  /\ OneEach(Now) /\ Shown(Now) /\ DOMAIN inputs = HeldBy(Now)
  /\ \A p \in DOMAIN files : inputs[files[p]].path = p

(* What is under way while the server has not heard of a move.              *)
InMove ==
  \A m \in moving :
    /\ moving = {m} /\ ready
    /\ m[2] \in DOMAIN disk /\ m[1] \in DOMAIN files
    /\ m[2] \notin DOMAIN docs \cup DOMAIN indexed \cup DOMAIN retained

OrderInv == TypeInv /\ Ordered /\ InMove

(* What the server has not heard of a file, and what it knows of it.        *)
Heard(type, p) == \E n \in DOMAIN watched : watched[n] = [type |-> type, path |-> p]

Informed(p) ==
  \/ p \in DOMAIN disk /\ p \in DOMAIN docs
  \/ p \in DOMAIN disk /\ inputs[indexed[p].input].text = disk[p]
  \/ p \in DOMAIN disk /\ Heard("changed", p)
  \/ Heard("deleted", p)
  \/ \E m \in moving : m[1] = p

DiskInv ==
  /\ DOMAIN indexed \subseteq Project
  /\ \A p \in DOMAIN indexed : Informed(p)
  /\ \A m \in moving :
       m[1] \in DOMAIN indexed \ DOMAIN docs => inputs[indexed[m[1]].input].text = disk[m[2]]
-----------------------------------------------------------------------------
(***************************************************************************)
(* The inputs that files are given, and the texts given to them.            *)
(***************************************************************************)
(* There is room for a new input for every file.                            *)
LEMMA NewInputs ==
  ASSUME NEW w, IsFiniteSet(DOMAIN w.inputs), DOMAIN w.inputs \subseteq Nat, NEW S \in SUBSET Paths
  PROVE  /\ Minted(w, S) \in [S -> Nat \ DOMAIN w.inputs]
         /\ IsInjective(Minted(w, S))
<1> DEFINE D == DOMAIN w.inputs
<1> DEFINE c == Cardinality(D)
<1> DEFINE n == Cardinality(Paths)
<1> DEFINE m == Cardinality(S)
<1> DEFINE k == Cardinality(Unused(w))
<1>1. IsFiniteSet(Paths)
  BY WorkspaceAssumption, Zenon
<1>2. c \in Nat /\ n \in Nat
  BY <1>1, FS_CardinalityType
<1>3. IsFiniteSet(S) /\ m \in Nat /\ m <= n
  BY <1>1, FS_Subset, FS_CardinalityType
<1>4. Unused(w) = (1 .. c + n) \ D
  BY DEF Unused
<1> HIDE DEF n, m
<1>5. IsFiniteSet(1 .. c + n) /\ Cardinality(1 .. c + n) = c + n
  <2> HIDE DEF c
  <2>1. /\ IsFiniteSet(1 .. c + n)
        /\ Cardinality(1 .. c + n) = IF 1 > c + n THEN 0 ELSE c + n - 1 + 1
    BY <1>2, FS_Interval
  <2> QED BY <1>2, <2>1
<1>7. Cardinality((1 .. c + n) \cap D) <= c /\ Cardinality((1 .. c + n) \cap D) \in Nat
  BY FS_Intersection, FS_CardinalityType
<1>6. /\ IsFiniteSet(Unused(w))
      /\ k = c + n - Cardinality((1 .. c + n) \cap D)
  <2>1. /\ IsFiniteSet((1 .. c + n) \ D)
        /\ Cardinality((1 .. c + n) \ D) = Cardinality(1 .. c + n) - Cardinality((1 .. c + n) \cap D)
    BY <1>5, FS_Difference, Zenon
  <2>2. /\ IsFiniteSet(Unused(w))
        /\ Cardinality(Unused(w)) = Cardinality((1 .. c + n) \ D)
    BY <1>4, <2>1, Zenon
  <2>3. Cardinality(1 .. c + n) = c + n
    BY <1>5, Zenon
  <2> HIDE DEF c
  <2> HIDE DEF D
  <2> QED BY <1>2, <1>7, <2>1, <2>2, <2>3
<1> DEFINE b == Cardinality((1 .. c + n) \cap D)
<1>8. k \in Nat /\ m <= k
  <2>1. k = c + n - b /\ b <= c /\ b \in Nat
    BY <1>6, <1>7
  <2>2. k \in Nat
    BY <1>6, FS_CardinalityType
  <2> HIDE DEF b, c, k
  <2> QED BY <2>1, <2>2, <1>2, <1>3
<1>9. ExistsBijection(1 .. m, S) /\ ExistsBijection(1 .. k, Unused(w))
  BY <1>3, <1>6, FS_CardinalityType DEF m
<1>10. PICK f : f \in Bijection(1 .. k, Unused(w))
  BY <1>9 DEF ExistsBijection
<1>11. ExistsBijection(S, 1 .. m)
  <2>1. IsFiniteSet(1 .. m) /\ Cardinality(1 .. m) = m
    <3>1. /\ IsFiniteSet(1 .. m)
          /\ Cardinality(1 .. m) = IF 1 > m THEN 0 ELSE m - 1 + 1
      BY <1>3, FS_Interval
    <3> QED BY <1>3, <3>1
  <2> QED BY <1>3, <2>1, FS_SameCardinalityBij DEF m
<1>12. PICK g : g \in Bijection(S, 1 .. m)
  BY <1>11 DEF ExistsBijection
<1> DEFINE h == [p \in S |-> f[g[p]]]
<1>13. \A p \in S : g[p] \in 1 .. k
  BY <1>3, <1>8, <1>12 DEF Bijection, Injection
<1>14. h \in [S -> Unused(w)]
  BY <1>10, <1>13 DEF Bijection, Injection
<1>15. \A p, q \in S : h[p] = h[q] => p = q
  <2> SUFFICES ASSUME NEW p \in S, NEW q \in S, h[p] = h[q] PROVE p = q
    OBVIOUS
  <2>1. f[g[p]] = f[g[q]]
    OBVIOUS
  <2>2. g[p] = g[q]
    BY <1>10, <1>13, <2>1 DEF Bijection, Injection, IsInjective
  <2> QED BY <1>12, <2>2 DEF Bijection, Injection, IsInjective
<1>16. IsInjective(h)
  BY <1>14, <1>15, Zenon DEF IsInjective
<1>17. Minted(w, S) \in [S -> Unused(w)] /\ IsInjective(Minted(w, S))
  BY <1>14, <1>16, Zenon DEF Minted
<1>18. Unused(w) \subseteq Nat \ DOMAIN w.inputs
  <2> HIDE DEF c, k
  <2> QED BY <1>2, <1>4 
<1> QED BY <1>17, <1>18

(* What inputs hold once some were given a text.                            *)
LEMMA SetTextsTypes ==
  ASSUME NEW w, NEW own, NEW text, NEW ins, ins = set_texts(w, own, text),
         w.inputs \in [DOMAIN w.inputs -> Input],
         own \in [DOMAIN own -> Nat], DOMAIN own \subseteq Paths,
         \A p \in DOMAIN own : text[p] \in Texts
  PROVE  /\ DOMAIN ins = DOMAIN w.inputs \cup Range(own)
         /\ ins \in [DOMAIN ins -> Input]
         /\ \A i \in DOMAIN w.inputs \ Range(own) : ins[i] = w.inputs[i]
<1> DEFINE D == DOMAIN w.inputs
<1> DEFINE S == DOMAIN own
<1> DEFINE FileOf(i) == CHOOSE p \in DOMAIN own : own[p] = i
<1> DEFINE told == [i \in Range(own) |->
             [path |-> IF i \in DOMAIN w.inputs THEN w.inputs[i].path ELSE FileOf(i),
              text |-> text[FileOf(i)]]]
<1>1. \A i \in Range(own) : FileOf(i) \in S
  BY DEF Range
<1> HIDE DEF FileOf
<1>2. told \in [Range(own) -> Input]
  BY <1>1 DEF Input
<1>3. ins = Over(told, w.inputs)
  BY DEF set_texts, FileOf
<1> HIDE DEF told
<1>4. /\ ins \in [Range(own) \cup D -> Input] /\ DOMAIN ins = Range(own) \cup D
      /\ \A i \in D \ Range(own) : ins[i] = w.inputs[i]
  <2>1. told \in [Range(own) -> Input] /\ w.inputs \in [D -> Input]
    BY <1>2
  <2> QED BY <1>3, <2>1 DEF Over
<1>5. Range(own) \cup D = D \cup Range(own)
  BY Zenon
<1> QED BY <1>4, <1>5, Zenon

(* The other inputs hold what they held, and a file's own input its text.   *)
LEMMA OtherTexts ==
  ASSUME NEW w, NEW own, NEW text, NEW i \in DOMAIN w.inputs \ Range(own)
  PROVE  set_texts(w, own, text)[i] = w.inputs[i]
BY DEF set_texts, Over

LEMMA SetTexts ==
  ASSUME NEW w, NEW own, NEW text, NEW ins, ins = set_texts(w, own, text),
         IsInjective(own), NEW p \in DOMAIN own
  PROVE  /\ ins[own[p]].text = text[p]
         /\ own[p] \in DOMAIN w.inputs => ins[own[p]].path = w.inputs[own[p]].path
         /\ own[p] \notin DOMAIN w.inputs => ins[own[p]].path = p
<1> DEFINE FileOf(i) == CHOOSE q \in DOMAIN own : own[q] = i
<1> DEFINE told == [i \in Range(own) |->
             [path |-> IF i \in DOMAIN w.inputs THEN w.inputs[i].path ELSE FileOf(i),
              text |-> text[FileOf(i)]]]
<1>1. own[p] \in Range(own)
  BY DEF Range
<1>2. FileOf(own[p]) = p
  BY DEF IsInjective
<1>3. ins = Over(told, w.inputs)
  BY DEF set_texts
<1>4. ins[own[p]] = told[own[p]]
  BY <1>1, <1>3 DEF Over
<1> HIDE DEF FileOf
<1>5. told[own[p]].text = text[FileOf(own[p])]
  BY <1>1
<1>6. told[own[p]].path = IF own[p] \in DOMAIN w.inputs THEN w.inputs[own[p]].path ELSE FileOf(own[p])
  BY <1>1
<1> HIDE DEF told
<1> QED BY <1>2, <1>4, <1>5, <1>6

(* The inputs of some files: those kept for them, and new ones.             *)
LEMMA FileInputs ==
  ASSUME NEW w, IsWorld(w), NEW S \in SUBSET Paths, NEW own, own = InputsFor(w, S)
  PROVE  /\ own \in [S -> Nat] /\ DOMAIN own = S
         /\ \A p \in S \cap DOMAIN w.retained : own[p] = w.retained[p].input
         /\ \A p \in S \ DOMAIN w.retained : own[p] \notin DOMAIN w.inputs
<1> DEFINE new == Minted(w, S \ DOMAIN w.retained)
<1> DEFINE old == [p \in S \cap DOMAIN w.retained |-> w.retained[p].input]
<1>1. new \in [S \ DOMAIN w.retained -> Nat \ DOMAIN w.inputs]
  BY NewInputs DEF IsWorld
<1>2. old \in [S \cap DOMAIN w.retained -> Nat]
  BY DEF IsWorld, IsMap, Entries
<1>3. own = Over(new, old)
  BY DEF InputsFor
<1> HIDE DEF new
<1> QED BY <1>1, <1>2, <1>3 DEF Over

(* Different files get different inputs.                                    *)
LEMMA FileInputsApart ==
  ASSUME NEW w, IsWorld(w), Carries(w.inputs, w.retained),
         NEW S \in SUBSET Paths, NEW own, own = InputsFor(w, S)
  PROVE  IsInjective(own)
<1> DEFINE new == Minted(w, S \ DOMAIN w.retained)
<1>1. /\ own \in [S -> Nat] /\ DOMAIN own = S
      /\ \A p \in S \cap DOMAIN w.retained : own[p] = w.retained[p].input
      /\ \A p \in S \ DOMAIN w.retained : own[p] \notin DOMAIN w.inputs
  BY FileInputs
<1>2. new \in [S \ DOMAIN w.retained -> Nat \ DOMAIN w.inputs] /\ IsInjective(new)
  BY NewInputs DEF IsWorld
<1>3. \A p \in S \ DOMAIN w.retained : own[p] = new[p]
  <2> DEFINE old == [p \in S \cap DOMAIN w.retained |-> w.retained[p].input]
  <2>1. own = Over(new, old)
    BY DEF InputsFor
  <2> HIDE DEF new
  <2> QED BY <1>2, <2>1 DEF Over
<1> HIDE DEF new
<1>4. \A p \in S \cap DOMAIN w.retained : own[p] \in DOMAIN w.inputs /\ w.inputs[own[p]].path = p
  BY <1>1 DEF IsWorld, IsMap, Entries, Carries
<1> SUFFICES ASSUME NEW p \in S, NEW q \in S, own[p] = own[q] PROVE p = q
  BY <1>1, Zenon DEF IsInjective
<1>5. CASE p \in DOMAIN w.retained
  <2>1. q \in DOMAIN w.retained
    BY <1>1, <1>4, <1>5
  <2> QED BY <1>4, <1>5, <2>1
<1>6. CASE p \notin DOMAIN w.retained
  <2>1. q \notin DOMAIN w.retained
    BY <1>1, <1>4, <1>6
  <2> QED BY <1>2, <1>3, <1>6, <2>1 DEF IsInjective
<1> QED BY <1>5, <1>6

LEMMA Held1 ==
  ASSUME NEW f, NEW p \in DOMAIN f
  PROVE  f[p].input \in Held(f)
BY DEF Held

LEMMA HeldInputs ==
  ASSUME NEW f, NEW I, IsMap(f, Entries(I))
  PROVE  Held(f) \subseteq I
BY DEF Held, IsMap, Entries

LEMMA MapsOf ==
  ASSUME NEW f, NEW I, IsMap(f, Entries(I)), NEW J, Held(f) \subseteq J
  PROVE  IsMap(f, Entries(J))
BY DEF Held, IsMap, Entries

LEMMA RangeIsFinite ==
  ASSUME NEW f, NEW S \in SUBSET Paths, DOMAIN f = S, NEW V, f \in [S -> V]
  PROVE  IsFiniteSet(Range(f))
<1>1. IsFiniteSet(S)
  BY WorkspaceAssumption, FS_Subset, Zenon
<1>2. f \in Surjection(S, Range(f))
  BY DEF Surjection, Range
<1> QED BY <1>1, <1>2, FS_Surjection, Zenon

(* The walk reads files there are, and finds a text in each.                *)
LEMMA Walks ==
  ASSUME NEW w, IsWorld(w), IsMap(disk, Texts), NEW known
  PROVE  /\ Walked(w, known) \subseteq DOMAIN disk \ DOMAIN known
         /\ Walked(w, known) \subseteq Paths
         /\ \A p \in Walked(w, known) : WalkText(w, p) \in Texts /\ disk[p] \in Texts
<1>1. Walked(w, known) \subseteq DOMAIN disk \ DOMAIN known
  BY Zenon DEF Walked
<1>2. ASSUME NEW p \in DOMAIN disk PROVE WalkText(w, p) \in Texts /\ disk[p] \in Texts
  BY <1>2 DEF WalkText, Refreshed, IsMap, IsWorld, Entries, Input
<1> QED BY <1>1, <1>2 DEF IsMap
-----------------------------------------------------------------------------
(***************************************************************************)
(* resync: every handler leaves it a world, and it leaves a world.         *)
(***************************************************************************)
LEMMA Resynced ==
  ASSUME NEW w, IsWorld(w), IsMap(disk, Texts), resync(w)
  PROVE  /\ IsWorld(Now') /\ IsMap(files', DOMAIN inputs')
         /\ DOMAIN inputs' = HeldBy(Now') /\ docs' = w.docs /\ indexed' = w.indexed
         /\ Held(w.retained) \subseteq Held(retained')
<1>1. PICK known \in Resolutions(w) :
        LET walked == Walked(w, known)
            found == InputsFor(w, walked)
            now == set_texts(w, found, [p \in walked |-> WalkText(w, p)])
        IN /\ docs' = w.docs /\ indexed' = w.indexed
           /\ retained' = retain_walked(w, found)
           /\ files' = Over(found, known)
           /\ inputs' = Restrict(now, Held(docs') \cup Held(indexed') \cup Held(retained'))
  BY Zenon DEF resync
<1> DEFINE walked == Walked(w, known)
<1> DEFINE found == InputsFor(w, walked)
<1> DEFINE text == [p \in walked |-> WalkText(w, p)]
<1> DEFINE now == set_texts(w, found, text)
<1> DEFINE D == DOMAIN w.inputs
<1> DEFINE H == Held(docs') \cup Held(indexed') \cup Held(retained')
<1> DEFINE kept == [p \in DOMAIN found |-> Entry(found[p], disk[p])]
<1>2. /\ docs' = w.docs /\ indexed' = w.indexed
      /\ retained' = Over(kept, w.retained)
      /\ files' = Over(found, known)
      /\ inputs' = Restrict(now, H)
  BY <1>1, Zenon DEF retain_walked
<1>3. /\ walked \subseteq Paths /\ walked \in SUBSET Paths
      /\ \A p \in walked : WalkText(w, p) \in Texts /\ disk[p] \in Texts
  BY Walks, Zenon
<1> HIDE DEF walked
<1>4. /\ found \in [walked -> Nat] /\ DOMAIN found = walked
      /\ \A p \in walked \cap DOMAIN w.retained : found[p] = w.retained[p].input
  BY <1>3, FileInputs
<1> HIDE DEF found
<1>5. \A p \in walked : text[p] \in Texts
  BY <1>3
<1> HIDE DEF text
<1>6. now \in [DOMAIN now -> Input] /\ DOMAIN now = D \cup Range(found)
  <2>1. w.inputs \in [D -> Input]
    BY DEF IsWorld
  <2> QED BY <1>3, <1>4, <1>5, <2>1, SetTextsTypes
<1> HIDE DEF now
<1>7. /\ kept \in [walked -> Entries(Range(found))] /\ DOMAIN kept = walked
      /\ \A p \in walked : kept[p].input = found[p]
  BY <1>3, <1>4 DEF Entries, Entry, Range
<1> HIDE DEF kept
<1>8. /\ IsMap(w.docs, Entries(D)) /\ IsMap(w.indexed, Entries(D)) /\ IsMap(w.retained, Entries(D))
      /\ IsFiniteSet(D) /\ D \subseteq Nat
  BY Zenon DEF IsWorld
<1> HIDE DEF D
<1>9. /\ IsMap(retained', Entries(D \cup Range(found)))
      /\ DOMAIN retained' = walked \cup DOMAIN w.retained
      /\ \A p \in walked : retained'[p].input = found[p]
      /\ \A p \in DOMAIN w.retained \ walked : retained'[p] = w.retained[p]
  BY <1>2, <1>3, <1>7, <1>8 DEF Over, IsMap, Entries
<1>10. IsMap(docs', Entries(D)) /\ IsMap(indexed', Entries(D))
  BY <1>2, <1>8, Zenon
<1>11. Held(docs') \subseteq D /\ Held(indexed') \subseteq D /\ Held(retained') \subseteq D \cup Range(found)
  BY <1>9, <1>10, HeldInputs, Zenon
<1>12. H \subseteq D \cup Range(found)
  BY <1>11
<1>13. inputs' \in [H -> Input] /\ DOMAIN inputs' = H
  <2> HIDE DEF H
  <2> QED BY <1>2, <1>6, <1>12 DEF Restrict
<1>14. IsMap(docs', Entries(H)) /\ IsMap(indexed', Entries(H)) /\ IsMap(retained', Entries(H))
  BY <1>9, <1>10, MapsOf, Zenon
<1>15. IsFiniteSet(H) /\ H \subseteq Nat
  <2>1. IsFiniteSet(Range(found))
    BY <1>3, <1>4, RangeIsFinite
  <2>2. IsFiniteSet(D \cup Range(found))
    BY <1>8, <2>1, FS_Union, Zenon
  <2>3. Range(found) \subseteq Nat
    BY <1>4 DEF Range
  <2>4. IsFiniteSet(H)
    BY <1>12, <2>2, FS_Subset, Zenon
  <2> QED BY <1>8, <1>12, <2>3, <2>4
<1>16. \A p \in walked : found[p] \in H
  <2> TAKE p \in walked
  <2>1. retained'[p].input \in Held(retained')
    BY <1>9, Held1
  <2> QED BY <1>9, <2>1
<1>17. /\ DOMAIN known \subseteq Paths
       /\ known \in [DOMAIN known -> H]
  <2> DEFINE P == { w.inputs[i].path : i \in Targets(w) }
  <2>1. known \in [P -> Targets(w)]
    BY DEF Resolutions
  <2>2. Targets(w) \subseteq Held(docs') \cup Held(indexed')
    BY <1>2 DEF Targets, Unopened, Held
  <2>3. Targets(w) \subseteq D
    BY <1>11, <2>2
  <2>4. P \subseteq Paths
    BY <2>3 DEF D, IsWorld, Input
  <2> HIDE DEF P, H
  <2>5. Targets(w) \subseteq H
    BY <2>2 DEF H
  <2> QED BY <2>1, <2>4, <2>5
<1>18. IsMap(files', H)
  <2> HIDE DEF H
  <2> QED BY <1>2, <1>3, <1>4, <1>16, <1>17 DEF Over, IsMap
<1>19. Held(w.retained) \subseteq Held(retained')
  <2> SUFFICES ASSUME NEW p \in DOMAIN w.retained PROVE w.retained[p].input \in Held(retained')
    BY Zenon DEF Held
  <2>1. p \in DOMAIN retained' /\ retained'[p].input = w.retained[p].input
    BY <1>4, <1>9
  <2> QED BY <2>1, Held1
<1>20. /\ Now'.inputs = inputs' /\ Now'.docs = docs'
       /\ Now'.indexed = indexed' /\ Now'.retained = retained'
  BY DEF Now
<1>21. HeldBy(Now') = H
  BY <1>20, Zenon DEF HeldBy
<1> HIDE DEF H
<1>22. IsWorld(Now')
  <2>1. Now' = [inputs |-> inputs', docs |-> docs', indexed |-> indexed', retained |-> retained']
    BY Zenon DEF Now
  <2> QED BY <1>13, <1>14, <1>15, <1>20, <2>1, Zenon DEF IsWorld
<1> QED BY <1>2, <1>13, <1>18, <1>19, <1>21, <1>22, Zenon

(* ... where a path that had one input has the same, and the inputs of the  *)
(* open and the indexed files are left as they were.                        *)
LEMMA ResyncedInOrder ==
  ASSUME NEW w, IsWorld(w), IsMap(disk, Texts), resync(w), OneEach(w)
  PROVE  /\ OneEach(Now')
         /\ \A i \in Held(docs') \cup Held(indexed') : inputs'[i] = w.inputs[i]
         /\ \A p \in DOMAIN files' : inputs'[files'[p]].path = p
<1>1. PICK known \in Resolutions(w) :
        LET walked == Walked(w, known)
            found == InputsFor(w, walked)
            now == set_texts(w, found, [p \in walked |-> WalkText(w, p)])
        IN /\ docs' = w.docs /\ indexed' = w.indexed
           /\ retained' = retain_walked(w, found)
           /\ files' = Over(found, known)
           /\ inputs' = Restrict(now, Held(docs') \cup Held(indexed') \cup Held(retained'))
  BY Zenon DEF resync
<1> DEFINE walked == Walked(w, known)
<1> DEFINE found == InputsFor(w, walked)
<1> DEFINE text == [p \in walked |-> WalkText(w, p)]
<1> DEFINE now == set_texts(w, found, text)
<1> DEFINE D == DOMAIN w.inputs
<1> DEFINE H == Held(docs') \cup Held(indexed') \cup Held(retained')
<1> DEFINE kept == [p \in DOMAIN found |-> Entry(found[p], disk[p])]
<1>2. /\ docs' = w.docs /\ indexed' = w.indexed
      /\ retained' = Over(kept, w.retained)
      /\ files' = Over(found, known)
      /\ inputs' = Restrict(now, H)
  BY <1>1, Zenon DEF retain_walked
<1>3. /\ walked \subseteq Paths /\ walked \in SUBSET Paths
      /\ \A p \in walked : WalkText(w, p) \in Texts /\ disk[p] \in Texts
      /\ walked \subseteq DOMAIN disk \ DOMAIN known
  BY Walks, Zenon
<1> HIDE DEF walked
<1>4. /\ found \in [walked -> Nat] /\ DOMAIN found = walked
      /\ \A p \in walked \cap DOMAIN w.retained : found[p] = w.retained[p].input
      /\ \A p \in walked \ DOMAIN w.retained : found[p] \notin D
  BY <1>3, FileInputs
<1>5. IsInjective(found)
  <2>1. Carries(w.inputs, w.retained)
    BY Zenon DEF OneEach
  <2> QED BY <1>3, <2>1, FileInputsApart
<1> HIDE DEF found
<1>6. /\ \A i \in D \ Range(found) : now[i] = w.inputs[i]
      /\ \A p \in walked : found[p] \in D => now[found[p]].path = w.inputs[found[p]].path
      /\ \A p \in walked : found[p] \notin D => now[found[p]].path = p
  <2>1. w.inputs \in [D -> Input]
    BY DEF IsWorld
  <2>2. \A p \in walked : text[p] \in Texts
    BY <1>3
  <2> HIDE DEF text
  <2>3. \A i \in D \ Range(found) : now[i] = w.inputs[i]
    BY OtherTexts
  <2>4. ASSUME NEW p \in walked
        PROVE  /\ found[p] \in D => now[found[p]].path = w.inputs[found[p]].path
               /\ found[p] \notin D => now[found[p]].path = p
    BY <1>4, <1>5, SetTexts
  <2> QED BY <2>3, <2>4, Zenon
<1> HIDE DEF now
<1>7. /\ DOMAIN kept = walked
      /\ \A p \in walked : kept[p].input = found[p]
  BY <1>4 DEF Entry
<1> HIDE DEF kept
<1>8. /\ DOMAIN retained' = walked \cup DOMAIN w.retained
      /\ \A p \in walked : retained'[p].input = found[p]
      /\ \A p \in DOMAIN w.retained \ walked : retained'[p] = w.retained[p]
  BY <1>2, <1>7 DEF Over
<1>9. \A i \in H : inputs'[i] = now[i]
  BY <1>2 DEF Restrict
<1>10. \A p \in walked : now[found[p]].path = p
  <2> TAKE p \in walked
  <2>1. CASE p \in DOMAIN w.retained
    BY <1>4, <1>6, <2>1 DEF OneEach, Carries, IsWorld, IsMap, Entries
  <2> QED BY <1>4, <1>6, <2>1
(* A path that an open or an indexed file carries is not walked to.         *)
<1>11. \A i \in Held(w.docs) \cup Held(w.indexed) : i \in D /\ w.inputs[i].path \in DOMAIN known
  <2> DEFINE P == { w.inputs[i].path : i \in Targets(w) }
  <2>1. DOMAIN known = P
    BY DEF Resolutions
  <2>2. Held(w.docs) \cup Held(w.indexed) \subseteq Targets(w)
    <3>1. ASSUME NEW p \in DOMAIN w.indexed PROVE w.indexed[p].input \in Targets(w)
      <4>1. CASE p \in DOMAIN w.docs
        <5>1. w.indexed[p].input = w.docs[p].input
          BY <3>1, <4>1 DEF OneEach, Meet
        <5> QED BY <4>1, <5>1 DEF Targets, Unopened, Held
      <4>2. CASE p \notin DOMAIN w.docs
        BY <3>1, <4>2 DEF Targets, Unopened
      <4> QED BY <4>1, <4>2
    <3> QED BY <3>1 DEF Targets, Unopened, Held
  <2>3. Held(w.docs) \cup Held(w.indexed) \subseteq D
    BY HeldInputs DEF IsWorld
  <2> QED BY <2>1, <2>2, <2>3
<1>12. ASSUME NEW i \in D, NEW p \in walked, found[p] = i PROVE w.inputs[i].path = p
  BY <1>4, <1>12 DEF OneEach, Carries
<1>13. \A i \in Held(w.docs) \cup Held(w.indexed) : inputs'[i] = w.inputs[i]
  <2> TAKE i \in Held(w.docs) \cup Held(w.indexed)
  <2>1. i \notin Range(found)
    BY <1>3, <1>4, <1>11, <1>12 DEF Range
  <2>2. i \in H
    BY <1>2
  <2> QED BY <1>6, <1>9, <1>11, <2>1, <2>2
<1>14. Carries(inputs', docs') /\ Carries(inputs', indexed')
  BY <1>2, <1>13, Held1 DEF OneEach, Carries
<1>15. Carries(inputs', retained')
  <2> SUFFICES ASSUME NEW p \in DOMAIN retained' PROVE inputs'[retained'[p].input].path = p
    BY Zenon DEF Carries
  <2> DEFINE i == retained'[p].input
  <2>1. inputs'[i] = now[i]
    <3>1. i \in H
      BY Held1
    <3> QED BY <1>9, <3>1
  <2>2. CASE p \in walked
    BY <1>8, <1>10, <2>1, <2>2
  <2>3. CASE p \notin walked
    <3>1. i = w.retained[p].input /\ p \in DOMAIN w.retained
      BY <1>8, <2>3
    <3>2. i \in D /\ w.inputs[i].path = p
      BY <3>1 DEF OneEach, Carries, IsWorld, IsMap, Entries
    <3>3. i \notin Range(found)
      BY <1>4, <1>12, <2>3, <3>2 DEF Range
    <3>4. now[i] = w.inputs[i]
      BY <1>6, <3>2, <3>3
    <3> QED BY <2>1, <3>2, <3>4
  <2> QED BY <2>2, <2>3
(* A path of the open or the indexed files keeps its entry in retained.     *)
<1>16. ASSUME NEW f, f = w.docs \/ f = w.indexed, NEW p \in DOMAIN f
       PROVE  p \in DOMAIN known /\ p \notin walked
  <2>1. f[p].input \in Held(w.docs) \cup Held(w.indexed)
    BY <1>16, Held1
  <2>2. w.inputs[f[p].input].path = p
    BY <1>16 DEF OneEach, Carries
  <2> QED BY <1>3, <1>11, <2>1, <2>2
<1>17. Meet(docs', indexed') /\ Meet(docs', retained') /\ Meet(indexed', retained')
  BY <1>2, <1>8, <1>16 DEF OneEach, Meet
<1>18. /\ Now'.inputs = inputs' /\ Now'.docs = docs'
       /\ Now'.indexed = indexed' /\ Now'.retained = retained'
  BY DEF Now
<1>19. OneEach(Now')
  BY <1>14, <1>15, <1>17, <1>18, Zenon DEF OneEach
<1>20. \A p \in DOMAIN files' : inputs'[files'[p]].path = p
  <2> TAKE p \in DOMAIN files'
  <2>1. CASE p \in walked
    <3>1. files'[p] = found[p] /\ found[p] = retained'[p].input /\ p \in DOMAIN retained'
      BY <1>2, <1>4, <1>8, <2>1 DEF Over
    <3> QED BY <1>15, <3>1 DEF Carries
  <2>2. CASE p \notin walked
    <3>1. files'[p] = known[p] /\ p \in DOMAIN known
      BY <1>2, <1>4, <2>2 DEF Over
    <3>2. known[p] \in Targets(w) /\ w.inputs[known[p]].path = p
      BY <3>1 DEF Resolutions
    <3>3. known[p] \in Held(w.docs) \cup Held(w.indexed)
      BY <3>2 DEF Targets, Unopened, Held
    <3> QED BY <1>13, <3>1, <3>2, <3>3
  <2> QED BY <2>1, <2>2
<1> QED BY <1>2, <1>13, <1>19, <1>20, Zenon

(* What a buffer shows it still shows.                                      *)
LEMMA ResyncedShown ==
  ASSUME NEW w, IsWorld(w), IsMap(disk, Texts), resync(w), OneEach(w), Shown(w)
  PROVE  Shown(Now')
<1>1. docs' = w.docs
  BY Resynced
<1>2. \A i \in Held(docs') \cup Held(indexed') : inputs'[i] = w.inputs[i]
  BY ResyncedInOrder
<1>3. Now'.inputs = inputs' /\ Now'.docs = docs'
  BY DEF Now
<1> QED BY <1>1, <1>2, <1>3, Held1 DEF Shown
-----------------------------------------------------------------------------
(***************************************************************************)
(* What the handlers leave to resync.                                      *)
(***************************************************************************)
Told(w, p, i, text, ins) ==
  /\ DOMAIN ins = DOMAIN w.inputs \cup {i} /\ IsInputs(ins)
  /\ \A j \in DOMAIN w.inputs : j # i => ins[j] = w.inputs[j]
  /\ ins[i].text = text
  /\ ins[i].path = IF i \in DOMAIN w.inputs THEN w.inputs[i].path ELSE p

(* One file gives its text to its input.                                    *)
LEMMA TellOne ==
  ASSUME NEW w, IsInputs(w.inputs), NEW p \in Paths, NEW i \in Nat, NEW text, text[p] \in Texts
  PROVE  Told(w, p, i, text[p], set_texts(w, Only(p, i), text))
<1> DEFINE own == Only(p, i)
<1> DEFINE ins == set_texts(w, own, text)
<1> DEFINE D == DOMAIN w.inputs
<1> DEFINE told == [path |-> IF i \in D THEN w.inputs[i].path ELSE p, text |-> text[p]]
<1>1. DOMAIN own = {p} /\ own[p] = i /\ Range(own) = {i}
  BY DEF Only, Range
<1>2. told \in Input /\ told.text = text[p] /\ told.path = IF i \in D THEN w.inputs[i].path ELSE p
  BY DEF Input, IsInputs
<1>3. (CHOOSE q \in DOMAIN own : own[q] = i) = p
  BY <1>1
<1> HIDE DEF own
<1> DEFINE f == [j \in Range(own) |->
             [path |-> IF j \in D THEN w.inputs[j].path ELSE CHOOSE q \in DOMAIN own : own[q] = j,
              text |-> text[CHOOSE q \in DOMAIN own : own[q] = j]]]
<1>4. DOMAIN f = {i} /\ f[i] = told
  BY <1>1, <1>3
<1>5. ins = Over(f, w.inputs)
  BY DEF set_texts
<1> HIDE DEF f, told, ins
<1>6. /\ DOMAIN ins = {i} \cup D /\ ins = [j \in {i} \cup D |-> ins[j]]
      /\ ins[i] = told /\ \A j \in D : j # i => ins[j] = w.inputs[j]
  BY <1>4, <1>5 DEF Over
<1>7. ins \in [D \cup {i} -> Input]
  <2>1. \A j \in D \cup {i} : ins[j] \in Input
    BY <1>2, <1>6 DEF IsInputs
  <2> QED BY <1>6, <2>1
<1>8. DOMAIN ins = D \cup {i}
  BY <1>6
<1>9. IsInputs(ins)
  BY <1>7, <1>8 DEF IsInputs
<1>10. Told(w, p, i, text[p], ins)
  BY <1>2, <1>6, <1>8, <1>9 DEF Told
<1> QED BY <1>10 DEF ins, own

(* An entry that is kept is given a text, and keeps its input.              *)
LEMMA Retextings ==
  ASSUME NEW f, NEW I, IsMap(f, Entries(I)), NEW p, NEW t \in Texts, NEW g, g = Retexted(f, p, t)
  PROVE  /\ DOMAIN g = DOMAIN f /\ IsMap(g, Entries(I))
         /\ \A q \in DOMAIN f : g[q].input = f[q].input /\ (q # p => g[q] = f[q])
         /\ p \in DOMAIN f => g[p].text = t
BY DEF Retexted, IsMap, Entries

LEMMA Wider ==
  ASSUME NEW f, NEW I, IsMap(f, Entries(I)), NEW J, I \subseteq J
  PROVE  IsMap(f, Entries(J))
BY DEF IsMap, Entries

LEMMA AddedIsFinite ==
  ASSUME NEW D, IsFiniteSet(D), D \subseteq Nat, NEW i \in Nat
  PROVE  IsFiniteSet(D \cup {i}) /\ D \cup {i} \subseteq Nat
BY FS_AddElement

HasReloaded(w, p, v) ==
  /\ IsWorld(v) /\ DOMAIN v.inputs = DOMAIN w.inputs
  /\ v.docs = w.docs /\ v.retained = w.retained /\ DOMAIN v.indexed = DOMAIN w.indexed
  /\ \A q \in DOMAIN w.indexed : v.indexed[q].input = w.indexed[q].input
  /\ \A i \in DOMAIN w.inputs : v.inputs[i].path = w.inputs[i].path
  /\ \A i \in DOMAIN w.inputs :
       i # w.indexed[p].input \/ p \notin DOMAIN w.indexed => v.inputs[i] = w.inputs[i]
  /\ p \in DOMAIN w.indexed \cap DOMAIN disk => v.inputs[w.indexed[p].input].text = disk[p]

LEMMA Reloads ==
  ASSUME NEW w, IsWorld(w), IsMap(disk, Texts), NEW p,
         NEW v, v = reload_indexed_from_disk(w, p)
  PROVE  HasReloaded(w, p, v)
<1> USE DEF HasReloaded
<1>1. CASE p \in DOMAIN w.indexed \cap DOMAIN disk
  <2> DEFINE i == w.indexed[p].input
  <2> DEFINE ins == set_texts(w, Only(p, i), disk)
  <2> DEFINE g == Retexted(w.indexed, p, disk[p])
  <2>1. v = [w EXCEPT !.inputs = ins, !.indexed = g]
    BY <1>1 DEF reload_indexed_from_disk
  <2>2. /\ i \in DOMAIN w.inputs /\ i \in Nat /\ p \in Paths /\ disk[p] \in Texts
        /\ IsInputs(w.inputs)
    BY <1>1 DEF IsWorld, IsMap, Entries, IsInputs
  <2>3. /\ DOMAIN ins = DOMAIN w.inputs /\ IsInputs(ins)
        /\ \A j \in DOMAIN w.inputs : j # i => ins[j] = w.inputs[j]
        /\ ins[i].text = disk[p] /\ ins[i].path = w.inputs[i].path
    <3> HIDE DEF i
    <3>1. Told(w, p, i, disk[p], ins)
      BY <2>2, TellOne, Zenon
    <3> HIDE DEF ins
    <3> QED BY <2>2, <3>1 DEF Told
  <2>4. /\ DOMAIN g = DOMAIN w.indexed /\ IsMap(g, Entries(DOMAIN w.inputs))
        /\ \A q \in DOMAIN w.indexed : g[q].input = w.indexed[q].input
    BY <2>2, Retextings DEF IsWorld
  <2> HIDE DEF ins, g
  <2>5. /\ v = [inputs |-> ins, docs |-> w.docs, indexed |-> g, retained |-> w.retained]
        /\ v.inputs = ins /\ v.docs = w.docs /\ v.indexed = g /\ v.retained = w.retained
    BY <2>1 DEF IsWorld
  <2>6. IsWorld(v)
    BY <2>3, <2>4, <2>5 DEF IsWorld, IsInputs
  <2> QED BY <1>1, <2>3, <2>4, <2>5, <2>6
<1>2. CASE p \notin DOMAIN w.indexed \cap DOMAIN disk
  <2>1. v = w
    BY <1>2 DEF reload_indexed_from_disk
  <2> QED BY <1>2, <2>1
<1> QED BY <1>1, <1>2

(* Different files have different inputs.                                   *)
LEMMA Apart ==
  ASSUME NEW w, OneEach(w), NEW p, NEW q, p # q,
         NEW f, f = w.docs \/ f = w.indexed \/ f = w.retained, p \in DOMAIN f,
         NEW g, g = w.docs \/ g = w.indexed \/ g = w.retained, q \in DOMAIN g
  PROVE  f[p].input # g[q].input
BY DEF OneEach, Carries

ReloadedInOrder(w, p, v) ==
  /\ OneEach(v) /\ (Shown(w) => Shown(v))
  /\ \A q \in DOMAIN w.indexed :
       q # p => v.inputs[v.indexed[q].input] = w.inputs[w.indexed[q].input]

LEMMA ReloadsInOrder ==
  ASSUME NEW w, IsWorld(w), OneEach(w), IsMap(disk, Texts), NEW p, p \notin DOMAIN w.docs,
         NEW v, v = reload_indexed_from_disk(w, p)
  PROVE  ReloadedInOrder(w, p, v)
<1>1. /\ v.docs = w.docs /\ v.retained = w.retained /\ DOMAIN v.indexed = DOMAIN w.indexed
      /\ \A q \in DOMAIN w.indexed : v.indexed[q].input = w.indexed[q].input
      /\ \A i \in DOMAIN w.inputs : v.inputs[i].path = w.inputs[i].path
      /\ \A i \in DOMAIN w.inputs :
           i # w.indexed[p].input \/ p \notin DOMAIN w.indexed => v.inputs[i] = w.inputs[i]
  BY Reloads DEF HasReloaded
<1>2. \A f \in {w.docs, w.indexed, w.retained} : \A q \in DOMAIN f : f[q].input \in DOMAIN w.inputs
  BY DEF IsWorld, IsMap, Entries
<1>3. OneEach(v)
  BY <1>1, <1>2 DEF OneEach, Carries, Meet
<1>4. ASSUME NEW f, f = w.docs \/ f = w.indexed, NEW q \in DOMAIN f, q # p
      PROVE  v.inputs[f[q].input] = w.inputs[f[q].input]
  <2>1. p \in DOMAIN w.indexed => f[q].input # w.indexed[p].input
    BY <1>4, Apart
  <2> QED BY <1>1, <1>2, <1>4, <2>1
<1>5. Shown(w) => Shown(v)
  BY <1>1, <1>4 DEF Shown
<1>6. \A q \in DOMAIN w.indexed :
        q # p => v.inputs[v.indexed[q].input] = w.inputs[w.indexed[q].input]
  BY <1>1, <1>4
<1> QED BY <1>3, <1>5, <1>6 DEF ReloadedInOrder

LEMMA NowIs ==
  /\ Now = [inputs |-> Now.inputs, docs |-> Now.docs, indexed |-> Now.indexed,
            retained |-> Now.retained]
  /\ Now.inputs = inputs /\ Now.docs = docs /\ Now.indexed = indexed /\ Now.retained = retained
BY DEF Now

(* A buffer is let go.                                                      *)
LEMMA Dropping ==
  ASSUME IsWorld(Now), NEW p, NEW w, w = [Now EXCEPT !.docs = Without(@, p)]
  PROVE  /\ w.docs = Without(docs, p) /\ w.inputs = inputs
         /\ w.indexed = indexed /\ w.retained = retained
         /\ DOMAIN w.docs = DOMAIN docs \ {p}
         /\ IsWorld(w) /\ (OneEach(Now) => OneEach(w)) /\ (Shown(Now) => Shown(w))
<1>1. w = [inputs |-> inputs, docs |-> Without(docs, p), indexed |-> indexed, retained |-> retained]
  BY DEF Now
<1>2. /\ w.docs = Without(docs, p) /\ w.inputs = inputs
      /\ w.indexed = indexed /\ w.retained = retained
  BY <1>1
<1>3. /\ DOMAIN w.docs = DOMAIN docs \ {p}
      /\ \A q \in DOMAIN docs \ {p} : w.docs[q] = docs[q]
  BY <1>2 DEF Without, Restrict
<1>4. IsMap(docs, Entries(DOMAIN inputs)) => IsMap(w.docs, Entries(DOMAIN inputs))
  BY <1>2 DEF Without, Restrict, IsMap, Entries
<1>5. IsWorld(w)
  BY <1>1, <1>2, <1>4, NowIs DEF IsWorld
<1>6. OneEach(Now) => OneEach(w)
  BY <1>2, <1>3, NowIs DEF OneEach, Carries, Meet
<1>7. Shown(Now) => Shown(w)
  BY <1>2, <1>3, NowIs DEF Shown
<1> QED BY <1>2, <1>3, <1>5, <1>6, <1>7

HasRemoved(p, w) ==
  /\ w.indexed = Without(indexed, p) /\ w.inputs = inputs
  /\ w.docs = docs /\ w.retained = retained
  /\ DOMAIN w.indexed = DOMAIN indexed \ {p}
  /\ \A q \in DOMAIN indexed \ {p} : w.indexed[q] = indexed[q]
  /\ IsWorld(w) /\ (OneEach(Now) => OneEach(w)) /\ (Shown(Now) => Shown(w))

(* A file is taken off the index.                                           *)
LEMMA Removing ==
  ASSUME IsWorld(Now), NEW p, NEW w, w = [Now EXCEPT !.indexed = Without(@, p)]
  PROVE  HasRemoved(p, w)
<1>1. w = [inputs |-> inputs, docs |-> docs, indexed |-> Without(indexed, p), retained |-> retained]
  BY DEF Now
<1>2. /\ w.indexed = Without(indexed, p) /\ w.inputs = inputs
      /\ w.docs = docs /\ w.retained = retained
  BY <1>1
<1>3. /\ DOMAIN w.indexed = DOMAIN indexed \ {p}
      /\ \A q \in DOMAIN indexed \ {p} : w.indexed[q] = indexed[q]
  BY <1>2 DEF Without, Restrict
<1>4. IsMap(indexed, Entries(DOMAIN inputs)) => IsMap(w.indexed, Entries(DOMAIN inputs))
  BY <1>2 DEF Without, Restrict, IsMap, Entries
<1>5. IsWorld(w)
  BY <1>1, <1>2, <1>4, NowIs DEF IsWorld
<1>6. OneEach(Now) => OneEach(w)
  BY <1>2, <1>3, NowIs DEF OneEach, Carries, Meet
<1>7. Shown(Now) => Shown(w)
  BY <1>2, <1>3, NowIs DEF Shown
<1> QED BY <1>2, <1>3, <1>5, <1>6, <1>7 DEF HasRemoved

(* A buffer is edited.                                                      *)
LEMMA Updating ==
  ASSUME IsWorld(Now), NEW p \in DOMAIN docs, NEW text \in Texts,
         NEW w, w = [inputs |-> set_texts(Now, Only(p, docs[p].input), Only(p, text)),
                     docs |-> Retexted(docs, p, text),
                     indexed |-> Retexted(indexed, p, text), retained |-> retained]
  PROVE  /\ IsWorld(w) /\ w.retained = retained
         /\ DOMAIN w.docs = DOMAIN docs /\ DOMAIN w.indexed = DOMAIN indexed
         /\ \A q \in DOMAIN indexed : w.indexed[q].input = indexed[q].input
         /\ OneEach(Now) =>
              /\ OneEach(w) /\ (Shown(Now) => Shown(w))
              /\ \A q \in DOMAIN indexed :
                   q # p => w.inputs[w.indexed[q].input] = inputs[indexed[q].input]
<1> DEFINE i == docs[p].input
<1> DEFINE ins == set_texts(Now, Only(p, i), Only(p, text))
<1> DEFINE f == Retexted(docs, p, text)
<1> DEFINE g == Retexted(indexed, p, text)
<1> DEFINE D == DOMAIN inputs
<1>1. /\ w = [inputs |-> ins, docs |-> f, indexed |-> g, retained |-> retained]
      /\ w.inputs = ins /\ w.docs = f /\ w.indexed = g /\ w.retained = retained
  OBVIOUS
<1>2. /\ IsInputs(inputs) /\ i \in D /\ i \in Nat /\ p \in Paths
      /\ IsMap(docs, Entries(D)) /\ IsMap(indexed, Entries(D)) /\ IsMap(retained, Entries(D))
  BY NowIs DEF IsWorld, IsInputs, IsMap, Entries
<1>3. Told(Now, p, i, text, ins)
  <2>1. Only(p, text)[p] = text
    BY DEF Only
  <2> HIDE DEF i
  <2>2. Told(Now, p, i, Only(p, text)[p], set_texts(Now, Only(p, i), Only(p, text)))
    BY <1>2, <2>1, TellOne, NowIs
  <2> QED BY <2>1, <2>2
<1> HIDE DEF ins
<1>4. /\ DOMAIN ins = D /\ IsInputs(ins)
      /\ \A j \in D : j # i => ins[j] = inputs[j]
      /\ ins[i].text = text /\ ins[i].path = inputs[i].path
  BY <1>2, <1>3, NowIs DEF Told
<1>5. /\ DOMAIN f = DOMAIN docs /\ IsMap(f, Entries(D))
      /\ \A q \in DOMAIN docs : f[q].input = docs[q].input /\ (q # p => f[q] = docs[q])
      /\ f[p].text = text
  BY <1>2, Retextings
<1>6. /\ DOMAIN g = DOMAIN indexed /\ IsMap(g, Entries(D))
      /\ \A q \in DOMAIN indexed : g[q].input = indexed[q].input
  BY <1>2, Retextings
<1> HIDE DEF f, g
<1>7. IsWorld(w)
  BY <1>1, <1>2, <1>4, <1>5, <1>6, NowIs DEF IsWorld, IsInputs
<1>8. ASSUME OneEach(Now)
      PROVE  /\ OneEach(w) /\ (Shown(Now) => Shown(w))
             /\ \A q \in DOMAIN indexed :
                  q # p => w.inputs[w.indexed[q].input] = inputs[indexed[q].input]
  <2>1. \A h \in {docs, indexed, retained} : \A q \in DOMAIN h : h[q].input \in D
    BY <1>2 DEF IsMap, Entries
  <2>2. \A j \in D : ins[j].path = inputs[j].path
    BY <1>4
  <2>3. OneEach(w)
    BY <1>1, <1>5, <1>6, <1>8, <2>1, <2>2, NowIs DEF OneEach, Carries, Meet
  <2>4. ASSUME NEW h, h = docs \/ h = indexed, NEW q \in DOMAIN h, q # p
        PROVE  ins[h[q].input] = inputs[h[q].input]
    <3>1. h[q].input # i
      BY <1>8, <2>4, Apart, NowIs
    <3> QED BY <1>4, <2>1, <2>4, <3>1
  <2>5. Shown(Now) => Shown(w)
    BY <1>1, <1>4, <1>5, <2>4, NowIs DEF Shown
  <2>6. \A q \in DOMAIN indexed :
          q # p => w.inputs[w.indexed[q].input] = inputs[indexed[q].input]
    BY <1>1, <1>6, <2>4
  <2> QED BY <2>3, <2>5, <2>6
<1>9. w.retained = retained /\ DOMAIN w.docs = DOMAIN docs /\ DOMAIN w.indexed = DOMAIN indexed
  BY <1>1, <1>5, <1>6
<1>10. \A q \in DOMAIN indexed : w.indexed[q].input = indexed[q].input
  BY <1>1, <1>6
<1> QED BY <1>7, <1>8, <1>9, <1>10, Zenon

HasRegistered(S, w) ==
  /\ IsWorld(w) /\ w.docs = docs
  /\ DOMAIN w.indexed = S \cup DOMAIN indexed
  /\ \A q \in DOMAIN indexed \ S : w.indexed[q] = indexed[q]
  /\ S \cap DOMAIN indexed = {} =>
       Held(indexed) \cup Held(retained) \subseteq Held(w.indexed) \cup Held(w.retained)
  /\ OneEach(Now) /\ S \cap (DOMAIN docs \cup DOMAIN indexed) = {} =>
       /\ OneEach(w) /\ (Shown(Now) => Shown(w))
       /\ \A q \in DOMAIN indexed :
            w.inputs[w.indexed[q].input] = inputs[indexed[q].input]
       /\ \A q \in S : w.inputs[w.indexed[q].input].text = disk[q]

(* Files are put on the index.                                              *)
LEMMA Registering ==
  ASSUME IsWorld(Now), IsMap(disk, Texts), NEW S \in SUBSET DOMAIN disk,
         NEW w, w = register_indexed(Now, S)
  PROVE  HasRegistered(S, w)
<1> DEFINE own == InputsFor(Now, S)
<1> DEFINE ins == set_texts(Now, own, disk)
<1> DEFINE new == [p \in S |-> Entry(own[p], disk[p])]
<1> DEFINE g == Over(new, indexed)
<1> DEFINE h == Restrict(retained, DOMAIN retained \ S)
<1> DEFINE D == DOMAIN inputs
<1>1. /\ w = [inputs |-> ins, docs |-> docs, indexed |-> g, retained |-> h]
      /\ w.inputs = ins /\ w.docs = docs /\ w.indexed = g /\ w.retained = h
  <2>1. w = [Now EXCEPT !.inputs = ins, !.indexed = g, !.retained = h]
    BY DEF Now, register_indexed
  <2> HIDE DEF ins, g, h
  <2>2. w = [inputs |-> ins, docs |-> docs, indexed |-> g, retained |-> h]
    BY <2>1 DEF Now
  <2> QED BY <2>2
<1>2. S \in SUBSET Paths /\ S \subseteq Paths /\ \A p \in S : disk[p] \in Texts
  BY DEF IsMap
<1>3. /\ inputs \in [D -> Input] /\ IsFiniteSet(D) /\ D \subseteq Nat
      /\ IsMap(docs, Entries(D)) /\ IsMap(indexed, Entries(D)) /\ IsMap(retained, Entries(D))
  BY NowIs DEF IsWorld
<1>4. /\ own \in [S -> Nat] /\ DOMAIN own = S
      /\ \A p \in S \cap DOMAIN retained : own[p] = retained[p].input
      /\ \A p \in S \ DOMAIN retained : own[p] \notin D
  BY <1>2, FileInputs, NowIs
<1> HIDE DEF own
<1>5. DOMAIN ins = D \cup Range(own) /\ ins \in [D \cup Range(own) -> Input]
  <2>1. DOMAIN ins = D \cup Range(own) /\ ins \in [DOMAIN ins -> Input]
    <3>1. ins = set_texts(Now, own, disk)
      OBVIOUS
    <3>2. Now.inputs \in [DOMAIN Now.inputs -> Input] /\ Now.inputs = inputs
      BY <1>3, NowIs
    <3>3. own \in [DOMAIN own -> Nat] /\ DOMAIN own \subseteq Paths
      BY <1>2, <1>4
    <3>4. \A p \in DOMAIN own : disk[p] \in Texts
      BY <1>2, <1>4
    <3> HIDE DEF ins
    <3> QED BY <3>1, <3>2, <3>3, <3>4, SetTextsTypes
  <2> HIDE DEF ins
  <2> QED BY <2>1
<1>6. \A j \in D \ Range(own) : ins[j] = inputs[j]
  BY OtherTexts, NowIs
<1>7. /\ DOMAIN new = S /\ new \in [S -> Entries(Range(own))]
      /\ \A p \in S : new[p].input = own[p]
  BY <1>2, <1>4 DEF Entry, Entries, Range
<1> HIDE DEF new
<1>8. /\ DOMAIN g = S \cup DOMAIN indexed
      /\ \A p \in S : g[p] = new[p]
      /\ \A p \in DOMAIN indexed \ S : g[p] = indexed[p]
  BY <1>7 DEF Over
<1>9. IsMap(g, Entries(D \cup Range(own)))
  BY <1>2, <1>3, <1>7 DEF Over, IsMap, Entries
<1>10. /\ DOMAIN h = DOMAIN retained \ S /\ IsMap(h, Entries(D))
       /\ \A p \in DOMAIN retained \ S : h[p] = retained[p]
  BY <1>3 DEF Restrict, IsMap, Entries
<1>11. IsFiniteSet(D \cup Range(own)) /\ D \cup Range(own) \subseteq Nat
  <2>1. IsFiniteSet(Range(own))
    BY <1>2, <1>4, RangeIsFinite
  <2>2. IsFiniteSet(D \cup Range(own))
    BY <1>3, <2>1, FS_Union, Zenon
  <2>3. Range(own) \subseteq Nat
    BY <1>4 DEF Range
  <2> QED BY <1>3, <2>2, <2>3
<1> HIDE DEF ins, g, h
<1>12. IsWorld(w)
  <2>1. IsMap(docs, Entries(D \cup Range(own))) /\ IsMap(h, Entries(D \cup Range(own)))
    BY <1>3, <1>10, Wider
  <2> QED BY <1>1, <1>5, <1>9, <1>11, <2>1, Zenon DEF IsWorld
<1>13. ASSUME S \cap DOMAIN indexed = {}
       PROVE  Held(indexed) \cup Held(retained) \subseteq Held(g) \cup Held(h)
  <2>1. ASSUME NEW p \in DOMAIN indexed PROVE indexed[p].input \in Held(g)
    <3>1. p \in DOMAIN g /\ g[p] = indexed[p]
      BY <1>8, <1>13
    <3> QED BY <3>1, Held1
  <2>2. ASSUME NEW p \in DOMAIN retained PROVE retained[p].input \in Held(g) \cup Held(h)
    <3>1. CASE p \in S
      <4>1. p \in DOMAIN g /\ g[p].input = retained[p].input
        BY <1>4, <1>7, <1>8, <3>1
      <4> QED BY <4>1, Held1
    <3>2. CASE p \notin S
      <4>1. p \in DOMAIN h /\ h[p] = retained[p]
        BY <1>10, <3>2
      <4> QED BY <4>1, Held1
    <3> QED BY <3>1, <3>2
  <2>3. Held(indexed) \subseteq Held(g)
    BY <2>1, Zenon DEF Held
  <2>4. Held(retained) \subseteq Held(g) \cup Held(h)
    <3> SUFFICES ASSUME NEW p \in DOMAIN retained PROVE retained[p].input \in Held(g) \cup Held(h)
      BY Zenon DEF Held
    <3> QED BY <2>2
  <2> QED BY <2>3, <2>4
<1>14. ASSUME OneEach(Now), S \cap (DOMAIN docs \cup DOMAIN indexed) = {}
       PROVE  /\ OneEach(w) /\ (Shown(Now) => Shown(w))
              /\ \A q \in DOMAIN indexed :
                   w.inputs[w.indexed[q].input] = inputs[indexed[q].input]
              /\ \A q \in S : w.inputs[w.indexed[q].input].text = disk[q]
  <2>1. IsInjective(own)
    <3>1. Carries(Now.inputs, Now.retained)
      BY <1>14, Zenon DEF OneEach
    <3> QED BY <1>2, <3>1, FileInputsApart DEF own
  <2>2. ASSUME NEW p \in S
        PROVE  ins[own[p]].text = disk[p] /\ ins[own[p]].path = p
    <3>1. /\ ins[own[p]].text = disk[p]
          /\ own[p] \in D => ins[own[p]].path = inputs[own[p]].path
          /\ own[p] \notin D => ins[own[p]].path = p
      BY <1>4, <2>1, SetTexts, NowIs DEF ins
    <3>2. own[p] \in D => inputs[own[p]].path = p
      BY <1>4, <1>14, NowIs DEF OneEach, Carries
    <3> QED BY <3>1, <3>2
  <2>3. ASSUME NEW f, f = docs \/ f = indexed \/ f = h, NEW q \in DOMAIN f
        PROVE  f[q].input \in D /\ ins[f[q].input] = inputs[f[q].input] /\ inputs[f[q].input].path = q
    <3>1. q \notin S
      BY <1>10, <1>14, <2>3
    <3>2. f[q].input \in D /\ inputs[f[q].input].path = q
      BY <1>3, <1>10, <1>14, <2>3, NowIs DEF OneEach, Carries, IsMap, Entries
    <3>3. ASSUME NEW p \in S, own[p] = f[q].input PROVE FALSE
      <4>1. p \in DOMAIN retained /\ own[p] = retained[p].input
        BY <1>4, <3>2, <3>3
      <4>2. inputs[own[p]].path = p
        BY <1>14, <4>1, NowIs DEF OneEach, Carries
      <4> QED BY <3>1, <3>2, <3>3, <4>2
    <3>4. f[q].input \notin Range(own)
      BY <1>4, <3>3 DEF Range
    <3> QED BY <1>6, <3>2, <3>4
  <2>4. Carries(ins, docs) /\ Carries(ins, g) /\ Carries(ins, h)
    <3>1. Carries(ins, docs) /\ Carries(ins, h)
      BY <2>3 DEF Carries
    <3>2. ASSUME NEW p \in DOMAIN g PROVE ins[g[p].input].path = p
      <4>1. CASE p \in S
        BY <1>7, <1>8, <2>2, <4>1
      <4>2. CASE p \notin S
        BY <1>8, <2>3, <4>2
      <4> QED BY <4>1, <4>2
    <3> QED BY <3>1, <3>2, Zenon DEF Carries
  <2>5. Meet(docs, g) /\ Meet(docs, h) /\ Meet(g, h)
    BY <1>8, <1>10, <1>14, NowIs DEF OneEach, Meet
  <2>6. OneEach(w)
    BY <1>1, <2>4, <2>5, Zenon DEF OneEach
  <2>7. Shown(Now) => Shown(w)
    BY <1>1, <2>3, NowIs DEF Shown
  <2>8. \A q \in DOMAIN indexed : ins[g[q].input] = inputs[indexed[q].input]
    BY <1>8, <1>14, <2>3
  <2>9. \A q \in S : ins[g[q].input].text = disk[q]
    BY <1>7, <1>8, <2>2
  <2> QED BY <1>1, <2>6, <2>7, <2>8, <2>9, Zenon
<1> QED BY <1>1, <1>8, <1>12, <1>13, <1>14, Zenon DEF HasRegistered

LEMMA PutsMap ==
  ASSUME NEW f, NEW I, IsMap(f, Entries(I)), NEW p \in Paths, NEW i, NEW t \in Texts
  PROVE  IsMap(Put(f, p, Entry(i, t)), Entries(I \cup {i}))
<1>1. \A y \in DOMAIN f : f[y] \in Entries(I \cup {i})
  BY DEF IsMap, Entries
<1>2. Entry(i, t) \in Entries(I \cup {i})
  BY DEF Entry, Entries
<1> QED BY <1>1, <1>2 DEF IsMap, Put, Over, Only

(* The input of an opened buffer.                                           *)
Opened(p, i) ==
  IF p \in DOMAIN indexed THEN i = indexed[p].input
  ELSE IF p \in DOMAIN retained THEN i = retained[p].input
  ELSE i \in Nat \ DOMAIN inputs

OpenWorld(p, text, i) ==
  [inputs |-> set_texts(Now, Only(p, i), Only(p, text)),
   docs |-> Put(docs, p, Entry(i, text)),
   indexed |-> Retexted(indexed, p, text),
   retained |-> IF p \notin DOMAIN indexed \cup DOMAIN retained
                THEN Put(retained, p, Entry(i, text))
                ELSE Retexted(retained, p, text)]

HasOpened(p, w) ==
  /\ IsWorld(w)
  /\ DOMAIN w.docs = DOMAIN docs \cup {p} /\ DOMAIN w.indexed = DOMAIN indexed
  /\ Held(indexed) \cup Held(retained) \subseteq Held(w.indexed) \cup Held(w.retained)
  /\ OneEach(Now) =>
       /\ OneEach(w) /\ (Shown(Now) => Shown(w))
       /\ \A q \in DOMAIN indexed :
            q # p => w.inputs[w.indexed[q].input] = inputs[indexed[q].input]

(* A buffer is opened.                                                      *)
LEMMA Opening ==
  ASSUME IsWorld(Now), NEW p \in Paths, NEW text \in Texts, NEW i, Opened(p, i),
         NEW w, w = OpenWorld(p, text, i)
  PROVE  HasOpened(p, w)
<1> DEFINE ins == set_texts(Now, Only(p, i), Only(p, text))
<1> DEFINE f == Put(docs, p, Entry(i, text))
<1> DEFINE g == Retexted(indexed, p, text)
<1> DEFINE mints == p \notin DOMAIN indexed \cup DOMAIN retained
<1> DEFINE h == IF mints THEN Put(retained, p, Entry(i, text)) ELSE Retexted(retained, p, text)
<1> DEFINE D == DOMAIN inputs
<1>1. /\ w = [inputs |-> ins, docs |-> f, indexed |-> g, retained |-> h]
      /\ w.inputs = ins /\ w.docs = f /\ w.indexed = g /\ w.retained = h
  <2> HIDE DEF h
  <2>1. w = [inputs |-> ins, docs |-> f, indexed |-> g, retained |-> h]
    BY DEF h, OpenWorld
  <2> QED BY <2>1
<1>2. /\ IsInputs(inputs) /\ D \subseteq Nat /\ IsFiniteSet(D)
      /\ IsMap(docs, Entries(D)) /\ IsMap(indexed, Entries(D)) /\ IsMap(retained, Entries(D))
  BY NowIs DEF IsWorld, IsInputs
<1>3. /\ i \in Nat /\ (mints <=> i \notin D)
      /\ p \in DOMAIN indexed => i = indexed[p].input
      /\ p \notin DOMAIN indexed /\ p \in DOMAIN retained => i = retained[p].input
  BY <1>2 DEF Opened, IsMap, Entries
<1>4. Told(Now, p, i, text, ins)
  <2>1. Only(p, text)[p] = text
    BY DEF Only
  <2>2. Told(Now, p, i, Only(p, text)[p], set_texts(Now, Only(p, i), Only(p, text)))
    BY <1>2, <1>3, <2>1, TellOne, NowIs
  <2> QED BY <2>1, <2>2
<1> HIDE DEF ins
<1>5. /\ DOMAIN ins = D \cup {i} /\ ins \in [D \cup {i} -> Input]
      /\ \A j \in D : j # i => ins[j] = inputs[j]
      /\ ins[i].text = text /\ ins[i].path = IF i \in D THEN inputs[i].path ELSE p
  BY <1>4, NowIs DEF Told, IsInputs
<1>6. /\ DOMAIN f = DOMAIN docs \cup {p} /\ f[p] = Entry(i, text)
      /\ \A q \in DOMAIN docs : q # p => f[q] = docs[q]
  BY DEF Put, Over, Only
<1>7. IsMap(f, Entries(D \cup {i}))
  BY <1>2, PutsMap, Zenon
<1>8. /\ DOMAIN g = DOMAIN indexed /\ IsMap(g, Entries(D))
      /\ \A q \in DOMAIN indexed : g[q].input = indexed[q].input
  BY <1>2, Retextings
<1> HIDE DEF f, g
<1>9. /\ IsMap(h, Entries(D \cup {i}))
      /\ DOMAIN h = DOMAIN retained \cup (IF mints THEN {p} ELSE {})
      /\ \A q \in DOMAIN retained : h[q].input = retained[q].input
      /\ mints => h[p].input = i
  <2>1. CASE mints
    <3>1. h = Put(retained, p, Entry(i, text))
      BY <2>1
    <3> HIDE DEF h
    <3>2. /\ DOMAIN h = DOMAIN retained \cup {p} /\ h[p] = Entry(i, text)
          /\ \A q \in DOMAIN retained : q # p => h[q] = retained[q]
      BY <3>1 DEF Put, Over, Only
    <3>3. IsMap(h, Entries(D \cup {i}))
      BY <1>2, <3>1, PutsMap, Zenon
    <3> QED BY <2>1, <3>2, <3>3 DEF Entry
  <2>2. CASE ~mints
    <3>1. h = Retexted(retained, p, text)
      BY <2>2
    <3> HIDE DEF h
    <3>2. /\ DOMAIN h = DOMAIN retained /\ IsMap(h, Entries(D))
          /\ \A q \in DOMAIN retained : h[q].input = retained[q].input
      BY <1>2, <3>1, Retextings
    <3>3. IsMap(h, Entries(D \cup {i}))
      BY <3>2, Wider
    <3> QED BY <2>2, <3>2, <3>3
  <2> QED BY <2>1, <2>2
<1> HIDE DEF h
<1>10. IsWorld(w)
  <2>1. IsFiniteSet(D \cup {i}) /\ D \cup {i} \subseteq Nat
    BY <1>2, <1>3, AddedIsFinite
  <2>2. IsMap(g, Entries(D \cup {i}))
    BY <1>8, Wider
  <2> QED BY <1>1, <1>5, <1>7, <1>9, <2>1, <2>2, Zenon DEF IsWorld
<1>11. Held(indexed) \subseteq Held(g) /\ Held(retained) \subseteq Held(h)
  BY <1>8, <1>9 DEF Held
<1>12. ASSUME OneEach(Now)
       PROVE  /\ OneEach(w) /\ (Shown(Now) => Shown(w))
              /\ \A q \in DOMAIN indexed :
                   q # p => w.inputs[w.indexed[q].input] = inputs[indexed[q].input]
  <2>1. \A e \in {docs, indexed, retained} : \A q \in DOMAIN e : e[q].input \in D
    BY <1>2 DEF IsMap, Entries
  <2>2. ins[i].path = p
    BY <1>3, <1>5, <1>12, NowIs DEF OneEach, Carries
  <2>3. ASSUME NEW e, e = docs \/ e = indexed \/ e = retained, NEW q \in DOMAIN e, q # p
        PROVE  e[q].input \in D /\ ins[e[q].input] = inputs[e[q].input] /\ inputs[e[q].input].path = q
    <3>1. e[q].input \in D /\ inputs[e[q].input].path = q
      BY <1>12, <2>1, <2>3, NowIs DEF OneEach, Carries
    <3>2. CASE i \in D
      <4>1. inputs[i].path = p
        BY <1>5, <2>2, <3>2
      <4> QED BY <1>5, <2>3, <3>1, <4>1
    <3>3. CASE i \notin D
      BY <1>5, <3>1, <3>3
    <3> QED BY <3>1, <3>2, <3>3
  <2>4. p \in DOMAIN indexed => g[p].input = i
    BY <1>3, <1>8
  <2>5. p \in DOMAIN h => h[p].input = i
    <3>1. p \in DOMAIN retained => retained[p].input = i
      BY <1>3, <1>12, NowIs DEF OneEach, Meet
    <3> QED BY <1>9, <3>1
  <2>6. f[p].input = i
    BY <1>6 DEF Entry
  <2>7. Carries(ins, f) /\ Carries(ins, g) /\ Carries(ins, h)
    <3>1. Carries(ins, f)
      BY <1>6, <2>2, <2>3, <2>6 DEF Carries
    <3>2. Carries(ins, g)
      <4> SUFFICES ASSUME NEW q \in DOMAIN g PROVE ins[g[q].input].path = q
        BY DEF Carries
      <4>1. CASE q = p
        BY <1>8, <2>2, <2>4, <4>1
      <4>2. CASE q # p
        BY <1>8, <2>3, <4>2
      <4> QED BY <4>1, <4>2
    <3>3. Carries(ins, h)
      <4> SUFFICES ASSUME NEW q \in DOMAIN h PROVE ins[h[q].input].path = q
        BY DEF Carries
      <4>1. CASE q = p
        BY <2>2, <2>5, <4>1
      <4>2. CASE q # p
        <5>1. q \in DOMAIN retained /\ h[q].input = retained[q].input
          BY <1>9, <4>2
        <5> QED BY <2>3, <4>2, <5>1
      <4> QED BY <4>1, <4>2
    <3> QED BY <3>1, <3>2, <3>3
  <2>8. Meet(f, g)
    BY <1>6, <1>8, <1>12, <2>4, <2>6, NowIs DEF OneEach, Meet
  <2>9. Meet(f, h)
    BY <1>6, <1>9, <1>12, <2>5, <2>6, NowIs DEF OneEach, Meet
  <2>10. Meet(g, h)
    BY <1>8, <1>9, <1>12, <2>4, <2>5, NowIs DEF OneEach, Meet
  <2>11. OneEach(w)
    BY <1>1, <2>7, <2>8, <2>9, <2>10, Zenon DEF OneEach
  <2>12. Shown(Now) => Shown(w)
    <3> SUFFICES ASSUME Shown(Now), NEW q \in DOMAIN f PROVE ins[f[q].input].text = f[q].text
      BY <1>1, Zenon DEF Shown
    <3>1. CASE q = p
      <4>1. f[q].text = text
        BY <1>6, <3>1 DEF Entry
      <4> QED BY <1>5, <2>6, <3>1, <4>1
    <3>2. CASE q # p
      BY <1>6, <2>3, <3>2, NowIs DEF Shown
    <3> QED BY <3>1, <3>2
  <2>13. \A q \in DOMAIN indexed :
          q # p => w.inputs[w.indexed[q].input] = inputs[indexed[q].input]
    BY <1>1, <1>8, <2>3
  <2> QED BY <2>11, <2>12, <2>13
<1>13. Held(indexed) \cup Held(retained) \subseteq Held(w.indexed) \cup Held(w.retained)
  <2>1. Held(w.indexed) = Held(g) /\ Held(w.retained) = Held(h)
    BY <1>1, Zenon
  <2> QED BY <1>11, <2>1
<1>14. DOMAIN w.docs = DOMAIN docs \cup {p} /\ DOMAIN w.indexed = DOMAIN indexed
  BY <1>1, <1>6, <1>8
<1> QED BY <1>10, <1>12, <1>13, <1>14, Zenon DEF HasOpened

(* A map that follows a file from one path to another.                      *)
LEMMA Renamings ==
  ASSUME NEW f, NEW I, IsMap(f, Entries(I)), NEW old, NEW new \in Paths, NEW g, g = Renamed(f, old, new)
  PROVE  /\ IsMap(g, Entries(I))
         /\ old \in DOMAIN f => new \in DOMAIN g /\ g[new] = f[old]
         /\ \A p \in DOMAIN g :
              \/ p = new /\ old \in DOMAIN f
              \/ p \in DOMAIN f /\ g[p] = f[p] /\ (p = old => old \notin DOMAIN f)
<1>1. CASE old \in DOMAIN f
  <2>1. g = Put(Without(f, old), new, f[old])
    BY <1>1 DEF Renamed
  <2>2. DOMAIN g = (DOMAIN f \ {old}) \cup {new}
    BY <2>1 DEF Put, Over, Only, Without, Restrict
  <2>3. g[new] = f[old]
    BY <2>1 DEF Put, Over, Only, Without, Restrict
  <2>4. \A p \in DOMAIN g : p # new => p \in DOMAIN f /\ p # old /\ g[p] = f[p]
    BY <2>1 DEF Put, Over, Only, Without, Restrict
  <2>5. g = [p \in DOMAIN g |-> g[p]]
    BY <2>1 DEF Put, Over
  <2>6. \A p \in DOMAIN g : g[p] \in Entries(I)
    BY <1>1, <2>3, <2>4 DEF IsMap
  <2>7. DOMAIN g \subseteq Paths
    BY <2>2 DEF IsMap
  <2> QED BY <1>1, <2>2, <2>3, <2>4, <2>5, <2>6, <2>7 DEF IsMap
<1>2. CASE old \notin DOMAIN f
  BY <1>2 DEF Renamed
<1> QED BY <1>1, <1>2

HasRenamed(old, new, w) ==
  /\ IsWorld(w) /\ w.docs = Renamed(docs, old, new) /\ w.indexed = Renamed(indexed, old, new)
  /\ \A i \in DOMAIN inputs : w.inputs[i].text = inputs[i].text
  /\ /\ OneEach(Now) /\ DOMAIN inputs = HeldBy(Now)
     /\ old \in DOMAIN files /\ inputs[files[old]].path = old
     /\ new \notin DOMAIN docs \cup DOMAIN indexed \cup DOMAIN retained
     => OneEach(w) /\ (Shown(Now) => Shown(w))

(* A file is moved, with what is kept for it.                               *)
LEMMA Renaming ==
  ASSUME IsWorld(Now), IsMap(files, DOMAIN inputs), NEW old, NEW new \in Paths,
         NEW w, w = [docs |-> Renamed(docs, old, new), indexed |-> Renamed(indexed, old, new),
                     retained |-> Renamed(retained, old, new),
                     inputs |-> IF old \in DOMAIN files
                                THEN [inputs EXCEPT ![files[old]].path = new] ELSE inputs]
  PROVE  HasRenamed(old, new, w)
<1> DEFINE D == DOMAIN inputs
<1> DEFINE ins == IF old \in DOMAIN files THEN [inputs EXCEPT ![files[old]].path = new] ELSE inputs
<1> DEFINE f == Renamed(docs, old, new)
<1> DEFINE g == Renamed(indexed, old, new)
<1> DEFINE h == Renamed(retained, old, new)
<1>1. /\ w = [inputs |-> ins, docs |-> f, indexed |-> g, retained |-> h]
      /\ w.inputs = ins /\ w.docs = f /\ w.indexed = g /\ w.retained = h
  <2> HIDE DEF ins
  <2>1. w = [docs |-> f, indexed |-> g, retained |-> h, inputs |-> ins]
    BY DEF ins
  <2> HIDE DEF f, g, h
  <2> QED BY <2>1
<1>2. /\ inputs \in [D -> Input] /\ D \subseteq Nat /\ IsFiniteSet(D)
      /\ IsMap(docs, Entries(D)) /\ IsMap(indexed, Entries(D)) /\ IsMap(retained, Entries(D))
  BY NowIs DEF IsWorld
<1>3. /\ DOMAIN ins = D /\ ins \in [D -> Input]
      /\ \A i \in D : ins[i].text = inputs[i].text
      /\ \A i \in D : ins[i].path = IF old \in DOMAIN files /\ i = files[old] THEN new ELSE inputs[i].path
  <2>1. CASE old \in DOMAIN files
    <3>1. files[old] \in D
      BY <2>1 DEF IsMap
    <3>2. ins = [inputs EXCEPT ![files[old]].path = new]
      BY <2>1
    <3>3. \A i \in D : inputs[i] \in Input
      BY <1>2
    <3> HIDE DEF ins
    <3>4. DOMAIN ins = D /\ \A i \in D : i # files[old] => ins[i] = inputs[i]
      BY <3>1, <3>2
    <3>5. ins[files[old]] = [inputs[files[old]] EXCEPT !.path = new]
      BY <3>1, <3>2
    <3>6. ins[files[old]] \in Input /\ ins[files[old]].path = new /\ ins[files[old]].text = inputs[files[old]].text
      BY <3>1, <3>3, <3>5 DEF Input
    <3>7. \A i \in D : ins[i] \in Input
      BY <3>3, <3>4, <3>6
    <3>8. ins = [i \in D |-> ins[i]]
      BY <1>2, <3>2
    <3>9. ins \in [D -> Input]
      BY <3>7, <3>8
    <3> QED BY <2>1, <3>4, <3>6, <3>9
  <2>2. CASE old \notin DOMAIN files
    BY <1>2, <2>2
  <2> QED BY <2>1, <2>2
<1> HIDE DEF ins
<1>4. /\ IsMap(f, Entries(D))
      /\ old \in DOMAIN docs => new \in DOMAIN f /\ f[new] = docs[old]
      /\ \A p \in DOMAIN f :
           \/ p = new /\ old \in DOMAIN docs
           \/ p \in DOMAIN docs /\ f[p] = docs[p] /\ (p = old => old \notin DOMAIN docs)
  BY <1>2, Renamings
<1>5. /\ IsMap(g, Entries(D))
      /\ old \in DOMAIN indexed => new \in DOMAIN g /\ g[new] = indexed[old]
      /\ \A p \in DOMAIN g :
           \/ p = new /\ old \in DOMAIN indexed
           \/ p \in DOMAIN indexed /\ g[p] = indexed[p] /\ (p = old => old \notin DOMAIN indexed)
  BY <1>2, Renamings
<1>6. /\ IsMap(h, Entries(D))
      /\ old \in DOMAIN retained => new \in DOMAIN h /\ h[new] = retained[old]
      /\ \A p \in DOMAIN h :
           \/ p = new /\ old \in DOMAIN retained
           \/ p \in DOMAIN retained /\ h[p] = retained[p] /\ (p = old => old \notin DOMAIN retained)
  BY <1>2, Renamings
<1> HIDE DEF f, g, h
<1>7. IsWorld(w)
  BY <1>1, <1>2, <1>3, <1>4, <1>5, <1>6, Zenon DEF IsWorld
<1>8. \A i \in D : w.inputs[i].text = inputs[i].text
  BY <1>1, <1>3
<1>9. ASSUME OneEach(Now), DOMAIN inputs = HeldBy(Now),
             old \in DOMAIN files, inputs[files[old]].path = old,
             new \notin DOMAIN docs \cup DOMAIN indexed \cup DOMAIN retained
      PROVE  OneEach(w) /\ (Shown(Now) => Shown(w))
  <2> DEFINE k == files[old]
  <2>1. PICK e0, q0 : /\ e0 = docs \/ e0 = indexed \/ e0 = retained
                      /\ q0 \in DOMAIN e0 /\ e0[q0].input = k
    <3>1. k \in D
      BY <1>9 DEF IsMap
    <3>2. k \in Held(docs) \/ k \in Held(indexed) \/ k \in Held(retained)
      BY <1>9, <3>1, NowIs DEF HeldBy
    <3> QED BY <3>2 DEF Held
  <2>2. q0 = old
    BY <1>9, <2>1, NowIs DEF OneEach, Carries
  <2>3. ASSUME NEW e, e = docs \/ e = indexed \/ e = retained, old \in DOMAIN e
        PROVE  e[old].input = k
    BY <1>9, <2>1, <2>2, <2>3, NowIs DEF OneEach, Meet
  <2>4. ASSUME NEW e, e = docs \/ e = indexed \/ e = retained, NEW q \in DOMAIN e
        PROVE  e[q].input \in D /\ inputs[e[q].input].path = q
    BY <1>2, <1>9, <2>4, NowIs DEF OneEach, Carries, IsMap, Entries
  <2>5. ASSUME NEW e, e = docs \/ e = indexed \/ e = retained, NEW q \in DOMAIN e, q # old
        PROVE  ins[e[q].input].path = q
    <3>1. e[q].input \in D /\ inputs[e[q].input].path = q
      BY <2>4, <2>5
    <3>2. e[q].input # k
      BY <1>9, <2>5, <3>1
    <3> QED BY <1>3, <3>1, <3>2
  <2>6. ins[k].path = new
    BY <1>3, <1>9 DEF IsMap
  <2> HIDE DEF k
  <2>7. ASSUME NEW e, e = docs \/ e = indexed \/ e = retained, NEW e2,
               old \in DOMAIN e => new \in DOMAIN e2 /\ e2[new] = e[old],
               \A p \in DOMAIN e2 :
                 \/ p = new /\ old \in DOMAIN e
                 \/ p \in DOMAIN e /\ e2[p] = e[p] /\ (p = old => old \notin DOMAIN e)
        PROVE  Carries(ins, e2)
    <3> SUFFICES ASSUME NEW p \in DOMAIN e2 PROVE ins[e2[p].input].path = p
      BY DEF Carries
    <3>1. CASE p = new /\ old \in DOMAIN e
      <4>1. e[old].input = k
        BY <2>3, <2>7, <3>1
      <4> QED BY <2>6, <2>7, <3>1, <4>1
    <3>2. CASE p \in DOMAIN e /\ e2[p] = e[p] /\ p # old
      BY <2>5, <2>7, <3>2
    <3> QED BY <2>7, <3>1, <3>2
  <2>8. Carries(ins, f) /\ Carries(ins, g) /\ Carries(ins, h)
    <3>1. Carries(ins, f)
      BY <1>4, <2>7
    <3>2. Carries(ins, g)
      BY <1>5, <2>7
    <3>3. Carries(ins, h)
      BY <1>6, <2>7
    <3> QED BY <3>1, <3>2, <3>3
  <2>9. Meet(f, g) /\ Meet(f, h) /\ Meet(g, h)
    <3>1. new \notin DOMAIN docs /\ new \notin DOMAIN indexed /\ new \notin DOMAIN retained
      BY <1>9
    <3>2. Meet(f, g)
      BY <1>4, <1>5, <1>9, <3>1, NowIs DEF OneEach, Meet
    <3>3. Meet(f, h)
      BY <1>4, <1>6, <1>9, <3>1, NowIs DEF OneEach, Meet
    <3>4. Meet(g, h)
      BY <1>5, <1>6, <1>9, <3>1, NowIs DEF OneEach, Meet
    <3> QED BY <3>2, <3>3, <3>4
  <2>10. OneEach(w)
    BY <1>1, <2>8, <2>9, Zenon DEF OneEach
  <2>11. Shown(Now) => Shown(w)
    <3> SUFFICES ASSUME Shown(Now), NEW p \in DOMAIN f PROVE ins[f[p].input].text = f[p].text
      BY <1>1, Zenon DEF Shown
    <3>1. PICK q \in DOMAIN docs : f[p] = docs[q]
      BY <1>4
    <3>2. inputs[docs[q].input].text = docs[q].text /\ docs[q].input \in D
      BY <2>4, NowIs DEF Shown
    <3> QED BY <1>3, <3>1, <3>2
  <2> QED BY <2>10, <2>11
<1>10. w.docs = Renamed(docs, old, new) /\ w.indexed = Renamed(indexed, old, new)
  BY <1>1 DEF f, g
<1>11. D = DOMAIN inputs
  BY DEF D
<1> HIDE DEF D
<1> QED BY <1>7, <1>8, <1>9, <1>10, <1>11, Zenon DEF HasRenamed

-----------------------------------------------------------------------------
(***************************************************************************)
(* What each handler does: its world is one, nothing kept is lost, and, in *)
(* order, a file stays one input and the other files keep their texts.     *)
(***************************************************************************)
Typed == IsWorld(Now) /\ IsMap(files, DOMAIN inputs)
KeepsAll == Held(indexed) \cup Held(retained) \subseteq Held(indexed') \cup Held(retained')

(* Everything resync does for the world that a handler leaves it.           *)
LEMMA Analysing ==
  ASSUME NEW w, IsWorld(w), IsMap(disk, Texts), resync(w)
  PROVE  /\ Typed' /\ docs' = w.docs /\ indexed' = w.indexed
         /\ (OneEach(w) /\ Shown(w) => Ordered')
         /\ Held(w.indexed) \cup Held(w.retained) \subseteq Held(indexed') \cup Held(retained')
         /\ OneEach(w) => \A p \in DOMAIN indexed' :
                            inputs'[indexed'[p].input] = w.inputs[w.indexed[p].input]
<1>1. /\ IsWorld(Now') /\ IsMap(files', DOMAIN inputs')
      /\ DOMAIN inputs' = HeldBy(Now') /\ docs' = w.docs /\ indexed' = w.indexed
      /\ Held(w.retained) \subseteq Held(retained')
  BY Resynced, Zenon
<1>2. Typed'
  BY <1>1, Zenon DEF Typed
<1>3. Held(w.indexed) \cup Held(w.retained) \subseteq Held(indexed') \cup Held(retained')
  BY <1>1
<1>4. ASSUME OneEach(w)
      PROVE  /\ OneEach(Now')
             /\ \A i \in Held(docs') \cup Held(indexed') : inputs'[i] = w.inputs[i]
             /\ \A p \in DOMAIN files' : inputs'[files'[p]].path = p
  BY <1>4, ResyncedInOrder, Zenon
<1>5. ASSUME OneEach(w), Shown(w) PROVE Ordered'
  <2>1. Shown(Now')
    BY <1>5, ResyncedShown, Zenon
  <2> QED BY <1>1, <1>4, <1>5, <2>1, Zenon DEF Ordered
<1>6. ASSUME OneEach(w), NEW p \in DOMAIN indexed'
      PROVE  inputs'[indexed'[p].input] = w.inputs[w.indexed[p].input]
  BY <1>1, <1>4, <1>6, Held1, Zenon
<1> QED BY <1>1, <1>2, <1>3, <1>5, <1>6, Zenon

(* The indexed files, but for one, are analysed with the text they had.     *)
Others(p) ==
  \A q \in DOMAIN indexed' \ {p} :
    q \in DOMAIN indexed /\ inputs'[indexed'[q].input] = inputs[indexed[q].input]

(* did_open: the file has its buffer, and the input that was kept for it.   *)
LEMMA Opens ==
  ASSUME Typed, IsMap(disk, Texts), NEW p \in Paths, NEW text \in Texts, open(p, text)
  PROVE  /\ Typed' /\ KeepsAll
         /\ DOMAIN docs' = DOMAIN docs \cup {p} /\ DOMAIN indexed' = DOMAIN indexed
         /\ (Ordered => Ordered' /\ Others(p))
<1> DEFINE mints == held_input(p) = {}
<1> DEFINE i == IF mints THEN Minted(Now, {p})[p] ELSE CHOOSE j \in held_input(p) : TRUE
<1> DEFINE w == [inputs |-> set_texts(Now, Only(p, i), Only(p, text)),
                 docs |-> Put(docs, p, Entry(i, text)),
                 indexed |-> Retexted(indexed, p, text),
                 retained |-> IF mints THEN Put(retained, p, Entry(i, text))
                                       ELSE Retexted(retained, p, text)]
<1> DEFINE v == OpenWorld(p, text, i)
<1>1. mints <=> p \notin DOMAIN indexed \cup DOMAIN retained
  BY DEF held_input
<1>2. IsWorld(Now)
  BY DEF Typed
<1>3. Opened(p, i)
  <2>1. CASE p \in DOMAIN indexed
    BY <2>1 DEF held_input, Opened
  <2>2. CASE p \notin DOMAIN indexed /\ p \in DOMAIN retained
    BY <2>2 DEF held_input, Opened
  <2>3. CASE p \notin DOMAIN indexed /\ p \notin DOMAIN retained
    <3>1. Minted(Now, {p}) \in [{p} -> Nat \ DOMAIN Now.inputs]
      BY <1>2, NewInputs DEF IsWorld
    <3>2. i = Minted(Now, {p})[p]
      BY <1>1, <2>3
    <3> HIDE DEF i
    <3> QED BY <2>3, <3>1, <3>2, NowIs DEF Opened
  <2> QED BY <2>1, <2>2, <2>3
<1> HIDE DEF i
<1>4. resync(w)
  BY Zenon DEF open, i
<1> HIDE DEF mints
<1>5. w = v
  BY <1>1 DEF OpenWorld
<1>6. resync(v)
  BY <1>4, <1>5, Zenon
<1>7. /\ IsWorld(v)
      /\ DOMAIN v.docs = DOMAIN docs \cup {p} /\ DOMAIN v.indexed = DOMAIN indexed
      /\ Held(indexed) \cup Held(retained) \subseteq Held(v.indexed) \cup Held(v.retained)
      /\ OneEach(Now) =>
           /\ OneEach(v) /\ (Shown(Now) => Shown(v))
           /\ \A q \in DOMAIN indexed :
                q # p => v.inputs[v.indexed[q].input] = inputs[indexed[q].input]
  <2>1. v = OpenWorld(p, text, i)
    BY DEF v
  <2> HIDE DEF v
  <2>2. HasOpened(p, v)
    BY <1>2, <1>3, <2>1, Opening, Zenon
  <2> QED BY <2>2 DEF HasOpened
<1> HIDE DEF v
<1>8. /\ Typed' /\ docs' = v.docs /\ indexed' = v.indexed
      /\ (OneEach(v) /\ Shown(v) => Ordered')
      /\ Held(v.indexed) \cup Held(v.retained) \subseteq Held(indexed') \cup Held(retained')
      /\ OneEach(v) => \A q \in DOMAIN indexed' :
                         inputs'[indexed'[q].input] = v.inputs[v.indexed[q].input]
  BY <1>6, <1>7, Analysing, Zenon
<1>9. KeepsAll
  BY <1>7, <1>8 DEF KeepsAll
<1>10. ASSUME Ordered PROVE Ordered' /\ Others(p)
  <2>1. OneEach(Now) /\ Shown(Now)
    BY <1>10 DEF Ordered
  <2>2. Ordered'
    BY <1>7, <1>8, <2>1, Zenon
  <2>3. Others(p)
    BY <1>7, <1>8, <2>1, Zenon DEF Others
  <2> QED BY <2>2, <2>3
<1> QED BY <1>7, <1>8, <1>9, <1>10, Zenon

(* did_change: only the text of the buffer's file is another.               *)
LEMMA Updates ==
  ASSUME Typed, IsMap(disk, Texts), NEW p \in DOMAIN docs, NEW text \in Texts, update(p, text)
  PROVE  /\ Typed' /\ KeepsAll
         /\ DOMAIN docs' = DOMAIN docs /\ DOMAIN indexed' = DOMAIN indexed
         /\ (Ordered => Ordered' /\ Others(p))
<1> DEFINE w == [inputs |-> set_texts(Now, Only(p, docs[p].input), Only(p, text)),
                 docs |-> Retexted(docs, p, text),
                 indexed |-> Retexted(indexed, p, text), retained |-> retained]
<1>1. resync(w)
  <2> DEFINE ins == set_texts(Now, Only(p, docs[p].input), Only(p, text))
  <2> DEFINE f == Retexted(Now.docs, p, text)
  <2> DEFINE g == Retexted(Now.indexed, p, text)
  <2>1. resync([Now EXCEPT !.inputs = ins, !.docs = f, !.indexed = g])
    BY Zenon DEF update
  <2>2. w = [inputs |-> ins, docs |-> f, indexed |-> g, retained |-> retained]
    BY NowIs, Zenon
  <2> HIDE DEF w, ins, f, g
  <2> DEFINE a == [inputs |-> ins, docs |-> docs, indexed |-> indexed, retained |-> retained]
  <2> DEFINE b == [inputs |-> ins, docs |-> f, indexed |-> indexed, retained |-> retained]
  <2>3. [Now EXCEPT !.inputs = ins] = a /\ [a EXCEPT !.docs = f] = b
    BY DEF Now
  <2>4. [b EXCEPT !.indexed = g] = w
    BY <2>2
  <2> HIDE DEF a, b
  <2> QED BY <2>1, <2>3, <2>4, Zenon
<1>2. IsWorld(Now)
  BY DEF Typed
<1>3. /\ IsWorld(w) /\ w.retained = retained
      /\ DOMAIN w.docs = DOMAIN docs /\ DOMAIN w.indexed = DOMAIN indexed
      /\ \A q \in DOMAIN indexed : w.indexed[q].input = indexed[q].input
      /\ OneEach(Now) =>
           /\ OneEach(w) /\ (Shown(Now) => Shown(w))
           /\ \A q \in DOMAIN indexed :
                q # p => w.inputs[w.indexed[q].input] = inputs[indexed[q].input]
  <2>1. w = [inputs |-> set_texts(Now, Only(p, docs[p].input), Only(p, text)),
             docs |-> Retexted(docs, p, text),
             indexed |-> Retexted(indexed, p, text), retained |-> retained]
    BY Zenon
  <2> HIDE DEF w
  <2> QED BY <1>2, <2>1, Updating, Zenon
<1> HIDE DEF w
<1>4. /\ Typed' /\ docs' = w.docs /\ indexed' = w.indexed
      /\ (OneEach(w) /\ Shown(w) => Ordered')
      /\ Held(w.indexed) \cup Held(w.retained) \subseteq Held(indexed') \cup Held(retained')
      /\ OneEach(w) => \A q \in DOMAIN indexed' :
                         inputs'[indexed'[q].input] = w.inputs[w.indexed[q].input]
  BY <1>1, <1>3, Analysing, Zenon
<1>5. KeepsAll
  <2>1. Held(indexed) = Held(w.indexed) /\ Held(retained) = Held(w.retained)
    BY <1>3 DEF Held
  <2> QED BY <1>4, <2>1 DEF KeepsAll
<1>6. ASSUME Ordered PROVE Ordered' /\ Others(p)
  <2>1. OneEach(Now) /\ Shown(Now)
    BY <1>6 DEF Ordered
  <2>2. Ordered'
    BY <1>3, <1>4, <2>1, Zenon
  <2>3. Others(p)
    BY <1>3, <1>4, <2>1, Zenon DEF Others
  <2> QED BY <2>2, <2>3
<1> QED BY <1>3, <1>4, <1>5, <1>6, Zenon

(* did_close: an indexed file that is on disk goes back to its text there.  *)
LEMMA Closes ==
  ASSUME Typed, IsMap(disk, Texts), NEW p,
         resync(reload_indexed_from_disk([Now EXCEPT !.docs = Without(@, p)], p))
  PROVE  /\ Typed' /\ KeepsAll
         /\ DOMAIN docs' = DOMAIN docs \ {p} /\ DOMAIN indexed' = DOMAIN indexed
         /\ Ordered =>
              /\ Ordered' /\ Others(p)
              /\ p \in DOMAIN indexed \cap DOMAIN disk => inputs'[indexed'[p].input].text = disk[p]
<1>1. PICK u : u = [Now EXCEPT !.docs = Without(@, p)]
  BY Zenon
<1>2. PICK w : w = reload_indexed_from_disk(u, p)
  BY Zenon
<1>3. resync(w)
  BY <1>1, <1>2, Zenon
<1>4. IsWorld(Now)
  BY DEF Typed
<1>5. /\ u.docs = Without(docs, p) /\ u.inputs = inputs
      /\ u.indexed = indexed /\ u.retained = retained
      /\ DOMAIN u.docs = DOMAIN docs \ {p}
      /\ IsWorld(u) /\ (OneEach(Now) => OneEach(u)) /\ (Shown(Now) => Shown(u))
  BY <1>1, <1>4, Dropping, Zenon
<1>6. /\ IsWorld(w) /\ DOMAIN w.inputs = DOMAIN u.inputs
      /\ w.docs = u.docs /\ w.retained = u.retained /\ DOMAIN w.indexed = DOMAIN u.indexed
      /\ \A q \in DOMAIN u.indexed : w.indexed[q].input = u.indexed[q].input
      /\ p \in DOMAIN u.indexed \cap DOMAIN disk => w.inputs[u.indexed[p].input].text = disk[p]
  <2>1. HasReloaded(u, p, w)
    BY <1>2, <1>5, Reloads, Zenon
  <2> QED BY <2>1, Zenon DEF HasReloaded
<1>7. ASSUME OneEach(u)
      PROVE  /\ OneEach(w) /\ (Shown(u) => Shown(w))
             /\ \A q \in DOMAIN u.indexed :
                  q # p => w.inputs[w.indexed[q].input] = u.inputs[u.indexed[q].input]
  <2>1. p \notin DOMAIN u.docs
    BY <1>5
  <2>2. ReloadedInOrder(u, p, w)
    BY <1>2, <1>5, <1>7, <2>1, ReloadsInOrder, Zenon
  <2> QED BY <2>2, Zenon DEF ReloadedInOrder
<1>8. /\ Typed' /\ docs' = w.docs /\ indexed' = w.indexed
      /\ (OneEach(w) /\ Shown(w) => Ordered')
      /\ Held(w.indexed) \cup Held(w.retained) \subseteq Held(indexed') \cup Held(retained')
      /\ OneEach(w) => \A q \in DOMAIN indexed' :
                         inputs'[indexed'[q].input] = w.inputs[w.indexed[q].input]
  BY <1>3, <1>6, Analysing, Zenon
<1>9. KeepsAll
  <2>1. Held(indexed) = Held(w.indexed) /\ Held(retained) = Held(w.retained)
    BY <1>5, <1>6 DEF Held
  <2> QED BY <1>8, <2>1 DEF KeepsAll
<1>10. ASSUME Ordered
       PROVE  /\ Ordered' /\ Others(p)
              /\ p \in DOMAIN indexed \cap DOMAIN disk => inputs'[indexed'[p].input].text = disk[p]
  <2>1. OneEach(Now) /\ Shown(Now)
    BY <1>10 DEF Ordered
  <2>2. OneEach(w) /\ Shown(w)
    BY <1>5, <1>7, <2>1, Zenon
  <2>3. Others(p)
    BY <1>5, <1>6, <1>7, <1>8, <2>1, <2>2 DEF Others
  <2>4. p \in DOMAIN indexed \cap DOMAIN disk => inputs'[indexed'[p].input].text = disk[p]
    BY <1>5, <1>6, <1>8, <2>2
  <2> QED BY <1>8, <2>2, <2>3, <2>4, Zenon
<1>11. DOMAIN docs' = DOMAIN docs \ {p} /\ DOMAIN indexed' = DOMAIN indexed
  BY <1>5, <1>6, <1>8, Zenon
<1> QED BY <1>8, <1>9, <1>10, <1>11, Zenon

(* The server's own text of a file is read again, unless it is open.        *)
LEMMA Rereads ==
  ASSUME Typed, IsMap(disk, Texts), NEW p, reload_from_disk(p)
  PROVE  /\ Typed' /\ KeepsAll
         /\ DOMAIN docs' = DOMAIN docs /\ DOMAIN indexed' = DOMAIN indexed
         /\ Ordered =>
              /\ Ordered' /\ Others(p)
              /\ p \in (DOMAIN indexed \cap DOMAIN disk) \ DOMAIN docs =>
                   inputs'[indexed'[p].input].text = disk[p]
<1>1. IsWorld(Now)
  BY DEF Typed
<1>2. CASE p \notin DOMAIN docs /\ p \in DOMAIN indexed \cap DOMAIN disk
  <2>1. resync(reload_indexed_from_disk(Now, p))
    BY <1>2, Zenon DEF reload_from_disk
  <2>2. PICK w : w = reload_indexed_from_disk(Now, p)
    BY Zenon
  <2>3. resync(w)
    BY <2>1, <2>2, Zenon
  <2>4. /\ IsWorld(w) /\ DOMAIN w.inputs = DOMAIN Now.inputs
        /\ w.docs = Now.docs /\ w.retained = Now.retained /\ DOMAIN w.indexed = DOMAIN Now.indexed
        /\ \A q \in DOMAIN Now.indexed : w.indexed[q].input = Now.indexed[q].input
        /\ p \in DOMAIN Now.indexed \cap DOMAIN disk => w.inputs[Now.indexed[p].input].text = disk[p]
    <3>1. HasReloaded(Now, p, w)
      BY <1>1, <2>2, Reloads, Zenon
    <3> QED BY <3>1, Zenon DEF HasReloaded
  <2>5. ASSUME OneEach(Now)
        PROVE  /\ OneEach(w) /\ (Shown(Now) => Shown(w))
               /\ \A q \in DOMAIN Now.indexed :
                    q # p => w.inputs[w.indexed[q].input] = Now.inputs[Now.indexed[q].input]
    <3>1. p \notin DOMAIN Now.docs
      BY <1>2, NowIs
    <3>2. ReloadedInOrder(Now, p, w)
      BY <1>1, <2>2, <2>5, <3>1, ReloadsInOrder, Zenon
    <3> QED BY <3>2, Zenon DEF ReloadedInOrder
  <2>6. /\ Typed' /\ docs' = w.docs /\ indexed' = w.indexed
        /\ (OneEach(w) /\ Shown(w) => Ordered')
        /\ Held(w.indexed) \cup Held(w.retained) \subseteq Held(indexed') \cup Held(retained')
        /\ OneEach(w) => \A q \in DOMAIN indexed' :
                           inputs'[indexed'[q].input] = w.inputs[w.indexed[q].input]
    BY <2>3, <2>4, Analysing, Zenon
  <2>7. KeepsAll
    <3>1. Held(indexed) = Held(w.indexed) /\ Held(retained) = Held(w.retained)
      BY <2>4, NowIs DEF Held
    <3> QED BY <2>6, <3>1 DEF KeepsAll
  <2>8. ASSUME Ordered
        PROVE  Ordered' /\ Others(p) /\ inputs'[indexed'[p].input].text = disk[p]
    <3>1. OneEach(Now) /\ Shown(Now)
      BY <2>8 DEF Ordered
    <3>2. OneEach(w) /\ Shown(w)
      BY <2>5, <3>1, Zenon
    <3>3. Others(p)
      BY <2>4, <2>5, <2>6, <3>1, <3>2, NowIs DEF Others
    <3>4. inputs'[indexed'[p].input].text = disk[p]
      BY <1>2, <2>4, <2>6, <3>2, NowIs
    <3> QED BY <2>6, <3>2, <3>3, <3>4, Zenon
  <2>9. DOMAIN docs' = DOMAIN docs /\ DOMAIN indexed' = DOMAIN indexed
    BY <2>4, <2>6, NowIs, Zenon
  <2> QED BY <2>6, <2>7, <2>8, <2>9, Zenon
<1>3. CASE ~ (p \notin DOMAIN docs /\ p \in DOMAIN indexed \cap DOMAIN disk)
  <2>1. UNCHANGED server
    BY <1>3, Zenon DEF reload_from_disk, Nothing
  <2>2. /\ inputs' = inputs /\ docs' = docs /\ indexed' = indexed
        /\ retained' = retained /\ files' = files
    BY <2>1 DEF server
  <2>3. Now' = Now
    BY <2>2 DEF Now
  <2>4. Typed' /\ KeepsAll
    BY <2>2, <2>3 DEF Typed, KeepsAll
  <2>5. Ordered => Ordered'
    BY <2>2, <2>3 DEF Ordered
  <2>6. Others(p)
    BY <2>2 DEF Others
  <2> QED BY <1>3, <2>2, <2>4, <2>5, <2>6
<1> QED BY <1>2, <1>3

(* A deletion heard of: the file is off the index.                          *)
LEMMA Removes ==
  ASSUME Typed, IsMap(disk, Texts), NEW p, remove_from_disk(p)
  PROVE  /\ Typed'
         /\ DOMAIN docs' = DOMAIN docs /\ DOMAIN indexed' = DOMAIN indexed \ {p}
         /\ (Ordered => Ordered' /\ Others(p))
<1>1. PICK w : w = [Now EXCEPT !.indexed = Without(@, p)]
  BY Zenon
<1>2. resync(w)
  BY <1>1, Zenon DEF remove_from_disk
<1>3. IsWorld(Now)
  BY DEF Typed
<1>4. HasRemoved(p, w)
  BY <1>1, <1>3, Removing, Zenon
<1>5. /\ w.inputs = inputs /\ w.docs = docs
      /\ DOMAIN w.indexed = DOMAIN indexed \ {p}
      /\ \A q \in DOMAIN indexed \ {p} : w.indexed[q] = indexed[q]
      /\ IsWorld(w) /\ (OneEach(Now) => OneEach(w)) /\ (Shown(Now) => Shown(w))
  BY <1>4, Zenon DEF HasRemoved
<1>6. /\ Typed' /\ docs' = w.docs /\ indexed' = w.indexed
      /\ (OneEach(w) /\ Shown(w) => Ordered')
      /\ OneEach(w) => \A q \in DOMAIN indexed' :
                         inputs'[indexed'[q].input] = w.inputs[w.indexed[q].input]
  BY <1>2, <1>5, Analysing, Zenon
<1>7. ASSUME Ordered PROVE Ordered' /\ Others(p)
  <2>1. OneEach(w) /\ Shown(w)
    BY <1>5, <1>7, Zenon DEF Ordered
  <2>2. Others(p)
    BY <1>5, <1>6, <2>1 DEF Others
  <2> QED BY <1>6, <2>1, <2>2, Zenon
<1>8. DOMAIN docs' = DOMAIN docs /\ DOMAIN indexed' = DOMAIN indexed \ {p}
  BY <1>5, <1>6, Zenon
<1> QED BY <1>6, <1>7, <1>8, Zenon

(* Files heard of, or found at the start: they are on the index, as on      *)
(* disk.                                                                    *)
LEMMA Registers ==
  ASSUME Typed, IsMap(disk, Texts), NEW S \in SUBSET DOMAIN disk,
         S \cap (DOMAIN docs \cup DOMAIN indexed) = {},
         resync(register_indexed(Now, S))
  PROVE  /\ Typed' /\ KeepsAll
         /\ DOMAIN docs' = DOMAIN docs /\ DOMAIN indexed' = DOMAIN indexed \cup S
         /\ Ordered =>
              /\ Ordered'
              /\ \A q \in DOMAIN indexed : inputs'[indexed'[q].input] = inputs[indexed[q].input]
              /\ \A q \in S : inputs'[indexed'[q].input].text = disk[q]
<1>1. PICK w : w = register_indexed(Now, S)
  BY Zenon
<1>2. resync(w)
  BY <1>1, Zenon
<1>3. IsWorld(Now)
  BY DEF Typed
<1>4. HasRegistered(S, w)
  BY <1>1, <1>3, Registering, Zenon
<1>5. S \cap DOMAIN indexed = {}
  OBVIOUS
<1>6. /\ IsWorld(w) /\ w.docs = docs
      /\ DOMAIN w.indexed = S \cup DOMAIN indexed
      /\ Held(indexed) \cup Held(retained) \subseteq Held(w.indexed) \cup Held(w.retained)
      /\ OneEach(Now) =>
           /\ OneEach(w) /\ (Shown(Now) => Shown(w))
           /\ \A q \in DOMAIN indexed :
                w.inputs[w.indexed[q].input] = inputs[indexed[q].input]
           /\ \A q \in S : w.inputs[w.indexed[q].input].text = disk[q]
  BY <1>4, <1>5, Zenon DEF HasRegistered
<1>7. /\ Typed' /\ docs' = w.docs /\ indexed' = w.indexed
      /\ (OneEach(w) /\ Shown(w) => Ordered')
      /\ Held(w.indexed) \cup Held(w.retained) \subseteq Held(indexed') \cup Held(retained')
      /\ OneEach(w) => \A q \in DOMAIN indexed' :
                         inputs'[indexed'[q].input] = w.inputs[w.indexed[q].input]
  BY <1>2, <1>6, Analysing, Zenon
<1>8. KeepsAll
  BY <1>6, <1>7 DEF KeepsAll
<1>9. DOMAIN docs' = DOMAIN docs /\ DOMAIN indexed' = DOMAIN indexed \cup S
  BY <1>6, <1>7
<1>10. ASSUME Ordered
       PROVE  /\ Ordered'
              /\ \A q \in DOMAIN indexed : inputs'[indexed'[q].input] = inputs[indexed[q].input]
              /\ \A q \in S : inputs'[indexed'[q].input].text = disk[q]
  <2>1. OneEach(Now) /\ Shown(Now)
    BY <1>10 DEF Ordered
  <2>2. OneEach(w) /\ Shown(w)
    BY <1>6, <2>1, Zenon
  <2>3. \A q \in DOMAIN indexed : inputs'[indexed'[q].input] = inputs[indexed[q].input]
    BY <1>6, <1>7, <1>9, <2>1, <2>2
  <2>4. \A q \in S : inputs'[indexed'[q].input].text = disk[q]
    BY <1>6, <1>7, <1>9, <2>1, <2>2
  <2> QED BY <1>7, <2>2, <2>3, <2>4, Zenon
<1> QED BY <1>7, <1>8, <1>9, <1>10, Zenon

(* did_rename_files: the entries follow the file, and no text changes.      *)
LEMMA Renames ==
  ASSUME Typed, IsMap(disk, Texts), NEW old, NEW new \in Paths, rename_file(old, new)
  PROVE  /\ Typed'
         /\ docs' = Renamed(docs, old, new) /\ indexed' = Renamed(indexed, old, new)
         /\ Ordered /\ old \in DOMAIN files
              /\ new \notin DOMAIN docs \cup DOMAIN indexed \cup DOMAIN retained =>
              /\ Ordered'
              /\ \A q \in DOMAIN indexed' :
                   inputs'[indexed'[q].input].text = inputs[indexed'[q].input].text
<1> DEFINE w0 == [docs |-> Renamed(docs, old, new), indexed |-> Renamed(indexed, old, new),
                  retained |-> Renamed(retained, old, new),
                  inputs |-> IF old \in DOMAIN files
                             THEN [inputs EXCEPT ![files[old]].path = new] ELSE inputs]
<1>1. PICK w : w = w0
  BY Zenon
<1>2. resync(w)
  BY <1>1, Zenon DEF rename_file
<1>3. IsWorld(Now) /\ IsMap(files, DOMAIN inputs)
  BY DEF Typed
<1>4. HasRenamed(old, new, w)
  BY <1>1, <1>3, Renaming, Zenon
<1> HIDE DEF w0
<1>5. /\ IsWorld(w) /\ w.docs = Renamed(docs, old, new) /\ w.indexed = Renamed(indexed, old, new)
      /\ \A i \in DOMAIN inputs : w.inputs[i].text = inputs[i].text
  BY <1>4, Zenon DEF HasRenamed
<1>6. /\ Typed' /\ docs' = w.docs /\ indexed' = w.indexed
      /\ (OneEach(w) /\ Shown(w) => Ordered')
      /\ OneEach(w) => \A q \in DOMAIN indexed' :
                         inputs'[indexed'[q].input] = w.inputs[w.indexed[q].input]
  BY <1>2, <1>5, Analysing, Zenon
<1>7. ASSUME Ordered, old \in DOMAIN files,
             new \notin DOMAIN docs \cup DOMAIN indexed \cup DOMAIN retained
      PROVE  /\ Ordered'
             /\ \A q \in DOMAIN indexed' :
                  inputs'[indexed'[q].input].text = inputs[indexed'[q].input].text
  <2>1. OneEach(Now) /\ Shown(Now) /\ DOMAIN inputs = HeldBy(Now) /\ inputs[files[old]].path = old
    BY <1>7 DEF Ordered
  <2>2. OneEach(w) /\ Shown(w)
    BY <1>4, <1>7, <2>1, Zenon DEF HasRenamed
  <2>3. ASSUME NEW q \in DOMAIN indexed' PROVE indexed'[q].input \in DOMAIN inputs
    <3>1. IsMap(indexed, Entries(DOMAIN inputs))
      BY <1>3, NowIs DEF IsWorld
    <3>2. indexed' = Renamed(indexed, old, new)
      BY <1>5, <1>6, Zenon
    <3>3. IsMap(Renamed(indexed, old, new), Entries(DOMAIN inputs))
      BY <3>1, Renamings
    <3> QED BY <2>3, <3>2, <3>3 DEF IsMap, Entries
  <2>4. \A q \in DOMAIN indexed' :
          inputs'[indexed'[q].input].text = inputs[indexed'[q].input].text
    BY <1>5, <1>6, <2>2, <2>3
  <2> QED BY <1>6, <2>2, <2>4, Zenon
<1> QED BY <1>5, <1>6, <1>7, Zenon
-----------------------------------------------------------------------------
(***************************************************************************)
(* Types, and the inputs that stay.                                        *)
(***************************************************************************)
LEMMA EmptyMap ==
  ASSUME NEW V
  PROVE  IsMap(<<>>, V) /\ DOMAIN <<>> = {}
BY DEF IsMap

LEMMA DiskMaps ==
  ASSUME IsMap(disk, Texts), NEW p \in Paths
  PROVE  /\ \A text \in Texts : IsMap(Put(disk, p, text), Texts)
         /\ IsMap(Without(disk, p), Texts)
         /\ \A old : IsMap(Renamed(disk, old, p), Texts)
<1>1. ASSUME NEW f, IsMap(f, Texts), NEW text \in Texts PROVE IsMap(Put(f, p, text), Texts)
  BY <1>1 DEF IsMap, Put, Over, Only
<1>2. ASSUME NEW q PROVE IsMap(Without(disk, q), Texts)
  BY DEF IsMap, Without, Restrict
<1>3. ASSUME NEW old PROVE IsMap(Renamed(disk, old, p), Texts)
  <2>1. CASE old \in DOMAIN disk
    <3>1. disk[old] \in Texts
      BY <2>1 DEF IsMap
    <3>2. IsMap(Put(Without(disk, old), p, disk[old]), Texts)
      BY <1>1, <1>2, <3>1
    <3> QED BY <2>1, <3>2 DEF Renamed
  <2>2. CASE old \notin DOMAIN disk
    BY <2>2 DEF Renamed
  <2> QED BY <2>1, <2>2
<1> QED BY <1>1, <1>2, <1>3

LEMMA StartsTyped ==
  ASSUME Init
  PROVE  TypeInv
<1>1. PICK D \in SUBSET Paths : disk \in [D -> Texts]
  BY WorkspaceAssumption, Zenon DEF Init
<1>2. IsMap(disk, Texts)
  BY <1>1 DEF Init, IsMap
<1>3. /\ inputs = <<>> /\ docs = <<>> /\ indexed = <<>> /\ retained = <<>> /\ files = <<>>
  BY Zenon DEF Init
<1>4. IsWorld(Now)
  <2>1. IsFiniteSet(DOMAIN inputs) /\ DOMAIN inputs \subseteq Nat
    BY <1>3, EmptyMap, FS_EmptySet
  <2>2. inputs \in [DOMAIN inputs -> Input]
    BY <1>3
  <2>3. /\ IsMap(docs, Entries(DOMAIN inputs))
        /\ IsMap(indexed, Entries(DOMAIN inputs)) /\ IsMap(retained, Entries(DOMAIN inputs))
    BY <1>3, EmptyMap, Zenon
  <2> QED BY <2>1, <2>2, <2>3, NowIs, Zenon DEF IsWorld
<1>5. IsMap(files, DOMAIN inputs)
  BY <1>3, EmptyMap, Zenon
<1>6. tabs \subseteq Paths /\ ready \in BOOLEAN /\ moving \subseteq Moves /\ watched \in Seq(Events)
  <2>1. tabs = {} /\ ready = FALSE /\ moving = {} /\ watched = <<>>
    BY Zenon DEF Init
  <2> QED BY <2>1, EmptySeq
<1>7. changes \in 0 .. MaxChanges
  BY WorkspaceAssumption DEF Init
<1> QED BY <1>2, <1>4, <1>5, <1>6, <1>7, Zenon DEF TypeInv

LEMMA SeenAreEvents ==
  ASSUME NEW type \in {"changed", "created", "deleted"}, NEW p
  PROVE  Seen(type, p) \in Seq(Events)
<1>1. CASE p \in Project
  <2> DEFINE e == [type |-> type, path |-> p]
  <2>1. e \in Events
    BY <1>1 DEF Events
  <2> HIDE DEF e
  <2>2. <<e>> \in Seq(Events)
    BY <2>1
  <2>3. Seen(type, p) = <<e>>
    BY <1>1, Zenon DEF Seen, e
  <2> QED BY <2>2, <2>3, Zenon
<1>2. CASE p \notin Project
  BY <1>2, EmptySeq, Zenon DEF Seen
<1> QED BY <1>1, <1>2

LEMMA TellTypes ==
  ASSUME TypeInv, NEW s \in Seq(Events), Tell(s)
  PROVE  watched' \in Seq(Events) /\ changes' \in 0 .. MaxChanges
<1>1. watched' \in Seq(Events)
  BY DEF Tell, TypeInv
<1>2. changes' \in 0 .. MaxChanges
  BY WorkspaceAssumption DEF Tell, TypeInv
<1> QED BY <1>1, <1>2

(* The files of the server, that a step of the disk leaves alone.           *)
LEMMA ServerStays ==
  ASSUME UNCHANGED server
  PROVE  /\ inputs' = inputs /\ docs' = docs /\ indexed' = indexed
         /\ retained' = retained /\ files' = files
         /\ Now' = Now /\ KeepsAll
         /\ (Typed => Typed') /\ (Ordered => Ordered') /\ \A p : Others(p)
<1>1. /\ inputs' = inputs /\ docs' = docs /\ indexed' = indexed
      /\ retained' = retained /\ files' = files
  BY DEF server
<1>2. Now' = Now
  BY <1>1 DEF Now
<1>3. KeepsAll
  BY <1>1 DEF KeepsAll
<1>4. Typed => Typed'
  BY <1>1, <1>2, Zenon DEF Typed
<1>5. Ordered => Ordered'
  BY <1>1, <1>2, Zenon DEF Ordered
<1>6. \A p : Others(p)
  BY <1>1 DEF Others
<1> QED BY <1>1, <1>2, <1>3, <1>4, <1>5, <1>6, Zenon

(* The server's own maps are of their types after every step.               *)
LEMMA NextTyped ==
  ASSUME TypeInv, Next
  PROVE  Typed' /\ (UNCHANGED <<watched, moving>> => KeepsAll)
<1>1. Typed /\ IsMap(disk, Texts)
  BY Zenon DEF TypeInv, Typed
<1>2. CASE index_project_at
  <2> DEFINE S == (Sources \cap DOMAIN disk) \ (DOMAIN indexed \cup DOMAIN docs)
  <2>1. resync(register_indexed(Now, S))
    BY <1>2, Zenon DEF index_project_at
  <2>2. S \in SUBSET DOMAIN disk /\ S \cap (DOMAIN docs \cup DOMAIN indexed) = {}
    OBVIOUS
  <2> HIDE DEF S
  <2> QED BY <1>1, <2>1, <2>2, Registers, Zenon
<1>3. CASE did_change_watched_files
  <2>1. watched # <<>> /\ watched' = Tail(watched) /\ watched \in Seq(Events)
    BY <1>3, Zenon DEF did_change_watched_files, TypeInv
  <2>2. watched' # watched
    BY <2>1, HeadTailProperties
  <2> DEFINE p == Head(watched).path
  <2>3. Head(watched) \in Events
    BY <2>1
  <2>4. CASE remove_from_disk(p)
    BY <1>1, <2>2, <2>4, Removes, Zenon
  <2>5. CASE register_new_file(p)
    <3>1. CASE p \notin DOMAIN docs \cup DOMAIN indexed /\ p \in Project \cap DOMAIN disk
      <4>1. resync(register_indexed(Now, {p}))
        BY <2>5, <3>1, Zenon DEF register_new_file
      <4>2. {p} \in SUBSET DOMAIN disk /\ {p} \cap (DOMAIN docs \cup DOMAIN indexed) = {}
        BY <3>1
      <4> QED BY <1>1, <4>1, <4>2, Registers, Zenon
    <3>2. CASE ~ (p \notin DOMAIN docs \cup DOMAIN indexed /\ p \in Project \cap DOMAIN disk)
      <4>1. UNCHANGED server
        BY <2>5, <3>2, Zenon DEF register_new_file, Nothing
      <4> QED BY <1>1, <4>1, ServerStays, Zenon
    <3> QED BY <3>1, <3>2
  <2>6. CASE reload_from_disk(p)
    BY <1>1, <2>6, Rereads, Zenon
  <2>7. remove_from_disk(p) \/ register_new_file(p) \/ reload_from_disk(p)
    BY <1>3, <2>3 DEF did_change_watched_files, Events
  <2> QED BY <2>4, <2>5, <2>6, <2>7
<1>4. ASSUME NEW p \in Paths, did_close(p) PROVE Typed' /\ KeepsAll
  <2>1. resync(reload_indexed_from_disk([Now EXCEPT !.docs = Without(@, p)], p))
    BY <1>4, Zenon DEF did_close
  <2> QED BY <1>1, <2>1, Closes, Zenon
<1>5. ASSUME NEW p \in Paths, delete(p) PROVE Typed' /\ KeepsAll
  <2>1. UNCHANGED server
    BY <1>5, Zenon DEF delete
  <2> QED BY <1>1, <2>1, ServerStays, Zenon
<1>6. ASSUME NEW p \in Paths, NEW text \in Texts, did_open(p, text) PROVE Typed' /\ KeepsAll
  <2>1. open(p, text)
    BY <1>6, Zenon DEF did_open
  <2> QED BY <1>1, <2>1, Opens, Zenon
<1>7. ASSUME NEW p \in Paths, NEW text \in Texts, did_change(p, text) PROVE Typed' /\ KeepsAll
  <2>1. CASE p \in DOMAIN docs
    <3>1. update(p, text)
      BY <1>7, <2>1, Zenon DEF did_change
    <3> QED BY <1>1, <2>1, <3>1, Updates, Zenon
  <2>2. CASE p \notin DOMAIN docs
    <3>1. UNCHANGED server
      BY <1>7, <2>2, Zenon DEF did_change, Nothing
    <3> QED BY <1>1, <3>1, ServerStays, Zenon
  <2> QED BY <2>1, <2>2
<1>8. ASSUME NEW p \in Paths, NEW text \in Texts, write(p, text) PROVE Typed' /\ KeepsAll
  <2>1. UNCHANGED server
    BY <1>8, Zenon DEF write
  <2> QED BY <1>1, <2>1, ServerStays, Zenon
<1>9. ASSUME NEW m \in Moves, move(m[1], m[2]) PROVE Typed' /\ KeepsAll
  <2>1. UNCHANGED server
    BY <1>9, Zenon DEF move
  <2> QED BY <1>1, <2>1, ServerStays, Zenon
<1>10. ASSUME NEW m \in Moves, did_rename_files(m[1], m[2])
       PROVE  Typed' /\ moving' # moving
  <2>1. rename_file(m[1], m[2]) /\ moving' # moving
    BY <1>10 DEF did_rename_files
  <2>2. m[2] \in Paths
    BY WorkspaceAssumption
  <2> QED BY <1>1, <2>1, <2>2, Renames, Zenon
<1> QED BY <1>2, <1>3, <1>4, <1>5, <1>6, <1>7, <1>8, <1>9, <1>10, Zenon DEF Next

(* The types of the disk, the client and the server are inductive.          *)
LEMMA StepTyped ==
  ASSUME TypeInv, [Next]_vars
  PROVE  TypeInv'
<1>1. ASSUME UNCHANGED vars PROVE TypeInv'
  <2>1. /\ disk' = disk /\ watched' = watched /\ moving' = moving /\ tabs' = tabs
        /\ ready' = ready /\ inputs' = inputs /\ files' = files /\ changes' = changes
        /\ UNCHANGED server
    BY <1>1 DEF vars, client, server
  <2>2. Now' = Now
    BY <2>1, ServerStays, Zenon
  <2> QED BY <2>1, <2>2, Zenon DEF TypeInv
<1>2. ASSUME Next PROVE TypeInv'
  <2>1. IsWorld(Now') /\ IsMap(files', DOMAIN inputs')
    BY <1>2, NextTyped, Zenon DEF Typed
  <2>2. /\ IsMap(disk, Texts) /\ tabs \subseteq Paths /\ ready \in BOOLEAN
        /\ changes \in 0 .. MaxChanges /\ watched \in Seq(Events) /\ moving \subseteq Moves
    BY Zenon DEF TypeInv
  <2> SUFFICES /\ IsMap(disk', Texts) /\ tabs' \subseteq Paths /\ ready' \in BOOLEAN
               /\ changes' \in 0 .. MaxChanges /\ watched' \in Seq(Events) /\ moving' \subseteq Moves
    BY <2>1, Zenon DEF TypeInv
  <2>3. CASE index_project_at
    <3>1. /\ ready' = TRUE /\ disk' = disk /\ watched' = watched /\ moving' = moving
          /\ tabs' = tabs /\ changes' = changes
      BY <2>3 DEF index_project_at
    <3> QED BY <2>2, <3>1
  <2>4. CASE did_change_watched_files
    <3>1. /\ watched # <<>> /\ watched' = Tail(watched) /\ disk' = disk /\ moving' = moving
          /\ ready' = ready /\ tabs' = tabs /\ changes' = changes
      BY <2>4 DEF did_change_watched_files
    <3>2. watched' \in Seq(Events)
      BY <2>2, <3>1, HeadTailProperties
    <3> QED BY <2>2, <3>1, <3>2
  <2>5. ASSUME NEW p \in Paths, did_close(p)
        PROVE  /\ IsMap(disk', Texts) /\ tabs' \subseteq Paths /\ ready' \in BOOLEAN
               /\ changes' \in 0 .. MaxChanges /\ watched' \in Seq(Events) /\ moving' \subseteq Moves
    <3>1. /\ tabs' = tabs \ {p} /\ disk' = disk /\ watched' = watched /\ moving' = moving
          /\ ready' = ready /\ changes' = changes
      BY <2>5 DEF did_close
    <3> QED BY <2>2, <3>1
  <2>6. ASSUME NEW p \in Paths, delete(p)
        PROVE  /\ IsMap(disk', Texts) /\ tabs' \subseteq Paths /\ ready' \in BOOLEAN
               /\ changes' \in 0 .. MaxChanges /\ watched' \in Seq(Events) /\ moving' \subseteq Moves
    <3>1. /\ disk' = Without(disk, p) /\ Tell(Seen("deleted", p)) /\ moving' = moving
          /\ tabs' = tabs /\ ready' = ready
      BY <2>6 DEF delete
    <3>2. Seen("deleted", p) \in Seq(Events)
      BY SeenAreEvents
    <3>3. watched' \in Seq(Events) /\ changes' \in 0 .. MaxChanges
      BY <3>1, <3>2, TellTypes, Zenon
    <3>4. IsMap(disk', Texts)
      BY <2>2, <3>1, DiskMaps
    <3> QED BY <2>2, <3>1, <3>3, <3>4
  <2>7. ASSUME NEW p \in Paths, NEW text \in Texts, did_open(p, text)
        PROVE  /\ IsMap(disk', Texts) /\ tabs' \subseteq Paths /\ ready' \in BOOLEAN
               /\ changes' \in 0 .. MaxChanges /\ watched' \in Seq(Events) /\ moving' \subseteq Moves
    <3>1. /\ tabs' = tabs \cup {p} /\ disk' = disk /\ watched' = watched /\ moving' = moving
          /\ ready' = ready /\ changes' = changes
      BY <2>7 DEF did_open
    <3> QED BY <2>2, <3>1
  <2>8. ASSUME NEW p \in Paths, NEW text \in Texts, did_change(p, text)
        PROVE  /\ IsMap(disk', Texts) /\ tabs' \subseteq Paths /\ ready' \in BOOLEAN
               /\ changes' \in 0 .. MaxChanges /\ watched' \in Seq(Events) /\ moving' \subseteq Moves
    <3>1. /\ tabs' = tabs /\ disk' = disk /\ watched' = watched /\ moving' = moving
          /\ ready' = ready /\ changes' = changes
      BY <2>8 DEF did_change, client
    <3> QED BY <2>2, <3>1
  <2>9. ASSUME NEW p \in Paths, NEW text \in Texts, write(p, text)
        PROVE  /\ IsMap(disk', Texts) /\ tabs' \subseteq Paths /\ ready' \in BOOLEAN
               /\ changes' \in 0 .. MaxChanges /\ watched' \in Seq(Events) /\ moving' \subseteq Moves
    <3> DEFINE type == IF p \in DOMAIN disk THEN "changed" ELSE "created"
    <3>1. /\ disk' = Put(disk, p, text) /\ Tell(Seen(type, p)) /\ moving' = moving
          /\ tabs' = tabs /\ ready' = ready
      BY <2>9 DEF write
    <3>2. Seen(type, p) \in Seq(Events)
      BY SeenAreEvents
    <3>3. watched' \in Seq(Events) /\ changes' \in 0 .. MaxChanges
      BY <3>1, <3>2, TellTypes, Zenon
    <3>4. IsMap(disk', Texts)
      BY <2>2, <3>1, DiskMaps
    <3> QED BY <2>2, <3>1, <3>3, <3>4
  <2>10. ASSUME NEW m \in Moves, move(m[1], m[2])
         PROVE  /\ IsMap(disk', Texts) /\ tabs' \subseteq Paths /\ ready' \in BOOLEAN
                /\ changes' \in 0 .. MaxChanges /\ watched' \in Seq(Events) /\ moving' \subseteq Moves
    <3> DEFINE s == Seen("deleted", m[1]) \o Seen("created", m[2])
    <3>1. /\ disk' = Renamed(disk, m[1], m[2]) /\ Tell(s) /\ moving' = {<<m[1], m[2]>>}
          /\ tabs' = tabs /\ ready' = ready
      BY <2>10 DEF move
    <3>2. m[2] \in Paths /\ m = <<m[1], m[2]>>
      BY WorkspaceAssumption
    <3>3. s \in Seq(Events)
      <4>1. Seen("deleted", m[1]) \in Seq(Events) /\ Seen("created", m[2]) \in Seq(Events)
        BY SeenAreEvents
      <4> QED BY <4>1, ConcatProperties
    <3>4. watched' \in Seq(Events) /\ changes' \in 0 .. MaxChanges
      BY <3>1, <3>3, TellTypes, Zenon
    <3>5. IsMap(disk', Texts)
      BY <2>2, <3>1, <3>2, DiskMaps
    <3>6. moving' \subseteq Moves
      BY <3>1, <3>2
    <3> QED BY <2>2, <3>1, <3>4, <3>5, <3>6
  <2>11. ASSUME NEW m \in Moves, did_rename_files(m[1], m[2])
         PROVE  /\ IsMap(disk', Texts) /\ tabs' \subseteq Paths /\ ready' \in BOOLEAN
                /\ changes' \in 0 .. MaxChanges /\ watched' \in Seq(Events) /\ moving' \subseteq Moves
    <3>1. /\ disk' = disk /\ watched' = watched /\ moving' = {} /\ tabs' = tabs
          /\ ready' = ready /\ changes' = changes
      BY <2>11 DEF did_rename_files
    <3> QED BY <2>2, <3>1
  <2> QED
    BY <1>2, <2>3, <2>4, <2>5, <2>6, <2>7, <2>8, <2>9, <2>10, <2>11, Zenon DEF Next
<1> QED BY <1>1, <1>2

LEMMA TypeInvariance == Spec => []TypeInv
<1>1. Init => TypeInv
  BY StartsTyped
<1>2. TypeInv /\ [Next]_vars => TypeInv'
  BY StepTyped
<1> QED BY <1>1, <1>2, PTL DEF Spec

(* Buffers, the index, what is kept and what a path resolves to name inputs *)
(* that are held, with paths and texts of the system.                       *)
THEOREM WorkspaceTypes == Spec => []TypeOK
<1>1. TypeInv => TypeOK
  <2> SUFFICES ASSUME TypeInv PROVE TypeOK
    OBVIOUS
  <2>1. DOMAIN disk \subseteq Paths /\ Range(disk) \subseteq Texts
    BY DEF TypeInv, IsMap, Range
  <2>2. tabs \subseteq Paths /\ moving \subseteq Moves /\ ready \in BOOLEAN /\ changes \in 0 .. MaxChanges
    BY Zenon DEF TypeInv
  <2>3. /\ DOMAIN inputs \subseteq Nat /\ inputs \in [DOMAIN inputs -> Input]
        /\ IsMap(docs, Entries(DOMAIN inputs))
        /\ IsMap(indexed, Entries(DOMAIN inputs)) /\ IsMap(retained, Entries(DOMAIN inputs))
    BY NowIs, Zenon DEF TypeInv, IsWorld
  <2>4. Range(inputs) \subseteq [path : Paths, text : Texts]
    BY <2>3 DEF Range, Input
  <2>5. ASSUME NEW f, IsMap(f, Entries(DOMAIN inputs))
        PROVE  DOMAIN f \subseteq Paths /\ Range(f) \subseteq [input : DOMAIN inputs, text : Texts]
    BY <2>5 DEF IsMap, Entries, Range
  <2>6. \A f \in {docs, indexed, retained} :
          DOMAIN f \subseteq Paths /\ Range(f) \subseteq [input : DOMAIN inputs, text : Texts]
    BY <2>3, <2>5
  <2>7. DOMAIN files \subseteq Paths /\ Range(files) \subseteq DOMAIN inputs
    BY DEF TypeInv, IsMap, Range
  <2> QED BY <2>1, <2>2, <2>3, <2>4, <2>6, <2>7, Zenon DEF TypeOK
<1> QED BY <1>1, TypeInvariance, PTL

(* What is done to buffers, and the walks that follow, lose no input of the *)
(* project or of what was kept: a file that is closed and opened again gets *)
(* back the one it had.                                                     *)
THEOREM InputsAreKept == Spec => IdentityKept
<1>1. TypeInv /\ [Next]_vars =>
        [UNCHANGED <<watched, moving>> =>
           Held(indexed) \cup Held(retained) \subseteq Held(indexed') \cup Held(retained')]_vars
  <2> SUFFICES ASSUME TypeInv, Next, UNCHANGED <<watched, moving>>
               PROVE  Held(indexed) \cup Held(retained) \subseteq Held(indexed') \cup Held(retained')
    OBVIOUS
  <2>1. KeepsAll
    BY NextTyped
  <2> QED BY <2>1, Zenon DEF KeepsAll
<1> QED BY <1>1, TypeInvariance, PTL DEF Spec, IdentityKept
-----------------------------------------------------------------------------
(***************************************************************************)
(* One input for each file, and the buffer's text in it.                   *)
(***************************************************************************)
LEMMA StartsOrdered ==
  ASSUME Init
  PROVE  OrderInv
<1>1. inputs = <<>> /\ docs = <<>> /\ indexed = <<>> /\ retained = <<>> /\ files = <<>> /\ moving = {}
  BY Zenon DEF Init
<1>2. /\ DOMAIN inputs = {} /\ DOMAIN docs = {} /\ DOMAIN indexed = {} /\ DOMAIN retained = {}
      /\ DOMAIN files = {}
  BY <1>1, EmptyMap, Zenon
<1>3. OneEach(Now)
  BY <1>2, NowIs DEF OneEach, Carries, Meet
<1>4. Shown(Now)
  BY <1>2, NowIs DEF Shown
<1>5. HeldBy(Now) = {}
  BY <1>2, NowIs DEF HeldBy, Held
<1>6. Ordered
  BY <1>2, <1>3, <1>4, <1>5 DEF Ordered
<1>7. InMove
  BY <1>1 DEF InMove
<1> QED BY <1>6, <1>7, StartsTyped DEF OrderInv

(* Every handler leaves one input for each file, and the buffer's text in   *)
(* it.                                                                      *)
LEMMA NextOrdered ==
  ASSUME OrderInv, Next
  PROVE  Ordered'
<1>1. Typed /\ IsMap(disk, Texts) /\ Ordered
  BY Zenon DEF OrderInv, TypeInv, Typed
<1>2. CASE index_project_at
  <2> DEFINE S == (Sources \cap DOMAIN disk) \ (DOMAIN indexed \cup DOMAIN docs)
  <2>1. resync(register_indexed(Now, S))
    BY <1>2, Zenon DEF index_project_at
  <2>2. S \in SUBSET DOMAIN disk /\ S \cap (DOMAIN docs \cup DOMAIN indexed) = {}
    OBVIOUS
  <2> HIDE DEF S
  <2> QED BY <1>1, <2>1, <2>2, Registers, Zenon
<1>3. CASE did_change_watched_files
  <2>1. watched # <<>> /\ watched \in Seq(Events)
    BY <1>3, Zenon DEF did_change_watched_files, OrderInv, TypeInv
  <2> DEFINE p == Head(watched).path
  <2>2. Head(watched) \in Events
    BY <2>1
  <2>3. CASE remove_from_disk(p)
    BY <1>1, <2>3, Removes, Zenon
  <2>4. CASE register_new_file(p)
    <3>1. CASE p \notin DOMAIN docs \cup DOMAIN indexed /\ p \in Project \cap DOMAIN disk
      <4>1. resync(register_indexed(Now, {p}))
        BY <2>4, <3>1, Zenon DEF register_new_file
      <4>2. {p} \in SUBSET DOMAIN disk /\ {p} \cap (DOMAIN docs \cup DOMAIN indexed) = {}
        BY <3>1
      <4> QED BY <1>1, <4>1, <4>2, Registers, Zenon
    <3>2. CASE ~ (p \notin DOMAIN docs \cup DOMAIN indexed /\ p \in Project \cap DOMAIN disk)
      <4>1. UNCHANGED server
        BY <2>4, <3>2, Zenon DEF register_new_file, Nothing
      <4> QED BY <1>1, <4>1, ServerStays, Zenon
    <3> QED BY <3>1, <3>2
  <2>5. CASE reload_from_disk(p)
    BY <1>1, <2>5, Rereads, Zenon
  <2>6. remove_from_disk(p) \/ register_new_file(p) \/ reload_from_disk(p)
    BY <1>3, <2>2 DEF did_change_watched_files, Events
  <2> QED BY <2>3, <2>4, <2>5, <2>6
<1>4. ASSUME NEW p \in Paths, did_close(p) PROVE Ordered'
  <2>1. resync(reload_indexed_from_disk([Now EXCEPT !.docs = Without(@, p)], p))
    BY <1>4, Zenon DEF did_close
  <2> QED BY <1>1, <2>1, Closes, Zenon
<1>5. ASSUME NEW p \in Paths, delete(p) PROVE Ordered'
  <2>1. UNCHANGED server
    BY <1>5, Zenon DEF delete
  <2> QED BY <1>1, <2>1, ServerStays, Zenon
<1>6. ASSUME NEW p \in Paths, NEW text \in Texts, did_open(p, text) PROVE Ordered'
  <2>1. open(p, text)
    BY <1>6, Zenon DEF did_open
  <2> QED BY <1>1, <2>1, Opens, Zenon
<1>7. ASSUME NEW p \in Paths, NEW text \in Texts, did_change(p, text) PROVE Ordered'
  <2>1. CASE p \in DOMAIN docs
    <3>1. update(p, text)
      BY <1>7, <2>1, Zenon DEF did_change
    <3> QED BY <1>1, <2>1, <3>1, Updates, Zenon
  <2>2. CASE p \notin DOMAIN docs
    <3>1. UNCHANGED server
      BY <1>7, <2>2, Zenon DEF did_change, Nothing
    <3> QED BY <1>1, <3>1, ServerStays, Zenon
  <2> QED BY <2>1, <2>2
<1>8. ASSUME NEW p \in Paths, NEW text \in Texts, write(p, text) PROVE Ordered'
  <2>1. UNCHANGED server
    BY <1>8, Zenon DEF write
  <2> QED BY <1>1, <2>1, ServerStays, Zenon
<1>9. ASSUME NEW m \in Moves, move(m[1], m[2]) PROVE Ordered'
  <2>1. UNCHANGED server
    BY <1>9, Zenon DEF move
  <2> QED BY <1>1, <2>1, ServerStays, Zenon
<1>10. ASSUME NEW m \in Moves, did_rename_files(m[1], m[2]) PROVE Ordered'
  <2>1. rename_file(m[1], m[2]) /\ <<m[1], m[2]>> \in moving
    BY <1>10, Zenon DEF did_rename_files
  <2>2. m[2] \in Paths /\ m = <<m[1], m[2]>>
    BY WorkspaceAssumption
  <2>3. m[1] \in DOMAIN files /\ m[2] \notin DOMAIN docs \cup DOMAIN indexed \cup DOMAIN retained
    BY <2>1, <2>2 DEF OrderInv, InMove
  <2> QED BY <1>1, <2>1, <2>2, <2>3, Renames, Zenon
<1> QED BY <1>2, <1>3, <1>4, <1>5, <1>6, <1>7, <1>8, <1>9, <1>10, Zenon DEF Next

(* The server hears of a move before anything else happens.                 *)
LEMMA NextInMove ==
  ASSUME Orderly, OrderInv, Next
  PROVE  InMove' /\ (moving' = {} \/ \E m \in Moves : move(m[1], m[2]))
<1>1. ASSUME NEW m \in Moves, move(m[1], m[2]) PROVE InMove'
  <2>1. /\ moving = {} /\ moving' = {<<m[1], m[2]>>} /\ ready /\ ready' = ready
        /\ m[1] \in DOMAIN disk /\ disk' = Renamed(disk, m[1], m[2])
        /\ m[1] \in DOMAIN files /\ UNCHANGED server
        /\ m[2] \notin DOMAIN retained \cup DOMAIN docs \cup DOMAIN indexed
    BY <1>1, Zenon DEF move
  <2>2. m[2] \in DOMAIN disk'
    BY <2>1 DEF Renamed, Put, Over, Only
  <2>3. docs' = docs /\ indexed' = indexed /\ retained' = retained /\ files' = files
    BY <2>1 DEF server
  <2> QED BY <2>1, <2>2, <2>3 DEF InMove
<1>2. ASSUME ~ \E m \in Moves : move(m[1], m[2]) PROVE moving' = {}
  <2>1. ready \/ moving = {}
    BY DEF OrderInv, InMove
  <2>2. CASE index_project_at
    BY <2>1, <2>2 DEF index_project_at
  <2>3. CASE did_change_watched_files
    BY <2>3 DEF did_change_watched_files
  <2>4. ASSUME NEW p \in Paths, did_close(p) PROVE moving' = {}
    BY <2>4 DEF did_close, Settled
  <2>5. ASSUME NEW p \in Paths, delete(p) PROVE moving' = {}
    BY <2>5 DEF delete, Tell, Settled
  <2>6. ASSUME NEW p \in Paths, NEW text \in Texts, did_open(p, text) PROVE moving' = {}
    BY <2>6 DEF did_open, Settled
  <2>7. ASSUME NEW p \in Paths, NEW text \in Texts, did_change(p, text) PROVE moving' = {}
    BY <2>7 DEF did_change, client, Settled
  <2>8. ASSUME NEW p \in Paths, NEW text \in Texts, write(p, text) PROVE moving' = {}
    BY <2>8 DEF write, Tell, Settled
  <2>9. ASSUME NEW m \in Moves, did_rename_files(m[1], m[2]) PROVE moving' = {}
    BY <2>9 DEF did_rename_files
  <2> QED BY <1>2, <2>2, <2>3, <2>4, <2>5, <2>6, <2>7, <2>8, <2>9, Zenon DEF Next
<1>3. moving' = {} => InMove'
  BY DEF InMove
<1> QED BY <1>1, <1>2, <1>3

LEMMA StepOrdered ==
  ASSUME Orderly, OrderInv, [Next]_vars
  PROVE  OrderInv'
<1>1. TypeInv'
  BY StepTyped DEF OrderInv
<1>2. CASE Next
  BY <1>1, <1>2, NextOrdered, NextInMove, Zenon DEF OrderInv
<1>3. CASE UNCHANGED vars
  <2>1. UNCHANGED server /\ moving' = moving /\ ready' = ready /\ disk' = disk
    BY <1>3 DEF vars, client
  <2>2. Ordered'
    BY <2>1, ServerStays, Zenon DEF OrderInv
  <2>3. InMove'
    BY <2>1, ServerStays DEF OrderInv, InMove
  <2> QED BY <1>1, <2>2, <2>3, Zenon DEF OrderInv
<1> QED BY <1>2, <1>3

LEMMA OrderInvariance ==
  ASSUME Orderly
  PROVE  Spec => []OrderInv
<1>1. Init => OrderInv
  BY StartsOrdered
<1>2. OrderInv /\ [Next]_vars => OrderInv'
  BY StepOrdered
<1> QED BY <1>1, <1>2, PTL DEF Spec

(* While files move in order, a path stands for one input: whatever keeps   *)
(* one under a path keeps the only one that carries it, through opens,      *)
(* walks, deletions and moves.                                              *)
THEOREM OneInputEach ==
  ASSUME Orderly
  PROVE  Spec => []OneInputPerFile
<1>1. OrderInv => OneInputPerFile
  <2> SUFFICES ASSUME OrderInv PROVE OneInputPerFile
    OBVIOUS
  <2>1. /\ DOMAIN inputs = Held(docs) \cup Held(indexed) \cup Held(retained)
        /\ Carries(inputs, docs) /\ Carries(inputs, indexed) /\ Carries(inputs, retained)
        /\ Meet(docs, indexed) /\ Meet(docs, retained) /\ Meet(indexed, retained)
    BY NowIs DEF OrderInv, Ordered, OneEach, HeldBy
  <2>2. \A f \in {docs, indexed, retained} : \A p \in DOMAIN f : inputs[f[p].input].path = p
    BY <2>1 DEF Carries
  <2>3. ASSUME NEW i \in DOMAIN inputs
        PROVE  \E f \in {docs, indexed, retained} : \E p \in DOMAIN f : f[p].input = i
    BY <2>1, <2>3 DEF Held
  <2>4. ASSUME NEW f \in {docs, indexed, retained}, NEW g \in {docs, indexed, retained},
               NEW p \in DOMAIN f \cap DOMAIN g
        PROVE  f[p].input = g[p].input
    BY <2>1, <2>4 DEF Meet
  <2>5. ASSUME NEW i \in DOMAIN inputs, NEW j \in DOMAIN inputs, inputs[i].path = inputs[j].path
        PROVE  i = j
    <3>1. PICK f \in {docs, indexed, retained} : \E p \in DOMAIN f : f[p].input = i
      BY <2>3
    <3>2. PICK p \in DOMAIN f : f[p].input = i
      BY <3>1
    <3>3. PICK g \in {docs, indexed, retained} : \E q \in DOMAIN g : g[q].input = j
      BY <2>3
    <3>4. PICK q \in DOMAIN g : g[q].input = j
      BY <3>3
    <3>5. p = q
      BY <2>2, <2>5, <3>2, <3>4
    <3> QED BY <2>4, <3>2, <3>4, <3>5
  <2> QED BY <2>2, <2>5, Zenon DEF OneInputPerFile
<1> QED BY <1>1, OrderInvariance, PTL

(* While files move in order, an open buffer shadows its file: what is      *)
(* analysed for it is what the editor shows, whatever the index, the walks  *)
(* and the watcher do with the same input.                                  *)
THEOREM BuffersWin ==
  ASSUME Orderly
  PROVE  Spec => []BufferTextWins
<1>1. OrderInv => BufferTextWins
  BY NowIs DEF OrderInv, Ordered, Shown, BufferTextWins
<1> QED BY <1>1, OrderInvariance, PTL
-----------------------------------------------------------------------------
(***************************************************************************)
(* A closed file of the project is analysed as it is on disk, or the       *)
(* server is yet to hear why not.                                          *)
(***************************************************************************)
(* An event that is not the one being told is still to be told.             *)
LEMMA HeardLater ==
  ASSUME watched \in Seq(Events), watched # <<>>, watched' = Tail(watched),
         NEW type, NEW p, Heard(type, p), Head(watched) # [type |-> type, path |-> p]
  PROVE  Heard(type, p)'
<1>1. PICK n \in DOMAIN watched : watched[n] = [type |-> type, path |-> p]
  BY DEF Heard
<1>2. Head(watched) = watched[1] /\ DOMAIN watched = 1 .. Len(watched) /\ Len(watched) \in Nat
  OBVIOUS
<1>3. n # 1
  BY <1>1, <1>2
<1>4. DOMAIN watched' = 1 .. Len(watched) - 1 /\ \A k \in 1 .. Len(watched) - 1 : watched'[k] = watched[k + 1]
  OBVIOUS
<1>5. n - 1 \in DOMAIN watched' /\ watched'[n - 1] = watched[n]
  BY <1>2, <1>3, <1>4
<1> QED BY <1>1, <1>5 DEF Heard

(* What the disk does adds its events to those that are still to be told.   *)
LEMMA HeardMore ==
  ASSUME TypeInv, NEW s \in Seq(Events), Tell(s)
  PROVE  /\ \A type, p : Heard(type, p) => Heard(type, p)'
         /\ \A type, p : (\E n \in DOMAIN s : s[n] = [type |-> type, path |-> p]) => Heard(type, p)'
<1>1. watched \in Seq(Events) /\ watched' = watched \o s
  BY DEF TypeInv, Tell
<1>2. /\ DOMAIN watched = 1 .. Len(watched) /\ Len(watched) \in Nat
      /\ DOMAIN s = 1 .. Len(s) /\ Len(s) \in Nat
  BY <1>1
<1>3. /\ DOMAIN watched' = 1 .. Len(watched) + Len(s)
      /\ \A n \in 1 .. Len(watched) : watched'[n] = watched[n]
      /\ \A n \in 1 .. Len(s) : watched'[Len(watched) + n] = s[n]
  BY <1>1, <1>2
<1>4. ASSUME NEW type, NEW p, Heard(type, p) PROVE Heard(type, p)'
  <2>1. PICK n \in 1 .. Len(watched) : watched[n] = [type |-> type, path |-> p]
    BY <1>2, <1>4 DEF Heard
  <2>2. n \in DOMAIN watched' /\ watched'[n] = watched[n]
    BY <1>2, <1>3
  <2> QED BY <2>1, <2>2 DEF Heard
<1>5. ASSUME NEW type, NEW p, NEW n \in DOMAIN s, s[n] = [type |-> type, path |-> p]
      PROVE  Heard(type, p)'
  <2>1. Len(watched) + n \in DOMAIN watched' /\ watched'[Len(watched) + n] = s[n]
    BY <1>2, <1>3
  <2> QED BY <1>5, <2>1 DEF Heard
<1> QED BY <1>4, <1>5

(* A file that a step does not touch is as well known as before.            *)
LEMMA StaysInformed ==
  ASSUME NEW p, Informed(p), disk' = disk, moving' = moving,
         p \in DOMAIN docs => p \in DOMAIN docs',
         inputs'[indexed'[p].input].text = inputs[indexed[p].input].text,
         Heard("changed", p) => Heard("changed", p)',
         Heard("deleted", p) => Heard("deleted", p)'
  PROVE  Informed(p)'
BY DEF Informed

(* A handler that is told one of the events it has not heard of.            *)
LEMMA HearsOne ==
  ASSUME DiskInv, OrderInv, did_change_watched_files
  PROVE  /\ DOMAIN indexed' \subseteq Project
         /\ \A q \in DOMAIN indexed' : Informed(q)'
<1>1. Typed /\ IsMap(disk, Texts) /\ Ordered /\ watched \in Seq(Events)
  BY Zenon DEF OrderInv, TypeInv, Typed
<1>2. watched # <<>> /\ watched' = Tail(watched) /\ disk' = disk /\ moving' = moving /\ moving = {}
  BY Zenon DEF did_change_watched_files
<1>3. Head(watched) \in Events
  BY <1>1, <1>2
<1>4. PICK type \in {"changed", "created", "deleted"}, p \in Project :
        Head(watched) = [type |-> type, path |-> p]
  BY <1>3 DEF Events
<1>5. Head(watched).type = type /\ Head(watched).path = p
  BY <1>4
<1>6. ASSUME NEW q, q # p, q \in DOMAIN indexed, q \in DOMAIN indexed',
             inputs'[indexed'[q].input] = inputs[indexed[q].input],
             DOMAIN docs' = DOMAIN docs
      PROVE  Informed(q)'
  <2>1. \A t : Head(watched) # [type |-> t, path |-> q]
    BY <1>4, <1>6
  <2>2. \A t : Heard(t, q) => Heard(t, q)'
    BY <1>1, <1>2, <2>1, HeardLater
  <2>3. Informed(q)
    BY <1>6 DEF DiskInv
  <2> QED BY <1>2, <1>6, <2>2, <2>3, StaysInformed
<1>7. \A t : t # type /\ Heard(t, p) => Heard(t, p)'
  <2> SUFFICES ASSUME NEW t, t # type, Heard(t, p) PROVE Heard(t, p)'
    OBVIOUS
  <2>1. Head(watched) # [type |-> t, path |-> p]
    BY <1>4
  <2> QED BY <1>1, <1>2, <2>1, HeardLater
<1>8. CASE type = "deleted"
  <2>1. remove_from_disk(p)
    BY <1>8, <1>5 DEF did_change_watched_files
  <2>2. /\ DOMAIN docs' = DOMAIN docs /\ DOMAIN indexed' = DOMAIN indexed \ {p} /\ Others(p)
    BY <1>1, <2>1, Removes, Zenon
  <2>3. \A q \in DOMAIN indexed' : Informed(q)'
    BY <1>6, <2>2 DEF Others
  <2> QED BY <2>2, <2>3 DEF DiskInv
<1>9. CASE type = "created"
  <2>1. register_new_file(p)
    BY <1>9, <1>5 DEF did_change_watched_files
  <2>2. CASE p \notin DOMAIN docs \cup DOMAIN indexed /\ p \in Project \cap DOMAIN disk
    <3>1. resync(register_indexed(Now, {p}))
      BY <2>1, <2>2, Zenon DEF register_new_file
    <3>2. {p} \in SUBSET DOMAIN disk /\ {p} \cap (DOMAIN docs \cup DOMAIN indexed) = {}
      BY <2>2
    <3>3. /\ DOMAIN docs' = DOMAIN docs /\ DOMAIN indexed' = DOMAIN indexed \cup {p}
          /\ \A q \in DOMAIN indexed : inputs'[indexed'[q].input] = inputs[indexed[q].input]
          /\ \A q \in {p} : inputs'[indexed'[q].input].text = disk[q]
      BY <1>1, <3>1, <3>2, Registers, Zenon
    <3>4. Informed(p)'
      BY <1>2, <2>2, <3>3 DEF Informed
    <3>5. \A q \in DOMAIN indexed' : q # p => Informed(q)'
      BY <1>6, <3>3
    <3> QED BY <3>3, <3>4, <3>5 DEF DiskInv
  <2>3. CASE ~ (p \notin DOMAIN docs \cup DOMAIN indexed /\ p \in Project \cap DOMAIN disk)
    <3>1. UNCHANGED server
      BY <2>1, <2>3, Zenon DEF register_new_file, Nothing
    <3>2. inputs' = inputs /\ docs' = docs /\ indexed' = indexed
      BY <3>1 DEF server
    <3>3. ASSUME p \in DOMAIN indexed PROVE Informed(p)'
      <4>1. Informed(p)
        BY <3>3 DEF DiskInv
      <4>2. "changed" # type /\ "deleted" # type
        BY <1>9
      <4>3. /\ Heard("changed", p) => Heard("changed", p)'
            /\ Heard("deleted", p) => Heard("deleted", p)'
        BY <1>7, <4>2, Zenon
      <4> QED BY <1>2, <3>2, <4>1, <4>3, StaysInformed
    <3>4. \A q \in DOMAIN indexed' : q # p => Informed(q)'
      BY <1>6, <3>2
    <3> QED BY <3>2, <3>3, <3>4 DEF DiskInv
  <2> QED BY <2>2, <2>3
<1>10. CASE type = "changed"
  <2>1. reload_from_disk(p)
    BY <1>10, <1>5 DEF did_change_watched_files
  <2>2. /\ DOMAIN docs' = DOMAIN docs /\ DOMAIN indexed' = DOMAIN indexed /\ Others(p)
        /\ p \in (DOMAIN indexed \cap DOMAIN disk) \ DOMAIN docs =>
             inputs'[indexed'[p].input].text = disk[p]
    BY <1>1, <2>1, Rereads, Zenon
  <2>3. ASSUME p \in DOMAIN indexed PROVE Informed(p)'
    <3>1. CASE p \in DOMAIN disk
      BY <1>2, <2>2, <2>3, <3>1 DEF Informed
    <3>2. CASE p \notin DOMAIN disk
      <4>1. Heard("deleted", p)
        BY <1>2, <2>3, <3>2 DEF DiskInv, Informed
      <4>2. Heard("deleted", p)'
        BY <1>7, <1>10, <4>1
      <4> QED BY <4>2 DEF Informed
    <3> QED BY <3>1, <3>2
  <2>4. \A q \in DOMAIN indexed' : q # p => Informed(q)'
    BY <1>6, <2>2 DEF Others
  <2> QED BY <2>2, <2>3, <2>4 DEF DiskInv
<1> QED BY <1>8, <1>9, <1>10

(* What the editor does leaves what was heard, and the disk, as they are.   *)
LEMMA EditorInforms ==
  ASSUME DiskInv, NEW p, Others(p), disk' = disk, watched' = watched, moving' = moving,
         DOMAIN indexed' = DOMAIN indexed,
         \A q \in DOMAIN docs : q # p => q \in DOMAIN docs',
         p \in DOMAIN indexed => Informed(p)'
  PROVE  DOMAIN indexed' \subseteq Project /\ \A q \in DOMAIN indexed' : Informed(q)'
<1>1. ASSUME NEW q \in DOMAIN indexed', q # p PROVE Informed(q)'
  <2>1. Informed(q) /\ inputs'[indexed'[q].input].text = inputs[indexed[q].input].text
    BY <1>1 DEF DiskInv, Others
  <2>2. \A t : Heard(t, q) => Heard(t, q)'
    BY DEF Heard
  <2> QED BY <1>1, <2>1, <2>2, StaysInformed
<1> QED BY <1>1 DEF DiskInv

(* The watcher tells of what happens in the project.                        *)
LEMMA Says ==
  ASSUME NEW type, NEW p \in Project
  PROVE  \E n \in DOMAIN Seen(type, p) : Seen(type, p)[n] = [type |-> type, path |-> p]
<1> DEFINE e == [type |-> type, path |-> p]
<1>1. Seen(type, p) = <<e>>
  BY Zenon DEF Seen
<1> HIDE DEF e
<1>2. 1 \in DOMAIN <<e>> /\ <<e>>[1] = e
  OBVIOUS
<1>3. e = [type |-> type, path |-> p]
  BY DEF e
<1> QED BY <1>1, <1>2, <1>3, Zenon

(* A write is told of, unless the file was deleted and that is to be told.  *)
LEMMA WritesInform ==
  ASSUME DiskInv, OrderInv, Orderly, NEW p \in Paths, NEW text \in Texts, write(p, text)
  PROVE  DOMAIN indexed' \subseteq Project /\ \A q \in DOMAIN indexed' : Informed(q)'
<1> DEFINE type == IF p \in DOMAIN disk THEN "changed" ELSE "created"
<1>1. /\ disk' = Put(disk, p, text) /\ Tell(Seen(type, p)) /\ moving' = moving /\ UNCHANGED server
      /\ moving = {}
  BY DEF write, Tell, Settled
<1>2. inputs' = inputs /\ docs' = docs /\ indexed' = indexed
  BY <1>1 DEF server
<1>3. Seen(type, p) \in Seq(Events)
  BY SeenAreEvents
<1>4. TypeInv
  BY DEF OrderInv
<1>5. /\ \A t, q : Heard(t, q) => Heard(t, q)'
      /\ \A t, q : (\E n \in DOMAIN Seen(type, p) : Seen(type, p)[n] = [type |-> t, path |-> q])
                     => Heard(t, q)'
  BY <1>1, <1>3, <1>4, HeardMore
<1>6. \A q \in DOMAIN disk : q \in DOMAIN disk' /\ (q # p => disk'[q] = disk[q])
  BY <1>1 DEF Put, Over, Only
<1>7. p \in DOMAIN disk'
  BY <1>1 DEF Put, Over, Only
<1>8. ASSUME NEW q \in DOMAIN indexed' PROVE Informed(q)'
  <2>1. Informed(q) /\ q \in Project
    BY <1>2, <1>8 DEF DiskInv
  <2>2. CASE q # p
    BY <1>1, <1>2, <1>5, <1>6, <2>1, <2>2 DEF Informed
  <2>3. CASE q = p /\ p \in DOMAIN disk
    <3>1. Heard("changed", p)'
      <4>1. type = "changed"
        BY <2>3
      <4>2. \E n \in DOMAIN Seen("changed", p) : Seen("changed", p)[n] = [type |-> "changed", path |-> p]
        BY <2>1, <2>3, Says
      <4> QED BY <1>5, <4>1, <4>2, Zenon
    <3> QED BY <1>7, <2>3, <3>1 DEF Informed
  <2>4. CASE q = p /\ p \notin DOMAIN disk
    <3>1. Heard("deleted", p)
      BY <1>1, <2>1, <2>4 DEF Informed
    <3> QED BY <1>5, <2>4, <3>1 DEF Informed
  <2> QED BY <2>2, <2>3, <2>4
<1> QED BY <1>2, <1>8 DEF DiskInv

(* A deletion is told of.                                                   *)
LEMMA DeletesInform ==
  ASSUME DiskInv, OrderInv, Orderly, NEW p \in Paths, delete(p)
  PROVE  DOMAIN indexed' \subseteq Project /\ \A q \in DOMAIN indexed' : Informed(q)'
<1>1. /\ disk' = Without(disk, p) /\ Tell(Seen("deleted", p)) /\ moving' = moving /\ UNCHANGED server
      /\ moving = {}
  BY DEF delete, Tell, Settled
<1>2. inputs' = inputs /\ docs' = docs /\ indexed' = indexed
  BY <1>1 DEF server
<1>3. Seen("deleted", p) \in Seq(Events)
  BY SeenAreEvents
<1>4. TypeInv
  BY DEF OrderInv
<1>5. /\ \A t, q : Heard(t, q) => Heard(t, q)'
      /\ \A t, q : (\E n \in DOMAIN Seen("deleted", p) :
                      Seen("deleted", p)[n] = [type |-> t, path |-> q]) => Heard(t, q)'
  BY <1>1, <1>3, <1>4, HeardMore
<1>6. \A q \in DOMAIN disk : q # p => q \in DOMAIN disk' /\ disk'[q] = disk[q]
  BY <1>1 DEF Without, Restrict
<1>7. ASSUME NEW q \in DOMAIN indexed' PROVE Informed(q)'
  <2>1. Informed(q) /\ q \in Project
    BY <1>2, <1>7 DEF DiskInv
  <2>2. CASE q # p
    BY <1>1, <1>2, <1>5, <1>6, <2>1, <2>2 DEF Informed
  <2>3. CASE q = p
    <3>1. \E n \in DOMAIN Seen("deleted", p) : Seen("deleted", p)[n] = [type |-> "deleted", path |-> p]
      BY <2>1, <2>3, Says
    <3>2. Heard("deleted", p)'
      BY <1>5, <3>1, Zenon
    <3> QED BY <2>3, <3>2 DEF Informed
  <2> QED BY <2>2, <2>3
<1> QED BY <1>2, <1>7 DEF DiskInv

(* Only a file that the server has heard all of is moved.                   *)
LEMMA MovesInform ==
  ASSUME DiskInv, OrderInv, Orderly, NEW m \in Moves, move(m[1], m[2])
  PROVE  DiskInv'
<1>1. /\ moving = {} /\ moving' = {<<m[1], m[2]>>} /\ UNCHANGED server
      /\ disk' = Renamed(disk, m[1], m[2]) /\ m[1] \in DOMAIN disk
      /\ Tell(Seen("deleted", m[1]) \o Seen("created", m[2]))
      /\ m[2] \notin DOMAIN indexed
      /\ \A n \in DOMAIN watched : watched[n].path \notin {m[1], m[2]}
  BY DEF move
<1>2. inputs' = inputs /\ docs' = docs /\ indexed' = indexed
  BY <1>1 DEF server
<1>3. m = <<m[1], m[2]>>
  BY WorkspaceAssumption
<1>4. TypeInv
  BY DEF OrderInv
<1>5. \A t, q : Heard(t, q) => Heard(t, q)'
  <2>1. Seen("deleted", m[1]) \in Seq(Events) /\ Seen("created", m[2]) \in Seq(Events)
    BY SeenAreEvents
  <2>2. Seen("deleted", m[1]) \o Seen("created", m[2]) \in Seq(Events)
    BY <2>1, ConcatProperties
  <2> QED BY <1>1, <1>4, <2>2, HeardMore
<1>6. /\ \A q \in DOMAIN disk \ {m[1], m[2]} : q \in DOMAIN disk' /\ disk'[q] = disk[q]
      /\ disk'[m[2]] = disk[m[1]]
  BY <1>1 DEF Renamed, Put, Over, Only, Without, Restrict
<1>7. ASSUME NEW q \in DOMAIN indexed' PROVE Informed(q)'
  <2>1. Informed(q)
    BY <1>2, <1>7 DEF DiskInv
  <2>2. CASE q = m[1]
    BY <1>1, <1>3, <2>2 DEF Informed
  <2>3. CASE q # m[1]
    <3>1. q # m[2]
      BY <1>1, <1>2, <1>7
    <3> QED BY <1>1, <1>2, <1>5, <1>6, <2>1, <2>3, <3>1 DEF Informed
  <2> QED BY <2>2, <2>3
<1>8. ASSUME m[1] \in DOMAIN indexed \ DOMAIN docs
      PROVE  inputs[indexed[m[1]].input].text = disk[m[1]]
  <2>1. Informed(m[1])
    BY <1>8 DEF DiskInv
  <2>2. \A t : ~ Heard(t, m[1])
    BY <1>1 DEF Heard
  <2> QED BY <1>1, <1>8, <2>1, <2>2 DEF Informed
<1>9. \A k \in moving' :
        k[1] \in DOMAIN indexed' \ DOMAIN docs' => inputs'[indexed'[k[1]].input].text = disk'[k[2]]
  BY <1>1, <1>2, <1>3, <1>6, <1>8
<1>10. DOMAIN indexed' \subseteq Project
  BY <1>2 DEF DiskInv
<1> QED BY <1>7, <1>9, <1>10, Zenon DEF DiskInv

(* A file that moved is known by its new path as it was by its old one.     *)
LEMMA RenamesInform ==
  ASSUME DiskInv, OrderInv, NEW m \in Moves, m[2] \in Project, did_rename_files(m[1], m[2])
  PROVE  DOMAIN indexed' \subseteq Project /\ \A q \in DOMAIN indexed' : Informed(q)'
<1> DEFINE old == m[1]
<1> DEFINE new == m[2]
<1>1. /\ rename_file(old, new) /\ <<old, new>> \in moving /\ disk' = disk /\ watched' = watched
  BY DEF did_rename_files
<1>2. new \in Paths /\ m = <<old, new>>
  BY WorkspaceAssumption
<1>3. m \in moving
  BY <1>1, <1>2, Zenon
<1>4. /\ moving = {m} /\ new \in DOMAIN disk /\ old \in DOMAIN files
      /\ new \notin DOMAIN docs \cup DOMAIN indexed \cup DOMAIN retained
  BY <1>3 DEF OrderInv, InMove
<1>5. Typed /\ IsMap(disk, Texts) /\ Ordered
  BY Zenon DEF OrderInv, TypeInv, Typed
<1> HIDE DEF old, new
<1>6. /\ docs' = Renamed(docs, old, new) /\ indexed' = Renamed(indexed, old, new)
      /\ \A q \in DOMAIN indexed' : inputs'[indexed'[q].input].text = inputs[indexed'[q].input].text
  BY <1>1, <1>2, <1>4, <1>5, Renames, Zenon
<1>7. /\ IsMap(docs, Entries(DOMAIN inputs)) /\ IsMap(indexed, Entries(DOMAIN inputs))
  BY <1>5, NowIs DEF Typed, IsWorld
<1>8. /\ old \in DOMAIN indexed => new \in DOMAIN indexed' /\ indexed'[new] = indexed[old]
      /\ \A q \in DOMAIN indexed' :
           \/ q = new /\ old \in DOMAIN indexed
           \/ q \in DOMAIN indexed /\ indexed'[q] = indexed[q] /\ q # old
  BY <1>2, <1>6, <1>7, Renamings
<1>9. /\ old \in DOMAIN docs => new \in DOMAIN docs'
      /\ \A q \in DOMAIN docs : q # old => q \in DOMAIN docs'
  <2>1. old \in DOMAIN docs => new \in DOMAIN docs'
    BY <1>2, <1>6, <1>7, Renamings
  <2>2. ASSUME NEW q \in DOMAIN docs, q # old PROVE q \in DOMAIN docs'
    BY <1>6, <2>2 DEF Renamed, Put, Over, Only, Without, Restrict
  <2> QED BY <2>1, <2>2
<1>10. ASSUME NEW q \in DOMAIN indexed' PROVE Informed(q)' /\ q \in Project
  <2>1. inputs'[indexed'[q].input].text = inputs[indexed'[q].input].text
    BY <1>6
  <2>2. CASE q = new /\ old \in DOMAIN indexed
    <3>1. CASE old \in DOMAIN docs
      BY <1>1, <1>4, <1>9, <2>2, <3>1 DEF Informed, new
    <3>2. CASE old \notin DOMAIN docs
      <4>1. inputs[indexed[old].input].text = disk[new]
        BY <1>3, <2>2, <3>2 DEF DiskInv, old, new
      <4>2. inputs'[indexed'[new].input].text = disk[new]
        BY <1>8, <2>1, <2>2, <4>1
      <4> QED BY <1>1, <1>4, <2>2, <4>2 DEF Informed, new
    <3> QED BY <3>1, <3>2
  <2>3. CASE q \in DOMAIN indexed /\ indexed'[q] = indexed[q] /\ q # old
    <3>1. Informed(q) /\ q \in Project
      BY <2>3 DEF DiskInv
    <3>2. ~ \E k \in moving : k[1] = q
      BY <1>4, <2>3 DEF old
    <3>3. inputs'[indexed'[q].input].text = inputs[indexed[q].input].text
      BY <2>1, <2>3
    <3>4. \A t : Heard(t, q) => Heard(t, q)'
      BY <1>1 DEF Heard
    <3>5. Informed(q)'
      BY <1>1, <1>9, <2>3, <3>1, <3>2, <3>3, <3>4 DEF Informed
    <3> QED BY <3>1, <3>5
  <2> QED BY <1>8, <2>2, <2>3
<1> QED BY <1>10

(* The files found at the start are analysed as they are on disk.           *)
LEMMA IndexInforms ==
  ASSUME DiskInv, OrderInv, index_project_at
  PROVE  DOMAIN indexed' \subseteq Project /\ \A q \in DOMAIN indexed' : Informed(q)'
<1> DEFINE S == (Sources \cap DOMAIN disk) \ (DOMAIN indexed \cup DOMAIN docs)
<1>1. /\ resync(register_indexed(Now, S))
      /\ disk' = disk /\ watched' = watched /\ moving' = moving
  BY Zenon DEF index_project_at
<1>2. S \in SUBSET DOMAIN disk /\ S \cap (DOMAIN docs \cup DOMAIN indexed) = {} /\ S \subseteq Project
  BY WorkspaceAssumption
<1> HIDE DEF S
<1>3. Typed /\ IsMap(disk, Texts) /\ Ordered
  BY Zenon DEF OrderInv, TypeInv, Typed
<1>4. /\ DOMAIN docs' = DOMAIN docs /\ DOMAIN indexed' = DOMAIN indexed \cup S
      /\ \A q \in DOMAIN indexed : inputs'[indexed'[q].input] = inputs[indexed[q].input]
      /\ \A q \in S : inputs'[indexed'[q].input].text = disk[q]
  BY <1>1, <1>2, <1>3, Registers, Zenon
<1>5. ASSUME NEW q \in S PROVE Informed(q)'
  BY <1>1, <1>2, <1>4 DEF Informed
<1>6. ASSUME NEW q \in DOMAIN indexed PROVE Informed(q)'
  <2>1. Informed(q) /\ inputs'[indexed'[q].input].text = inputs[indexed[q].input].text
    BY <1>4 DEF DiskInv
  <2>2. \A t : Heard(t, q) => Heard(t, q)'
    BY <1>1 DEF Heard
  <2>3. q \in DOMAIN docs => q \in DOMAIN docs'
    BY <1>4
  <2> QED BY <1>1, <2>1, <2>2, <2>3, StaysInformed
<1> QED BY <1>2, <1>4, <1>5, <1>6 DEF DiskInv

LEMMA NextInforms ==
  ASSUME DiskInv, OrderInv, Orderly, \A m \in Moves : m[2] \in Project, Next
  PROVE  DiskInv'
<1>1. Typed /\ IsMap(disk, Texts) /\ Ordered
  BY Zenon DEF OrderInv, TypeInv, Typed
<1>2. ASSUME NEW m \in Moves, move(m[1], m[2]) PROVE DiskInv'
  BY <1>2, MovesInform, Zenon
<1>3. ASSUME ~ \E m \in Moves : move(m[1], m[2])
      PROVE  DOMAIN indexed' \subseteq Project /\ \A q \in DOMAIN indexed' : Informed(q)'
  <2>1. CASE index_project_at
    BY <2>1, IndexInforms, Zenon
  <2>2. CASE did_change_watched_files
    BY <2>2, HearsOne, Zenon
  <2>3. ASSUME NEW p \in Paths, did_close(p)
        PROVE  DOMAIN indexed' \subseteq Project /\ \A q \in DOMAIN indexed' : Informed(q)'
    <3>1. /\ resync(reload_indexed_from_disk([Now EXCEPT !.docs = Without(@, p)], p))
          /\ disk' = disk /\ watched' = watched /\ moving' = moving /\ moving = {}
      BY <2>3 DEF did_close, Settled
    <3>2. /\ DOMAIN docs' = DOMAIN docs \ {p} /\ DOMAIN indexed' = DOMAIN indexed /\ Others(p)
          /\ p \in DOMAIN indexed \cap DOMAIN disk => inputs'[indexed'[p].input].text = disk[p]
      BY <1>1, <3>1, Closes, Zenon
    <3>3. ASSUME p \in DOMAIN indexed PROVE Informed(p)'
      <4>1. CASE p \in DOMAIN disk
        BY <3>1, <3>2, <3>3, <4>1 DEF Informed
      <4>2. CASE p \notin DOMAIN disk
        <5>1. Heard("deleted", p)
          BY <3>1, <3>3, <4>2 DEF DiskInv, Informed
        <5> QED BY <3>1, <5>1 DEF Informed, Heard
      <4> QED BY <4>1, <4>2
    <3>4. \A q \in DOMAIN docs : q # p => q \in DOMAIN docs'
      BY <3>2
    <3> QED BY <3>1, <3>2, <3>3, <3>4, EditorInforms
  <2>4. ASSUME NEW p \in Paths, delete(p)
        PROVE  DOMAIN indexed' \subseteq Project /\ \A q \in DOMAIN indexed' : Informed(q)'
    BY <2>4, DeletesInform, Zenon
  <2>5. ASSUME NEW p \in Paths, NEW text \in Texts, did_open(p, text)
        PROVE  DOMAIN indexed' \subseteq Project /\ \A q \in DOMAIN indexed' : Informed(q)'
    <3>1. /\ open(p, text) /\ p \in DOMAIN disk
          /\ disk' = disk /\ watched' = watched /\ moving' = moving
      BY <2>5 DEF did_open
    <3>2. DOMAIN docs' = DOMAIN docs \cup {p} /\ DOMAIN indexed' = DOMAIN indexed /\ Others(p)
      BY <1>1, <3>1, Opens, Zenon
    <3>3. Informed(p)'
      BY <3>1, <3>2 DEF Informed
    <3>4. \A q \in DOMAIN docs : q # p => q \in DOMAIN docs'
      BY <3>2
    <3> QED BY <3>1, <3>2, <3>3, <3>4, EditorInforms
  <2>6. ASSUME NEW p \in Paths, NEW text \in Texts, did_change(p, text)
        PROVE  DOMAIN indexed' \subseteq Project /\ \A q \in DOMAIN indexed' : Informed(q)'
    <3>1. disk' = disk /\ watched' = watched /\ moving' = moving /\ moving = {}
      BY <2>6 DEF did_change, client, Settled
    <3>2. DOMAIN docs' = DOMAIN docs /\ DOMAIN indexed' = DOMAIN indexed /\ Others(p)
      <4>1. CASE p \in DOMAIN docs
        <5>1. update(p, text)
          BY <2>6, <4>1, Zenon DEF did_change
        <5> QED BY <1>1, <4>1, <5>1, Updates, Zenon
      <4>2. CASE p \notin DOMAIN docs
        <5>1. UNCHANGED server
          BY <2>6, <4>2, Zenon DEF did_change, Nothing
        <5> QED BY <5>1, ServerStays, Zenon
      <4> QED BY <4>1, <4>2
    <3>3. ASSUME p \in DOMAIN indexed PROVE Informed(p)'
      <4>1. CASE p \in DOMAIN disk /\ p \in DOMAIN docs
        BY <3>1, <3>2, <4>1 DEF Informed
      <4>2. CASE p \notin DOMAIN disk
        <5>1. Heard("deleted", p)
          BY <3>1, <3>3, <4>2 DEF DiskInv, Informed
        <5> QED BY <3>1, <5>1 DEF Informed, Heard
      <4>3. CASE p \notin DOMAIN docs
        <5>1. UNCHANGED server
          BY <2>6, <4>3, Zenon DEF did_change, Nothing
        <5>2. inputs' = inputs /\ indexed' = indexed
          BY <5>1 DEF server
        <5>3. Informed(p)
          BY <3>3 DEF DiskInv
        <5> QED BY <3>1, <4>3, <5>2, <5>3 DEF Informed, Heard
      <4> QED BY <4>1, <4>2, <4>3
    <3>4. \A q \in DOMAIN docs : q # p => q \in DOMAIN docs'
      BY <3>2
    <3> QED BY <3>1, <3>2, <3>3, <3>4, EditorInforms
  <2>7. ASSUME NEW p \in Paths, NEW text \in Texts, write(p, text)
        PROVE  DOMAIN indexed' \subseteq Project /\ \A q \in DOMAIN indexed' : Informed(q)'
    BY <2>7, WritesInform, Zenon
  <2>8. ASSUME NEW m \in Moves, did_rename_files(m[1], m[2])
        PROVE  DOMAIN indexed' \subseteq Project /\ \A q \in DOMAIN indexed' : Informed(q)'
    BY <2>8, RenamesInform, Zenon
  <2> QED BY <1>3, <2>1, <2>2, <2>3, <2>4, <2>5, <2>6, <2>7, <2>8, Zenon DEF Next
<1>4. ASSUME ~ \E m \in Moves : move(m[1], m[2]) PROVE DiskInv'
  <2>1. moving' = {}
    BY <1>4, NextInMove
  <2> QED BY <1>3, <1>4, <2>1 DEF DiskInv
<1> QED BY <1>2, <1>4

(* While files move in order and inside the project, a file of the project  *)
(* that is not open is analysed as it is on disk, once the server has heard *)
(* of everything that happened there.                                       *)
THEOREM ClosedFilesAreTheDisk ==
  ASSUME Orderly, \A m \in Moves : m[2] \in Project
  PROVE  Spec => []ClosedTextIsDisk
<1>1. Init => DiskInv
  <2> SUFFICES ASSUME Init PROVE DiskInv
    OBVIOUS
  <2>1. DOMAIN indexed = {} /\ moving = {}
    BY EmptyMap DEF Init
  <2> QED BY <2>1 DEF DiskInv
<1>2. DiskInv /\ OrderInv /\ [Next]_vars => DiskInv'
  <2>1. ASSUME DiskInv, UNCHANGED vars PROVE DiskInv'
    <3>1. /\ disk' = disk /\ watched' = watched /\ moving' = moving /\ inputs' = inputs
          /\ docs' = docs /\ indexed' = indexed
      BY <2>1 DEF vars, client, server
    <3> QED BY <2>1, <3>1 DEF DiskInv, Informed, Heard
  <2> QED BY <2>1, NextInforms
<1>3. DiskInv => ClosedTextIsDisk
  <2> SUFFICES ASSUME DiskInv, watched = <<>>, moving = {}, NEW p \in DOMAIN indexed \ DOMAIN docs
               PROVE  p \in DOMAIN disk /\ inputs[indexed[p].input].text = disk[p]
    BY DEF ClosedTextIsDisk
  <2>1. \A t : ~ Heard(t, p)
    BY DEF Heard
  <2> QED BY <2>1 DEF DiskInv, Informed
<1> QED BY <1>1, <1>2, <1>3, OrderInvariance, PTL DEF Spec
=============================================================================
