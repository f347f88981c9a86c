----------------------------- MODULE Workspace ------------------------------
(***************************************************************************)
(* The files of the language server: open buffers, the indexed project,    *)
(* the inputs it keeps for everything else, and the disk underneath.       *)
(*                                                                         *)
(* A file is one salsa input as long as possible, since every memo hangs   *)
(* off it: a buffer takes over the input of the index, a closed buffer     *)
(* leaves its own behind, an include that escapes the project is given one *)
(* by the walk that reaches it.  Handlers run one at a time, under the     *)
(* lock, in the order the client sent them; what the disk does is told     *)
(* later, by the watcher, and a move by the editor first.                  *)
(*                                                                         *)
(* A URI is its canonical path.  Untitled buffers, language settings,      *)
(* source ids, line tables and document versions are left out.             *)
(***************************************************************************)
EXTENDS Integers, Sequences, FiniteSets, Functions

CONSTANTS
  Paths,          (* canonical paths of files                               *)
  Project,        (* those the indexed root owns                            *)
  Sources,        (* those in its source tree, which it lists at the start  *)
  Texts,          (* what a file may hold                                   *)
  Includes,       (* the paths each text includes                           *)
  FirstDisks,     (* what the disk may be when the server starts            *)
  Moves,          (* the files the user may move, and where                 *)
  Orderly,        (* only an analysed file moves, to where none was kept,   *)
                  (* all saved and heard of, and it is heard of at once     *)
  MaxChanges      (* bound on the changes of the disk                       *)

ASSUME WorkspaceAssumption ==
  /\ IsFiniteSet(Paths) /\ Project \subseteq Paths /\ Sources \subseteq Project
  /\ Includes \in [Texts -> SUBSET Paths]
  /\ Moves \subseteq Paths \X Paths /\ Orderly \in BOOLEAN /\ MaxChanges \in Nat
  /\ \A first \in FirstDisks : \E D \in SUBSET Paths : first \in [D -> Texts]

VARIABLES
  disk,        (* the text of each file there is                            *)
  watched,     (* what the watcher has seen and the server has not heard    *)
  moving,      (* the moves the server has not heard of                     *)
  tabs,        (* the files the client has open                             *)
  ready,       (* initialized: the project is indexed                       *)
  inputs,      (* the salsa inputs held: the path and the text of each      *)
  docs,        (* the open buffers: the input and the text of each          *)
  indexed,     (* the project's files, open or not: likewise                *)
  retained,    (* files the walk reached and buffers that were closed       *)
  files,       (* WorkspaceFiles: the input each path resolves to           *)
  changes      (* how often the disk has changed                            *)

client == <<watched, moving, tabs, ready>>
server == <<inputs, docs, indexed, retained, files>>
vars == <<disk, client, server, changes>>

Init ==
  /\ disk \in FirstDisks /\ watched = <<>> /\ moving = {} /\ tabs = {} /\ ready = FALSE
  /\ inputs = <<>> /\ docs = <<>> /\ indexed = <<>> /\ retained = <<>> /\ files = <<>>
  /\ changes = 0
-----------------------------------------------------------------------------
(***************************************************************************)
(* The maps, as the partial functions they are.                            *)
(***************************************************************************)
Over(new, f) ==
  [x \in DOMAIN new \cup DOMAIN f |-> IF x \in DOMAIN new THEN new[x] ELSE f[x]]
Only(x, v) == [y \in {x} |-> v]
Put(f, x, v) == Over(Only(x, v), f)
Without(f, x) == Restrict(f, DOMAIN f \ {x})
Renamed(f, old, new) == IF old \in DOMAIN f THEN Put(Without(f, old), new, f[old]) ELSE f

Entry(i, text) == [input |-> i, text |-> text]
Held(f) == { f[p].input : p \in DOMAIN f }

Now == [inputs |-> inputs, docs |-> docs, indexed |-> indexed, retained |-> retained]

(* Inputs for files that have none, each its own.                           *)
Unused(w) == (1 .. Cardinality(DOMAIN w.inputs) + Cardinality(Paths)) \ DOMAIN w.inputs
Minted(w, S) == CHOOSE f \in [S -> Unused(w)] : IsInjective(f)

(* Each of some files gives its text to its input, which may be a new one.  *)
set_texts(w, own, text) ==
  LET FileOf(i) == CHOOSE p \in DOMAIN own : own[p] = i
  IN Over([i \in Range(own) |->
             [path |-> IF i \in DOMAIN w.inputs THEN w.inputs[i].path ELSE FileOf(i),
              text |-> text[FileOf(i)]]],
          w.inputs)

BadHeldInput(p) == IF p \in DOMAIN indexed THEN {indexed[p].input} ELSE {}

(* The index's input, else the one kept from a buffer or a walk.            *)
held_input(p) ==
  IF p \in DOMAIN indexed THEN {indexed[p].input}
  ELSE IF p \in DOMAIN retained THEN {retained[p].input} ELSE {}

(* The inputs kept for some files, and new ones for the others.             *)
InputsFor(w, S) ==
  Over(Minted(w, S \ DOMAIN w.retained),
       [p \in S \cap DOMAIN w.retained |-> w.retained[p].input])

(* What is analysed: open buffers, and the indexed files that are not open. *)
Unopened(w) ==
  { w.indexed[p].input : p \in { q \in DOMAIN w.indexed :
                                   q \notin DOMAIN w.docs /\ w.indexed[q].input \notin Held(w.docs) } }
Targets(w) == Held(w.docs) \cup Unopened(w)

(* The text an include walk finds behind a path nothing else resolves: it   *)
(* compares the disk with the entry, and leaves the input alone when they   *)
(* are the same.                                                            *)
Refreshed(w, p) == p \notin DOMAIN w.retained \/ w.retained[p].text # disk[p]
WalkText(w, p) == IF Refreshed(w, p) THEN disk[p] ELSE w.inputs[w.retained[p].input].text

(* Everything the includes of some files lead to, and then theirs.          *)
Walked(w, known) ==
  LET Text(p) == IF p \in DOMAIN known THEN w.inputs[known[p]].text ELSE WalkText(w, p)
      Closed(R) == \A q \in R : Includes[Text(q)] \cap DOMAIN disk \subseteq R
  IN { p \in DOMAIN disk \ DOMAIN known :
         \A R \in SUBSET (DOMAIN disk \cup DOMAIN known) :
           DOMAIN known \subseteq R /\ Closed(R) => p \in R }

BadRetainWalked(w, found) == w.retained

(* The walk's files keep their inputs for the walks to come.                *)
retain_walked(w, found) == Over([p \in DOMAIN found |-> Entry(found[p], disk[p])], w.retained)

(* What each path of the files to analyse may resolve to: an input that     *)
(* carries it, an indexed file's before a buffer's when both do.            *)
Resolutions(w) ==
  LET PathOf(i) == w.inputs[i].path
  IN { f \in [{ PathOf(i) : i \in Targets(w) } -> Targets(w)] :
         \A p \in DOMAIN f :
           /\ PathOf(f[p]) = p
           /\ (\E i \in Unopened(w) : PathOf(i) = p) => f[p] \in Unopened(w) }

(* Everything derived from the files is rebuilt, the walk's files get an    *)
(* input or have theirs refreshed; inputs nothing holds are forgotten.      *)
resync(w) ==
  \E known \in Resolutions(w) :
    LET walked == Walked(w, known)
        found == InputsFor(w, walked)
        now == set_texts(w, found, [p \in walked |-> WalkText(w, p)])
    IN /\ docs' = w.docs /\ indexed' = w.indexed
       /\ retained' = retain_walked(w, found)
       /\ files' = Over(found, known)
       /\ inputs' = Restrict(now, Held(docs') \cup Held(indexed') \cup Held(retained'))

Nothing == UNCHANGED server
-----------------------------------------------------------------------------
(***************************************************************************)
(* What the editor tells of its buffers.                                   *)
(***************************************************************************)
Settled == Orderly => moving = {}

Retexted(f, p, text) == IF p \in DOMAIN f THEN [f EXCEPT ![p].text = text] ELSE f

open(p, text) ==
  LET mints == held_input(p) = {}
      i == IF mints THEN Minted(Now, {p})[p] ELSE CHOOSE j \in held_input(p) : TRUE
  IN resync([inputs |-> set_texts(Now, Only(p, i), Only(p, text)),
             docs |-> Put(docs, p, Entry(i, text)),
             indexed |-> Retexted(indexed, p, text),
             retained |-> IF mints THEN Put(retained, p, Entry(i, text))
                                   ELSE Retexted(retained, p, text)])

did_open(p, text) ==
  /\ ready /\ p \in DOMAIN disk \ tabs /\ Settled
  /\ tabs' = tabs \cup {p} /\ open(p, text)
  /\ UNCHANGED <<disk, watched, moving, ready, changes>>

BadUpdate(p, text) ==
  resync([Now EXCEPT !.inputs = IF p \in DOMAIN indexed THEN @
                                ELSE set_texts(Now, Only(p, docs[p].input), Only(p, text)),
                     !.docs = Retexted(@, p, text),
                     !.indexed = Retexted(@, p, text)])

(* The entry kept for a file that is not indexed is left as it is.          *)
update(p, text) ==
  resync([Now EXCEPT !.inputs = set_texts(Now, Only(p, docs[p].input), Only(p, text)),
                     !.docs = Retexted(@, p, text),
                     !.indexed = Retexted(@, p, text)])

(* A buffer that moved on the server's side alone is not found.             *)
did_change(p, text) ==
  /\ p \in tabs /\ Settled
  /\ IF p \in DOMAIN docs THEN update(p, text) ELSE Nothing
  /\ UNCHANGED <<disk, client, changes>>

BadReloadIndexed(w, p) == w

(* An indexed file goes back to the text it has on disk.                    *)
reload_indexed_from_disk(w, p) ==
  IF p \in DOMAIN w.indexed \cap DOMAIN disk
  THEN [w EXCEPT !.inputs = set_texts(w, Only(p, w.indexed[p].input), disk),
                 !.indexed = Retexted(@, p, disk[p])]
  ELSE w

did_close(p) ==
  /\ p \in tabs /\ tabs' = tabs \ {p} /\ Settled
  /\ resync(reload_indexed_from_disk([Now EXCEPT !.docs = Without(@, p)], p))
  /\ UNCHANGED <<disk, watched, moving, ready, changes>>
-----------------------------------------------------------------------------
(***************************************************************************)
(* What the disk does, and what the server hears of it.                    *)
(***************************************************************************)
BadRegisterIndexed(w, S) ==
  LET own == Minted(w, S)
  IN [w EXCEPT !.inputs = set_texts(w, own, disk),
               !.indexed = Over([p \in S |-> Entry(own[p], disk[p])], @)]

(* Files take over the inputs kept for them.                                *)
register_indexed(w, S) ==
  LET own == InputsFor(w, S)
  IN [w EXCEPT !.inputs = set_texts(w, own, disk),
               !.indexed = Over([p \in S |-> Entry(own[p], disk[p])], @),
               !.retained = Restrict(@, DOMAIN @ \ S)]

(* Every file of the source tree, when the server starts.                   *)
index_project_at ==
  /\ ~ready /\ ready' = TRUE
  /\ resync(register_indexed(Now, (Sources \cap DOMAIN disk) \ (DOMAIN indexed \cup DOMAIN docs)))
  /\ UNCHANGED <<disk, watched, moving, tabs, changes>>

Seen(type, p) == IF p \in Project THEN <<[type |-> type, path |-> p]>> ELSE <<>>
Tell(events) ==
  /\ Settled /\ changes < MaxChanges /\ changes' = changes + 1
  /\ watched' = watched \o events

(* By a save or behind the editor's back.                                   *)
write(p, text) ==
  /\ ready /\ (p \in DOMAIN disk => disk[p] # text)
  /\ disk' = Put(disk, p, text)
  /\ Tell(Seen(IF p \in DOMAIN disk THEN "changed" ELSE "created", p))
  /\ UNCHANGED <<moving, tabs, ready, server>>

delete(p) ==
  /\ ready /\ p \in DOMAIN disk
  /\ disk' = Without(disk, p)
  /\ Tell(Seen("deleted", p))
  /\ UNCHANGED <<moving, tabs, ready, server>>

move(old, new) ==
  /\ ready /\ old \in DOMAIN disk /\ new \notin DOMAIN disk \cup tabs /\ moving = {}
  /\ Orderly => /\ old \in DOMAIN files
                /\ new \notin DOMAIN retained \cup DOMAIN docs \cup DOMAIN indexed
                /\ \A n \in DOMAIN watched : watched[n].path \notin {old, new}
                /\ old \in DOMAIN docs => docs[old].text = disk[old]
  /\ disk' = Renamed(disk, old, new)
  /\ Tell(Seen("deleted", old) \o Seen("created", new))
  /\ moving' = {<<old, new>>}
  /\ UNCHANGED <<tabs, ready, server>>

(* An open buffer wins.                                                     *)
reload_from_disk(p) ==
  IF p \notin DOMAIN docs /\ p \in DOMAIN indexed \cap DOMAIN disk
  THEN resync(reload_indexed_from_disk(Now, p)) ELSE Nothing

register_new_file(p) ==
  IF p \notin DOMAIN docs \cup DOMAIN indexed /\ p \in Project \cap DOMAIN disk
  THEN resync(register_indexed(Now, {p})) ELSE Nothing

remove_from_disk(p) == resync([Now EXCEPT !.indexed = Without(@, p)])

(* The watcher lags behind the editor, which tells of its own moves.        *)
did_change_watched_files ==
  /\ watched # <<>> /\ moving = {} /\ watched' = Tail(watched)
  /\ LET p == Head(watched).path
     IN CASE Head(watched).type = "deleted" -> remove_from_disk(p)
          [] Head(watched).type = "created" -> register_new_file(p)
          [] Head(watched).type = "changed" -> reload_from_disk(p)
  /\ UNCHANGED <<disk, moving, tabs, ready, changes>>

(* Buffer, entries and input follow the file, when the input is one that    *)
(* the old path resolves to.                                                *)
rename_file(old, new) ==
  resync([docs |-> Renamed(docs, old, new), indexed |-> Renamed(indexed, old, new),
          retained |-> Renamed(retained, old, new),
          inputs |-> IF old \in DOMAIN files THEN [inputs EXCEPT ![files[old]].path = new]
                                             ELSE inputs])

did_rename_files(old, new) ==
  /\ <<old, new>> \in moving /\ moving' = {}
  /\ rename_file(old, new)
  /\ UNCHANGED <<disk, watched, tabs, ready, changes>>

Next ==
  \/ index_project_at \/ did_change_watched_files
  \/ \E p \in Paths : did_close(p) \/ delete(p)
  \/ \E p \in Paths, text \in Texts : did_open(p, text) \/ did_change(p, text) \/ write(p, text)
  \/ \E m \in Moves : move(m[1], m[2]) \/ did_rename_files(m[1], m[2])

Spec == Init /\ [][Next]_vars
-----------------------------------------------------------------------------
(***************************************************************************)
(* Properties.                                                             *)
(***************************************************************************)
TypeOK ==
  /\ DOMAIN disk \subseteq Paths /\ Range(disk) \subseteq Texts
  /\ tabs \subseteq Paths /\ moving \subseteq Moves /\ ready \in BOOLEAN
  /\ changes \in 0 .. MaxChanges
  /\ DOMAIN inputs \subseteq Nat /\ Range(inputs) \subseteq [path : Paths, text : Texts]
  /\ \A f \in {docs, indexed, retained} :
       DOMAIN f \subseteq Paths /\ Range(f) \subseteq [input : DOMAIN inputs, text : Texts]
  /\ DOMAIN files \subseteq Paths /\ Range(files) \subseteq DOMAIN inputs

(* Open buffers shadow everything: what is analysed for one is what the     *)
(* editor shows.                                                            *)
BufferTextWins ==
  \A p \in DOMAIN docs : inputs[docs[p].input].text = docs[p].text

(* An indexed file that is not open is analysed as it is on disk, once the  *)
(* server has heard of what happened there.                                 *)
ClosedTextIsDisk ==
  watched = <<>> /\ moving = {} =>
    \A p \in DOMAIN indexed \ DOMAIN docs :
      p \in DOMAIN disk /\ inputs[indexed[p].input].text = disk[p]

(* No input that is kept beside the buffers is lost, with every memo that   *)
(* hangs off it, by what is done to buffers: a file that is closed and      *)
(* opened again gets back the one it had, unless it was deleted while it    *)
(* was open, which leaves its input to the buffer alone.                    *)
IdentityKept ==
  [][UNCHANGED <<watched, moving>> =>
       Held(indexed) \cup Held(retained) \subseteq Held(indexed') \cup Held(retained')]_vars

(* A file is one input: whatever keeps one under a path keeps the only one  *)
(* that carries this path, through opens, walks, deletions and such moves   *)
(* as Orderly leaves.                                                       *)
OneInputPerFile ==
  /\ \A f \in {docs, indexed, retained} : \A p \in DOMAIN f : inputs[f[p].input].path = p
  /\ \A i, j \in DOMAIN inputs : inputs[i].path = inputs[j].path => i = j

(* "Refreshing its text if the file changed on disk underneath us": what an *)
(* include leads to outside the open and indexed files is analysed as it is *)
(* on disk when the server last looked.                                     *)
WalkedTextIsDisk ==
  [][server' # server =>
       \A p \in DOMAIN files' :
         files'[p] \notin Held(docs') \cup Held(indexed') =>
           p \in DOMAIN disk /\ inputs'[files'[p]].text = disk[p]]_vars
=============================================================================
