------------------------------- MODULE TreeReaders -------------------------------
(***************************************************************************)
(* The readers of the working tree: the check of the files a gate artifact *)
(* declares (runner/binding.py), the two checks of the wave files and the  *)
(* sets of wave numbers (runner/wave_names.py), and the syntax gate        *)
(* (runner/syntax_gate.py).  Each lists what it will read, reads one file  *)
(* at a time and reports at the end, while people go on editing the tree.  *)
(*                                                                         *)
(* A content is a record: `state` is "absent", "unreadable" (the read      *)
(* fails), "undecodable" (not UTF-8), "damaged" (does not parse),          *)
(* "breaking" (the parser stops with another exception than its own: a JSON*)
(* integer too long to convert, a date YAML cannot make, nesting too deep),*)
(* "odd" (parses to something that is not an object) or "object"; `waves`  *)
(* are                                                                     *)
(* the wave numbers it states (the index's list, or a wave file's wave_id),*)
(* `names` the numbers its qualified_id names for this repository, `ours`  *)
(* whether it declares this repository, and `jobs` a workflow's jobs, each *)
(* a sequence of steps, each the subcommands the step runs.  A digest is   *)
(* the content it was taken from.                                          *)
(***************************************************************************)
EXTENDS Naturals, Sequences, FiniteSets, SequencesExt

CONSTANTS
  Paths,         \* every path of the tree, in the order sorted() gives
  WavePaths,     \* those named wave<n>.yaml,
  Canonical,     \* and those of them without a leading zero
  Number,        \* the number each of them carries
  PythonPaths, JsonPaths, WorkflowPaths,
  ExcludedPaths, \* those under a generated directory
  IndexPath,     \* waves/index.json
  Trees,         \* the trees a reader may find: path -> content
  Writable,      \* the contents people write at each path
  Evidence,      \* the lists of declared files: [malformed, path, sha256]
  THEIR_WAVES,   \* the wave numbers recorded of the other repository
  MaxTreeEdits

AllPaths == Range(Paths)

(* _SUBCOMMAND (syntax_gate.py:64): one word, so neither of the findings    *)
(* that carry a number in place of a path.                                 *)
Subcommands == STRING \ {"no file", "not listed"}

FileContents ==
  [state: {"absent", "unreadable", "undecodable", "damaged", "breaking", "odd", "object"},
   waves: SUBSET Nat, names: SUBSET Nat, ours: BOOLEAN,
   jobs: SUBSET Seq(SUBSET Subcommands)]

ASSUME TreeAssumption ==
  /\ Paths \in Seq(AllPaths)
  /\ WavePaths \cup PythonPaths \cup JsonPaths \cup WorkflowPaths \cup ExcludedPaths \subseteq AllPaths
  /\ IndexPath \in JsonPaths
  /\ Number \in [WavePaths -> Nat] /\ THEIR_WAVES \subseteq Nat
  /\ Trees \subseteq [AllPaths -> FileContents]
  /\ \A p \in AllPaths : Writable[p] \subseteq FileContents /\ Writable[p] # {}
  /\ Evidence \subseteq Seq([malformed: BOOLEAN, path: AllPaths, sha256: FileContents])
  /\ MaxTreeEdits \in Nat

VARIABLES
  worktree,  \* path -> content
  touched,   \* the paths edited since the reader began
  reader,    \* the function that runs
  stage,     \* where it stands
  unread,    \* the paths it has listed and not read
  declared,  \* the evidence a binding check was given
  index,     \* what the index check has read of the index
  found,     \* the findings so far, as <<what, where>>
  placed,    \* the three sets of wave numbers, as far as they are computed
  treeEdits

tree_vars ==
  <<worktree, touched, reader, stage, unread, declared, index, found, placed, treeEdits>>

OnDisk(p) == worktree[p].state # "absent"
Opens(c) == c.state \notin {"absent", "unreadable"}

(* Reading text or parsing it stops the wave checks: they catch neither a  *)
(* byte that is not UTF-8, nor what breaks the parser, nor a document that *)
(* is not an object.                                                       *)
Raises(c) == c.state \in {"undecodable", "breaking", "odd"}

InOrder(ps) ==
  LET kept[n \in 0 .. Len(Paths)] ==
        IF n = 0 THEN <<>>
        ELSE IF Paths[n] \in ps THEN Append(kept[n - 1], Paths[n]) ELSE kept[n - 1]
  IN  kept[Len(Paths)]

NoIndex == [waves |-> {}, ours |-> FALSE]
NotPlaced == [ambiguous |-> {}, ours |-> {}, theirs |-> {}]

-----------------------------------------------------------------------------
(* People edit the tree at any moment.                                     *)
TreeEdit(p, c) ==
  /\ treeEdits < MaxTreeEdits
  /\ c # worktree[p]
  /\ worktree' = [worktree EXCEPT ![p] = c]
  /\ touched' = touched \cup {p}
  /\ treeEdits' = treeEdits + 1
  /\ UNCHANGED <<reader, stage, unread, declared, index, found, placed>>

(* A reader is called; nothing of an earlier call is kept.                 *)
Begin(who, at, ps, files) ==
  /\ stage \in {"idle", "returned", "raised"}
  /\ reader' = who
  /\ stage' = at
  /\ unread' = ps
  /\ declared' = files
  /\ touched' = {} /\ index' = NoIndex /\ found' = {} /\ placed' = NotPlaced
  /\ UNCHANGED <<worktree, treeEdits>>

Working(who, at) == reader = who /\ stage = at

(* The first listed path has been read.                                    *)
OneIsRead == unread' = Tail(unread)

-----------------------------------------------------------------------------
(* binding.verify_declared_files: an entry that cannot be used is kept as  *)
(* malformed, and the tree is not read for it.                             *)
verify_declared_files(files) == Begin("binding", "reading", files, files)

(* Mutant: an entry that cannot be parsed is skipped.                      *)
EntryFindings_Skip(e) ==
  IF ~e.malformed /\ ~Opens(worktree[e.path]) THEN {"missing"}
  ELSE IF ~e.malformed /\ worktree[e.path] # e.sha256 THEN {"changed"} ELSE {}

EntryFindings(e) ==
  CASE e.malformed -> {"malformed"}
    [] ~e.malformed /\ ~Opens(worktree[e.path]) -> {"missing"}
    [] ~e.malformed /\ Opens(worktree[e.path]) /\ worktree[e.path] # e.sha256 -> {"changed"}
    [] OTHER -> {}

DeclaredFileIsRead ==
  /\ Working("binding", "reading")
  /\ unread # <<>>
  /\ found' = found \cup {<<w, Head(unread).path>> : w \in EntryFindings(Head(unread))}
  /\ OneIsRead
  /\ UNCHANGED <<worktree, touched, reader, stage, declared, index, placed, treeEdits>>

Reported(what) == \E f \in found : f[1] = what

(* The status of the binding, from what was found.                         *)
BindingStatus ==
  IF declared = <<>> \/ Reported("malformed") \/ Reported("missing") THEN "UNKNOWN"
  ELSE IF Reported("changed") THEN "STALE" ELSE "CURRENT"

Return ==
  /\ stage = "reading" /\ unread = <<>>
  /\ reader \in {"binding", "artifacts", "workflows"}
  /\ stage' = "returned"
  /\ UNCHANGED <<worktree, touched, reader, unread, declared, index, found, placed, treeEdits>>

-----------------------------------------------------------------------------
(* wave_names.our_waves: the numbers of the files listed at this moment.   *)
our_waves == {Number[p] : p \in {q \in WavePaths : OnDisk(q)}}

(* wave_names.ambiguous_numbers and unambiguous_to of either repository,   *)
(* each listing the tree by itself.                                        *)
NumbersAreAsked == Begin("names", "ambiguous", <<>>, <<>>)

AmbiguousNumbers ==
  /\ Working("names", "ambiguous")
  /\ placed' = [placed EXCEPT !.ambiguous = our_waves \cap THEIR_WAVES]
  /\ stage' = "ours"
  /\ UNCHANGED <<worktree, touched, reader, unread, declared, index, found, treeEdits>>

UnambiguousToUs ==
  /\ Working("names", "ours")
  /\ placed' = [placed EXCEPT !.ours = our_waves \ THEIR_WAVES]
  /\ stage' = "theirs"
  /\ UNCHANGED <<worktree, touched, reader, unread, declared, index, found, treeEdits>>

UnambiguousToThem ==
  /\ Working("names", "theirs")
  /\ placed' = [placed EXCEPT !.theirs = THEIR_WAVES \ our_waves]
  /\ stage' = "returned"
  /\ UNCHANGED <<worktree, touched, reader, unread, declared, index, found, treeEdits>>

(* wave_names.index_disagreements: the index is read, then the wave files  *)
(* are listed.                                                             *)
index_disagreements == Begin("index", "reading", <<IndexPath>>, <<>>)

IndexIsRead ==
  LET c == worktree[IndexPath]
      unusable == ~Opens(c) \/ c.state = "damaged"
  IN /\ Working("index", "reading")
     /\ stage' = IF unusable THEN "returned" ELSE IF Raises(c) THEN "raised" ELSE "comparing"
     /\ found' = IF unusable THEN {<<"unreadable", IndexPath>>} ELSE {}
     /\ index' = IF c.state = "object" THEN [waves |-> c.waves, ours |-> c.ours] ELSE NoIndex
     /\ OneIsRead
     /\ UNCHANGED <<worktree, touched, reader, declared, placed, treeEdits>>

IndexIsCompared ==
  /\ Working("index", "comparing")
  /\ found' = ({"no file"} \X (index.waves \ our_waves))
                \cup ({"not listed"} \X (our_waves \ index.waves))
                \cup (IF index.ours THEN {} ELSE {<<"repository", IndexPath>>})
  /\ stage' = "returned"
  /\ UNCHANGED <<worktree, touched, reader, unread, declared, index, placed, treeEdits>>

(* wave_names.artifact_disagreements: the wave files are listed, then each *)
(* is read and held against the number in its own name.                    *)
artifact_disagreements ==
  Begin("artifacts", "reading", InOrder({p \in WavePaths : OnDisk(p)}), <<>>)

ArtifactFindings(c, n) ==
  IF c.state # "object" THEN {"unreadable"}
  ELSE {w \in {"repository", "qualified_id", "wave_id"} :
          \/ w = "repository" /\ ~c.ours
          \/ w = "qualified_id" /\ c.names # {n}
          \/ w = "wave_id" /\ c.waves # {n}}

WaveFileIsRead ==
  /\ Working("artifacts", "reading")
  /\ unread # <<>>
  /\ LET p == Head(unread)
         escapes == Opens(worktree[p]) /\ Raises(worktree[p])
     IN /\ found' = IF escapes THEN found
                    ELSE found \cup {<<w, p>> : w \in ArtifactFindings(worktree[p], Number[p])}
        /\ stage' = IF escapes THEN "raised" ELSE stage
  /\ OneIsRead
  /\ UNCHANGED <<worktree, touched, reader, declared, index, placed, treeEdits>>

-----------------------------------------------------------------------------
(* syntax_gate.run: the three checks one after the other, each listing its *)
(* files when it starts.                                                   *)
run_syntax_gate == Begin("python", "listing", <<>>, <<>>)

Owned(kind) ==
  {p \in CASE kind = "python" -> PythonPaths \ ExcludedPaths
           [] kind = "json" -> JsonPaths \ ExcludedPaths
           [] kind = "workflows" -> WorkflowPaths : OnDisk(p)}

FilesAreListed ==
  /\ stage = "listing"
  /\ unread' = InOrder(Owned(reader))
  /\ stage' = "reading"
  /\ UNCHANGED <<worktree, touched, reader, declared, index, found, placed, treeEdits>>

(* syntax_gate._duplicate_subcommands: a subcommand that two steps of one  *)
(* job run; the same subcommand twice in one step counts once.             *)
duplicate_subcommands(jobs) ==
  {s \in UNION {UNION Range(job) : job \in jobs} :
     \E job \in jobs : Cardinality({i \in DOMAIN job : s \in job[i]}) > 1}

SyntaxFindings(kind, c) ==
  IF ~Opens(c) \/ c.state = "undecodable" THEN {"unreadable"}
  ELSE IF c.state = "damaged" THEN {kind}
  ELSE IF kind = "workflows" THEN duplicate_subcommands(c.jobs) ELSE {}

(* The checks catch the parser's own error and no other: what breaks the   *)
(* parser ends the gate, and with it what was found.                       *)
SourceIsRead ==
  /\ reader \in {"python", "json", "workflows"} /\ stage = "reading"
  /\ unread # <<>>
  /\ LET c == worktree[Head(unread)]
         escapes == c.state = "breaking"
     IN /\ found' = IF escapes THEN found
                    ELSE found \cup {<<w, Head(unread)>> : w \in SyntaxFindings(reader, c)}
        /\ stage' = IF escapes THEN "raised" ELSE stage
  /\ OneIsRead
  /\ UNCHANGED <<worktree, touched, reader, declared, index, placed, treeEdits>>

(* A check that has read its files is followed by the next, whatever it    *)
(* found.                                                                  *)
NextCheck ==
  /\ reader \in {"python", "json"} /\ stage = "reading" /\ unread = <<>>
  /\ stage' = "listing"
  /\ reader' = IF reader = "python" THEN "json" ELSE "workflows"
  /\ UNCHANGED <<worktree, touched, unread, declared, index, found, placed, treeEdits>>

-----------------------------------------------------------------------------
ReadersInit ==
  /\ worktree \in Trees
  /\ touched = {} /\ reader = "none" /\ stage = "idle"
  /\ unread = <<>> /\ declared = <<>> /\ index = NoIndex /\ found = {}
  /\ placed = NotPlaced /\ treeEdits = 0

ReadersNext ==
  \/ \E p \in AllPaths : \E c \in Writable[p] : TreeEdit(p, c)
  \/ \E files \in Evidence : verify_declared_files(files)
  \/ DeclaredFileIsRead \/ Return
  \/ NumbersAreAsked \/ AmbiguousNumbers \/ UnambiguousToUs \/ UnambiguousToThem
  \/ index_disagreements \/ IndexIsRead \/ IndexIsCompared
  \/ artifact_disagreements \/ WaveFileIsRead
  \/ run_syntax_gate \/ FilesAreListed \/ SourceIsRead \/ NextCheck

ReadersSpec == ReadersInit /\ [][ReadersNext]_tree_vars

-----------------------------------------------------------------------------
Steady(p) == p \notin touched
Named(p) == \E f \in found : f[1] \notin {"no file", "not listed"} /\ f[2] = p
Says(what, where) == <<what, where>> \in found
Settled(n) == \A p \in WavePaths : Number[p] = n => Steady(p)
Exists(n) == \E p \in WavePaths : Number[p] = n /\ OnDisk(p)

(* A CURRENT binding names at least one file, and every declared file that *)
(* nobody touched holds the declared bytes; a STALE one is missing no such *)
(* file; an UNKNOWN one has a reason.                                      *)
BindingStands ==
  LET entries == Range(declared)
      holds(e) == ~e.malformed /\ Opens(worktree[e.path]) /\ worktree[e.path] = e.sha256
  IN (reader = "binding" /\ stage = "returned") =>
       CASE BindingStatus = "CURRENT" ->
              declared # <<>> /\ \A e \in entries : Steady(e.path) => holds(e)
         [] BindingStatus = "STALE" ->
              /\ \A e \in entries : Steady(e.path) => ~e.malformed /\ Opens(worktree[e.path])
              /\ \E e \in entries : Steady(e.path) => ~holds(e)
         [] BindingStatus = "UNKNOWN" ->
              \/ declared = <<>>
              \/ \E e \in entries : e.malformed \/ ~Steady(e.path) \/ ~Opens(worktree[e.path])

(* A wave file nobody touched is reported exactly when it is not the       *)
(* document of the wave its name says.                                     *)
ArtifactsStand ==
  (reader = "artifacts" /\ stage = "returned") =>
    \A p \in WavePaths : Steady(p) =>
      (Named(p) <=> /\ OnDisk(p)
                    /\ ~(/\ worktree[p].state = "object" /\ worktree[p].ours
                         /\ worktree[p].waves = {Number[p]} /\ worktree[p].names = {Number[p]}))

(* Index and tree agree on every number whose files nobody touched, unless *)
(* it is reported, and what is reported of such a number is so.            *)
IndexStands ==
  (reader = "index" /\ stage = "returned" /\ Steady(IndexPath)) =>
    IF worktree[IndexPath].state = "object"
    THEN /\ Named(IndexPath) <=> ~worktree[IndexPath].ours
         /\ \A n \in Range(Number) : Settled(n) =>
              /\ Says("no file", n) <=> n \in worktree[IndexPath].waves /\ ~Exists(n)
              /\ Says("not listed", n) <=> n \notin worktree[IndexPath].waves /\ Exists(n)
    ELSE Named(IndexPath)

(* A number whose files nobody touched is ambiguous, ours or theirs, never *)
(* two of them, and none only when neither repository has it.              *)
NumbersStand ==
  (reader = "names" /\ stage = "returned") =>
    \A n \in Range(Number) \cup THEIR_WAVES : Settled(n) =>
      /\ n \in placed.ambiguous <=> Exists(n) /\ n \in THEIR_WAVES
      /\ n \in placed.ours <=> Exists(n) /\ n \notin THEIR_WAVES
      /\ n \in placed.theirs <=> ~Exists(n) /\ n \in THEIR_WAVES

(* The syntax gate names exactly the owned files nobody touched that do not*)
(* parse, or in which two steps of one job run one subcommand; and it      *)
(* reports only when none of them breaks a parser.                         *)
IsOwned(p) == OnDisk(p) /\ (p \in WorkflowPaths \/ p \notin ExcludedPaths)

SyntaxStands ==
  (reader = "workflows" /\ stage = "returned") =>
    \A p \in PythonPaths \cup JsonPaths \cup WorkflowPaths : Steady(p) =>
      /\ Named(p) <=>
           /\ IsOwned(p)
           /\ \/ worktree[p].state \in {"unreadable", "undecodable", "damaged"}
              \/ /\ p \in WorkflowPaths
                 /\ \E job \in worktree[p].jobs : \E i, j \in DOMAIN job :
                      i < j /\ job[i] \cap job[j] # {}
      /\ IsOwned(p) => worktree[p].state # "breaking"

(* "Every problem in the tree, not the first one" (syntax_gate.py:202); "a *)
(* malformed entry is UNKNOWN, never skipped" (binding.py:51).  However the*)
(* tree is edited while it is read, a report that is returned is exact     *)
(* about every file that nobody touched since the reader began.            *)
ReportsWhatStands ==
  BindingStands /\ ArtifactsStand /\ IndexStands /\ NumbersStand /\ SyntaxStands

(* "Every problem in the tree, not the first one" (syntax_gate.py:202).    *)
(* Not kept: one file that breaks a parser silences the report of every    *)
(* other, and none is returned.                                            *)
OneFileSilencesNone ==
  (reader \in {"python", "json", "workflows"} /\ stage \in {"returned", "raised"}) =>
    \A p \in PythonPaths \cup JsonPaths \cup WorkflowPaths :
      (Steady(p) /\ IsOwned(p) /\ worktree[p].state = "damaged") =>
        stage = "returned" /\ Named(p)

(* Not kept: a CURRENT binding was true of the tree at one moment, the one *)
(* at which it is returned.                                                *)
BindingHeldAtOnce ==
  (reader = "binding" /\ stage = "returned" /\ BindingStatus = "CURRENT") =>
    \A e \in Range(declared) : worktree[e.path] = e.sha256

(* "An index entry with no file" is a finding (wave_names.py:142).  Not    *)
(* kept: wave01.yaml counts as wave 1, while fsm.load_wave(1) opens        *)
(* wave1.yaml.                                                             *)
IndexedWavesLoad ==
  (reader = "index" /\ stage = "returned" /\ found = {} /\ touched = {}) =>
    \A n \in index.waves : \E p \in WavePaths : Number[p] = n /\ OnDisk(p) /\ p \in Canonical

=============================================================================
