-------------------------- MODULE EnforcementEvidence --------------------------
(***************************************************************************)
(* The enforcement-evidence command (runner/cli.py, enforcement.py,        *)
(* provenance.py, staleness.py): one process imports the code, asks git    *)
(* for the head, drives the gate down every bypass route, digests the      *)
(* dependencies and writes an artifact.  A reader asks later whether the   *)
(* artifact is still current.  People edit, commit and add files.          *)
(***************************************************************************)
EXTENDS Integers, FiniteSets, Functions

CONSTANTS
  Code,            \* runner modules: imported, and digested
  Rules,           \* read when used, and digested
  CapitalRules,    \* the one of them that claims ENFORCED and sets the lifetime
  Undigested,      \* read by the routes, and not digested
  Extra,           \* files that may come and go: a detector not written yet
  Lifetimes,       \* values of evidence_expiry_days, 0 for none
  MaxTime,
  MaxEdits

ASSUME EvidenceAssumption ==
  /\ Lifetimes \subseteq Nat /\ MaxTime \in Nat /\ MaxEdits \in Nat
  /\ CapitalRules \in Rules /\ Code \cap Rules = {}
  /\ (Code \cup Rules) \cap Undigested = {}
  /\ (Code \cup Rules \cup Undigested) \cap Extra = {}

(* What the routes read: the gate's code, the capital rules and the prompt *)
(* stacks, and rules.json, the evidence schema and the waves' yaml.        *)
Core == Code \cup Rules \cup Undigested
Files == Core \cup Extra

(* What a text does, and the lifetime the capital rules set.  An open one  *)
(* lets a route pass or has one denied for another reason; an unearned one *)
(* claims ENFORCED for a principle without routes.  Absent: gone, or there *)
(* and not readable.                                                       *)
Text(is, days) == [is |-> is, days |-> days]
Absent == Text("absent", 0)
Kinds == {"sound", "open", "unearned", "absent"}

VersionsOf(f) ==
  {Absent} \cup
  IF f = CapitalRules THEN {Text(is, days) : is \in {"sound", "open", "unearned"}, days \in Lifetimes}
  ELSE IF f \in Extra THEN {Text("sound", 0)}
  ELSE {Text("sound", 0), Text("open", 0)}

VARIABLES
  tree, head,    \* the working tree, and what is committed at HEAD
  now, edits,
  pc,
  imported,      \* the code the process runs
  evaluated,     \* what git answered: [known, head, problems]
  ran,           \* what the routes ran against
  read,          \* the capital rules as the manifest read them, and when
  moved,         \* history: files edited or committed under the process
  artifact       \* the one written last

vars == <<tree, head, now, edits, pc, imported, evaluated, ran, read, moved, artifact>>

Nothing == [f \in {} |-> Absent]
NoHead == [known |-> FALSE, head |-> Nothing, problems |-> TRUE]
NotRead == [rules |-> Absent, at |-> 0]
NoArtifact == [kind |-> "none"]

Readable(content, f) == content[f] # Absent

Init ==
  /\ tree \in [Files -> {Text("sound", days) : days \in Lifetimes \cup {0}} \cup {Absent}]
  /\ \A f \in Files : tree[f] \in VersionsOf(f) /\ (Readable(tree, f) <=> f \in Core)
  /\ head = tree
  /\ now = 0 /\ edits = 0
  /\ pc = "idle"
  /\ imported = Nothing
  /\ evaluated = NoHead
  /\ ran = Nothing
  /\ read = NotRead
  /\ moved = {}
  /\ artifact = NoArtifact

-----------------------------------------------------------------------------
(* The process                                                             *)

(* What a process knew goes with it.                                       *)
Gone ==
  /\ pc' = "idle"
  /\ imported' = Nothing /\ evaluated' = NoHead /\ ran' = Nothing
  /\ read' = NotRead /\ moved' = {}

(* Python imports runner.* before the command starts.                      *)
Start ==
  /\ pc = "idle" /\ \A f \in Code : Readable(tree, f)
  /\ imported' = Restrict(tree, Code)
  /\ pc' = "import"
  /\ UNCHANGED <<tree, head, now, edits, evaluated, ran, read, moved, artifact>>

(* git rev-parse HEAD, or no git: then read_head is done.                  *)
RevParse ==
  /\ pc = "import"
  /\ \/ /\ evaluated' = [known |-> TRUE, head |-> head, problems |-> FALSE]
        /\ pc' = "head"
     \/ /\ evaluated' = NoHead
        /\ pc' = "provenance"
  /\ UNCHANGED <<tree, head, now, edits, imported, ran, read, moved, artifact>>

(* Mutant: a dirty tree is no problem.                                     *)
ProblemsOf_Dirty(clean, disputed) == disputed

(* An unclean tree, an unknown one, a head the caller disputes.            *)
ProblemsOf(clean, disputed) == ~clean \/ disputed

(* git status --porcelain, and the head the caller expects, if any.        *)
Status ==
  /\ pc = "head"
  /\ \E answered, disputed \in BOOLEAN :
       evaluated' = [evaluated EXCEPT !.problems =
                       ProblemsOf(answered /\ tree = head, disputed)]
  /\ pc' = "provenance"
  /\ UNCHANGED <<tree, head, now, edits, imported, ran, read, moved, artifact>>

(* run_routes: imported code, and the rest as it is now.  Capital rules and*)
(* stacks that cannot be read raise; without the schema no evidence passes.*)
RunRoutes ==
  /\ pc = "provenance" /\ \A f \in Rules : Readable(tree, f)
  /\ ran' = [f \in Core |-> IF f \in Code THEN imported[f] ELSE tree[f]]
  /\ pc' = "routes"
  /\ UNCHANGED <<tree, head, now, edits, imported, evaluated, read, moved, artifact>>

(* No route reaches PASS, and none is denied by a check not its own.       *)
RoutesDeny(content) == \A f \in Core : content[f].is \notin {"open", "absent"}

(* The manifest reads the capital rules again, and the clock.              *)
ReadRules ==
  /\ pc = "routes" /\ Readable(tree, CapitalRules)
  /\ read' = [rules |-> tree[CapitalRules], at |-> now]
  /\ pc' = "manifest"
  /\ UNCHANGED <<tree, head, now, edits, imported, evaluated, ran, moved, artifact>>

(* Mutant: only the code is walked.                                        *)
DependencyPaths_CodeOnly == Code \cup Extra

(* runner/**.py, the capital rules, the constitution, the prompt stacks.   *)
DependencyPaths == Code \cup Rules \cup Extra

(* Files that are there and can be read.                                   *)
dependency_digests(content) ==
  Restrict(content, {f \in DependencyPaths : Readable(content, f)})

(* Mutant: a lifetime nobody set is a day.                                 *)
evidence_expiry_Default(days, stamp) == IF days = 0 THEN stamp + 1 ELSE stamp + days

(* A timestamp, or none when no lifetime is preregistered.                 *)
evidence_expiry(days, stamp) == IF days = 0 THEN -1 ELSE stamp + days

(* The rest of manifest, and its writing; ran and moved are history.       *)
Emit ==
  /\ pc = "manifest"
  /\ artifact' = [kind |-> "manifest",
                  ok |-> /\ RoutesDeny(ran) /\ read.rules.is # "unearned"
                         /\ ~evaluated.problems,
                  head |-> evaluated.head, ran |-> ran, moved |-> moved,
                  generated_at |-> read.at,
                  expires_at |-> evidence_expiry(read.rules.days, read.at),
                  dependencies |-> dependency_digests(tree)]
  /\ Gone
  /\ UNCHANGED <<tree, head, now, edits>>

(* An exception, or a kill: nothing is written.                            *)
Die ==
  /\ pc # "idle"
  /\ Gone
  /\ UNCHANGED <<tree, head, now, edits, artifact>>

-----------------------------------------------------------------------------
(* People                                                                  *)

(* They move files under a running process as well as between two.         *)
Moves(files) == moved' = IF pc = "idle" THEN {} ELSE moved \cup files

Edit ==
  /\ edits < MaxEdits
  /\ \E f \in Files : \E v \in VersionsOf(f) \ {tree[f]} :
       tree' = [tree EXCEPT ![f] = v] /\ Moves({f})
  /\ edits' = edits + 1
  /\ UNCHANGED <<head, now, pc, imported, evaluated, ran, read, artifact>>

Commit ==
  /\ head # tree
  /\ head' = tree /\ Moves({f \in Files : head[f] # tree[f]})
  /\ UNCHANGED <<tree, now, edits, pc, imported, evaluated, ran, read, artifact>>

Tick ==
  /\ now < MaxTime
  /\ now' = now + 1
  /\ UNCHANGED <<tree, head, edits, pc, imported, evaluated, ran, read, moved, artifact>>

Command == Start \/ RevParse \/ Status \/ RunRoutes \/ ReadRules \/ Emit \/ Die
People == Edit \/ Commit \/ Tick

Next == Command \/ People

Spec == Init /\ [][Next]_vars

-----------------------------------------------------------------------------
(* Readers of the artifact                                                 *)

(* UNKNOWN dominates STALE: a recorded dependency that is gone compares to *)
(* nothing.                                                                *)
staleness(recorded) ==
  IF DOMAIN recorded = {} \/ \E f \in DOMAIN recorded : ~Readable(tree, f) THEN "UNKNOWN"
  ELSE IF \E f \in DOMAIN recorded : tree[f] # recorded[f] THEN "STALE"
  ELSE "CURRENT"

expiry_status(expires_at) ==
  IF expires_at = -1 THEN "UNKNOWN"
  ELSE IF now < expires_at THEN "VALID" ELSE "EXPIRED"

Ok == artifact.kind = "manifest" /\ artifact.ok
Current == artifact.kind = "manifest" /\ staleness(artifact.dependencies) = "CURRENT"
Valid == artifact.kind = "manifest" /\ expiry_status(artifact.expires_at) = "VALID"

-----------------------------------------------------------------------------
(* Properties                                                              *)

(* The process, the last answer of git and the last artifact.              *)
TypeOK ==
  /\ \A f \in Files : {tree[f], head[f]} \subseteq VersionsOf(f)
  /\ now \in 0 .. MaxTime /\ edits \in 0 .. MaxEdits /\ moved \subseteq Files
  /\ pc \in {"idle", "import", "head", "provenance", "routes", "manifest"}
  /\ evaluated.known \in BOOLEAN /\ evaluated.problems \in BOOLEAN
  /\ evaluated.known => DOMAIN evaluated.head = Files
  /\ Ok => DOMAIN artifact.head = Files /\ DOMAIN artifact.ran = Core

(* The head of an ok artifact holds every file as the routes ran against   *)
(* it, whatever was edited and committed under the process, except where it*)
(* was that very file: git is asked once, after the import and before the  *)
(* routes read the rest.                                                   *)
HeadIsWhatRan ==
  Ok => \A f \in Core \ artifact.moved : artifact.head[f] = artifact.ran[f]

(* An ok artifact that still reads CURRENT says of each module, rule and   *)
(* stack nobody moved under its process what a run on the tree would say   *)
(* now; and of each other file the routes read, if it is as they read it.  *)
CurrentIsStillEarned ==
  Ok /\ Current =>
    /\ \A f \in (Code \cup Rules) \ artifact.moved : tree[f].is = "sound"
    /\ \A f \in Undigested : tree[f] = artifact.ran[f] => tree[f].is = "sound"

(* "so evidence never outlives the drill it rests on": the lifetime is the *)
(* rules', and these may be edited after the artifact was dated by them.   *)
(* One that reads VALID and CURRENT is younger than the lifetime now in    *)
(* force, though what VALID compares is the lifetime of its own day.       *)
ValidIsInForce ==
  Valid /\ Current /\ CapitalRules \notin artifact.moved =>
    now - artifact.generated_at < tree[CapitalRules].days

(* evidence-rule-a.md:83: the evaluated head "names the commit the routes  *)
(* ran against".                                                           *)
OkNamesTheCodeRun == Ok => \A f \in Core : artifact.head[f] = artifact.ran[f]

(* staleness.py:33: the dependencies are "Every file whose content can     *)
(* change what the routes would conclude".                                 *)
CurrentIsEarned ==
  Ok /\ Current /\ artifact.moved = {} => \A f \in Core : tree[f].is = "sound"

(* UPTM-007 A6: "Adding a new runner/*.py file makes the previous artifact *)
(* STALE without any edit to the dependency logic".                        *)
AdditionMakesStale ==
  Current => \A f \in DependencyPaths : Readable(tree, f) => f \in DOMAIN artifact.dependencies

=============================================================================
