----------------------- MODULE EnforcementEvidence_proofs -----------------------
(***************************************************************************)
(* What an enforcement-evidence artifact is worth, for any modules, rules  *)
(* and extra files, whatever is edited and committed at any moment.  The   *)
(* argument is per file: what the process knows of one nobody moved under  *)
(* it is what the tree holds.                                              *)
(***************************************************************************)
EXTENDS EnforcementEvidence, TLAPS

(* Each file is one its kind of file can be.                               *)
Fits(content, files) == \A f \in files : content[f] \in VersionsOf(f)

Shapes ==
  /\ tree \in [Files -> UNION {VersionsOf(f) : f \in Files}] /\ Fits(tree, Files)
  /\ head \in [Files -> UNION {VersionsOf(f) : f \in Files}] /\ Fits(head, Files)
  /\ now \in Nat
  /\ pc \in {"idle", "import", "head", "provenance", "routes", "manifest"}
  /\ pc = "idle" => moved = {}
  /\ evaluated = [known |-> evaluated.known, head |-> evaluated.head,
                  problems |-> evaluated.problems]

(* Of a file nobody moved, a running process holds what the tree does: the *)
(* code it imported, what git told it of HEAD, what its routes and its     *)
(* manifest read.                                                          *)
CodeIsTrees ==
  pc # "idle" => Fits(imported, Code) /\ \A f \in Code \ moved : imported[f] = tree[f]

HeadIsTrees ==
  /\ pc = "head" => \A f \in Files \ moved : evaluated.head[f] = head[f]
  /\ pc \in {"provenance", "routes", "manifest"} /\ ~evaluated.problems =>
       \A f \in Files \ moved : evaluated.head[f] = tree[f]

RanIsTrees ==
  pc \in {"routes", "manifest"} =>
    Fits(ran, Core) /\ \A f \in Core \ moved : ran[f] = tree[f]

ReadIsTrees ==
  pc = "manifest" =>
    /\ read.at \in Nat /\ read.rules \in VersionsOf(CapitalRules) \ {Absent}
    /\ CapitalRules \notin moved => read.rules = tree[CapitalRules]

(* What is written of a file nobody moved is what the routes ran on, and a *)
(* file they denied with is sound.                                         *)
Written ==
  Ok =>
    /\ \A f \in Core \ artifact.moved : artifact.head[f] = artifact.ran[f]
    /\ \A f \in Undigested : artifact.ran[f].is = "sound"
    /\ \A f \in (Code \cup Rules) \ artifact.moved :
         /\ f \in DOMAIN artifact.dependencies
         /\ artifact.dependencies[f].is = "sound"

(* The expiry is dated by the rules that are digested.                     *)
Dated ==
  artifact.kind = "manifest" /\ CapitalRules \notin artifact.moved =>
    /\ CapitalRules \in DOMAIN artifact.dependencies
    /\ artifact.dependencies[CapitalRules].days \in Nat
    /\ artifact.generated_at \in Nat
    /\ artifact.expires_at =
         evidence_expiry(artifact.dependencies[CapitalRules].days, artifact.generated_at)

IInv ==
  /\ Shapes /\ CodeIsTrees /\ HeadIsTrees /\ RanIsTrees /\ ReadIsTrees /\ Written /\ Dated

-----------------------------------------------------------------------------

(* Every text has a lifetime, and only the capital rules can be unearned.  *)
LEMMA TextsAre ==
  \A f \in Files : \A v \in VersionsOf(f) :
    /\ v.days \in Nat /\ v.is \in Kinds
    /\ v.is = "absent" <=> v = Absent
    /\ f # CapitalRules => v.is # "unearned"
  BY EvidenceAssumption DEF VersionsOf, Text, Absent, Kinds

LEMMA CapitalRulesIsAFile == CapitalRules \in Rules /\ CapitalRules \in Core /\ CapitalRules \in Files
  BY EvidenceAssumption DEF Core, Files

LEMMA InitInv == Init => IInv
<1> SUFFICES ASSUME Init PROVE IInv
  OBVIOUS
<1>1. Fits(tree, Files) /\ Fits(head, Files)
  BY DEF Init, Fits
<1>2. /\ tree \in [Files -> UNION {VersionsOf(f) : f \in Files}]
      /\ head \in [Files -> UNION {VersionsOf(f) : f \in Files}]
  <2>1. tree = [f \in Files |-> tree[f]]
    BY DEF Init
  <2>2. QED
    BY <2>1, <1>1 DEF Fits, Init
<1>3. Shapes
  BY <1>1, <1>2 DEF Init, Shapes, NoHead
<1>4. QED
  BY <1>3 DEF Init, IInv, CodeIsTrees, HeadIsTrees, RanIsTrees, ReadIsTrees, Written, Dated,
              Ok, NoArtifact

(* A step of a run that neither writes nor ends.                           *)
LEMMA RunKeepsInv ==
  ASSUME IInv, Start \/ RevParse \/ Status \/ RunRoutes \/ ReadRules
  PROVE  IInv'
<1> USE DEF IInv
<1>1. UNCHANGED <<tree, head, now, moved, artifact>>
  BY DEF Start, RevParse, Status, RunRoutes, ReadRules
<1>2. Written' /\ Dated'
  BY <1>1 DEF Written, Dated, Ok
<1>3. CASE Start
  <2>1. /\ pc = "idle" /\ pc' = "import" /\ UNCHANGED evaluated
        /\ imported' = [f \in Code |-> tree[f]]
    BY <1>3 DEF Start, Restrict
  <2>2. CodeIsTrees'
    BY <1>1, <2>1 DEF CodeIsTrees, Shapes, Fits, Core, Files
  <2>3. QED
    BY <1>1, <1>2, <2>1, <2>2 DEF Shapes, HeadIsTrees, RanIsTrees, ReadIsTrees
<1>4. CASE RevParse
  <2>1. pc = "import" /\ pc' \in {"head", "provenance"} /\ UNCHANGED <<imported, ran, read>>
    BY <1>4 DEF RevParse
  <2>2. \/ /\ evaluated' = [known |-> TRUE, head |-> head, problems |-> FALSE]
           /\ pc' = "head"
        \/ evaluated' = NoHead /\ pc' = "provenance"
    BY <1>4 DEF RevParse
  <2>3. HeadIsTrees' /\ Shapes'
    BY <1>1, <2>1, <2>2 DEF HeadIsTrees, Shapes, NoHead
  <2>4. QED
    BY <1>1, <1>2, <2>1, <2>3 DEF CodeIsTrees, RanIsTrees, ReadIsTrees
<1>5. CASE Status
  <2>1. pc = "head" /\ pc' = "provenance" /\ UNCHANGED <<imported, ran, read>>
    BY <1>5 DEF Status
  <2>2. PICK answered \in BOOLEAN, disputed \in BOOLEAN :
          evaluated' = [evaluated EXCEPT !.problems =
                          ProblemsOf(answered /\ tree = head, disputed)]
    BY <1>5 DEF Status
  <2>3. /\ evaluated' = [known |-> evaluated'.known, head |-> evaluated'.head,
                         problems |-> evaluated'.problems]
        /\ evaluated'.head = evaluated.head
        /\ ~evaluated'.problems => tree = head
    BY <2>2 DEF Shapes, ProblemsOf
  <2>4. HeadIsTrees' /\ Shapes'
    BY <1>1, <2>1, <2>3 DEF HeadIsTrees, Shapes
  <2>5. QED
    BY <1>1, <1>2, <2>1, <2>4 DEF CodeIsTrees, RanIsTrees, ReadIsTrees
<1>6. CASE RunRoutes
  <2>1. /\ pc = "provenance" /\ pc' = "routes" /\ UNCHANGED <<imported, evaluated, read>>
        /\ ran' = [f \in Core |-> IF f \in Code THEN imported[f] ELSE tree[f]]
    BY <1>6 DEF RunRoutes
  <2>2. RanIsTrees'
    BY <1>1, <2>1 DEF RanIsTrees, CodeIsTrees, Shapes, Fits, Files
  <2>3. QED
    BY <1>1, <1>2, <2>1, <2>2 DEF Shapes, CodeIsTrees, HeadIsTrees, ReadIsTrees
<1>7. CASE ReadRules
  <2>1. /\ pc = "routes" /\ pc' = "manifest" /\ UNCHANGED <<imported, evaluated, ran>>
        /\ read' = [rules |-> tree[CapitalRules], at |-> now]
        /\ tree[CapitalRules] # Absent
    BY <1>7 DEF ReadRules, Readable
  <2>2. ReadIsTrees'
    BY <1>1, <2>1, CapitalRulesIsAFile DEF ReadIsTrees, Shapes, Fits
  <2>3. QED
    BY <1>1, <1>2, <2>1, <2>2 DEF Shapes, CodeIsTrees, HeadIsTrees, RanIsTrees
<1>8. QED
  BY <1>3, <1>4, <1>5, <1>6, <1>7

(* What a process knew goes with it.                                       *)
LEMMA GoneKeepsInv ==
  ASSUME IInv, Gone, UNCHANGED <<tree, head, now>>, Written', Dated'
  PROVE  IInv'
  BY DEF IInv, Gone, NoHead, Shapes, CodeIsTrees, HeadIsTrees, RanIsTrees, ReadIsTrees

LEMMA DieKeepsInv == IInv /\ Die => IInv'
<1> SUFFICES ASSUME IInv, Die PROVE IInv'
  OBVIOUS
<1>1. Written' /\ Dated'
  BY DEF Die, IInv, Written, Dated, Ok
<1>2. QED
  BY <1>1, GoneKeepsInv DEF Die

(* An ok manifest is written by a run whose routes all denied, and what was*)
(* not moved is digested as the routes read it.                            *)
LEMMA EmitKeepsInv == IInv /\ Emit => IInv'
<1> SUFFICES ASSUME IInv, Emit PROVE IInv'
  OBVIOUS
<1> USE DEF IInv
<1>1. /\ artifact'.kind = "manifest"
      /\ artifact'.ok = (RoutesDeny(ran) /\ read.rules.is # "unearned" /\ ~evaluated.problems)
      /\ artifact'.head = evaluated.head /\ artifact'.ran = ran /\ artifact'.moved = moved
      /\ artifact'.generated_at = read.at
      /\ artifact'.expires_at = evidence_expiry(read.rules.days, read.at)
      /\ artifact'.dependencies = dependency_digests(tree)
      /\ pc = "manifest"
  BY DEF Emit
<1>2. /\ Fits(ran, Core) /\ \A f \in Core \ moved : ran[f] = tree[f]
      /\ read.at \in Nat /\ read.rules \in VersionsOf(CapitalRules) \ {Absent}
      /\ CapitalRules \notin moved => read.rules = tree[CapitalRules]
  BY <1>1 DEF RanIsTrees, ReadIsTrees
<1>3. \A f \in (Code \cup Rules) : tree[f] # Absent =>
        f \in DOMAIN dependency_digests(tree) /\ dependency_digests(tree)[f] = tree[f]
  BY DEF dependency_digests, Restrict, DependencyPaths, Readable
<1>4. Written'
  <2> SUFFICES ASSUME Ok' PROVE Written'
    BY DEF Written
  <2>1. RoutesDeny(ran) /\ read.rules.is # "unearned" /\ ~evaluated.problems
    BY <1>1 DEF Ok
  <2>2. \A f \in Core : ran[f].is \in {"sound", "unearned"}
    BY <1>2, <2>1, TextsAre DEF RoutesDeny, Fits, Files, Kinds
  <2>3. \A f \in Core \ {CapitalRules} : ran[f].is = "sound"
    BY <1>2, <2>2, TextsAre DEF Fits, Files
  <2>4. \A f \in Core \ moved : evaluated.head[f] = ran[f]
    BY <1>1, <1>2, <2>1 DEF HeadIsTrees, Files
  <2>5. \A f \in Core \ moved : tree[f].is = "sound" /\ tree[f] # Absent
    <3> SUFFICES ASSUME NEW f \in Core \ moved
                 PROVE  tree[f].is = "sound" /\ tree[f] # Absent
      OBVIOUS
    <3>1. tree[f].is = "sound"
      BY <1>2, <2>1, <2>2, <2>3
    <3>2. QED
      BY <3>1 DEF Absent, Text
  <2>6. \A f \in Undigested : ran[f].is = "sound"
    BY <2>3, EvidenceAssumption DEF Core
  <2>7. QED
    BY <1>1, <1>3, <2>4, <2>5, <2>6 DEF Written, Core
<1>5. Dated'
  <2> SUFFICES ASSUME CapitalRules \notin moved PROVE Dated'
    BY <1>1 DEF Dated
  <2>1. /\ CapitalRules \in DOMAIN artifact'.dependencies
        /\ artifact'.dependencies[CapitalRules] = read.rules
    BY <1>1, <1>2, <1>3, CapitalRulesIsAFile
  <2>2. read.rules.days \in Nat
    BY <1>2, TextsAre, CapitalRulesIsAFile
  <2>3. QED
    BY <1>1, <1>2, <2>1, <2>2 DEF Dated
<1>6. QED
  BY <1>4, <1>5, GoneKeepsInv DEF Emit

(* People touch neither artifact nor process; what they move under a run is*)
(* moved.                                                                  *)
LEMMA PeopleKeepInv == IInv /\ (People \/ UNCHANGED vars) => IInv'
<1> SUFFICES ASSUME IInv, People \/ UNCHANGED vars PROVE IInv'
  OBVIOUS
<1> USE DEF IInv
<1>1. UNCHANGED <<pc, imported, evaluated, ran, read, artifact>>
  BY DEF People, Edit, Commit, Tick, vars
<1>2. Written' /\ Dated'
  BY <1>1 DEF Written, Dated, Ok
<1>3. CASE Edit
  <2>0. PICK f \in Files : \E v \in VersionsOf(f) :
          tree' = [tree EXCEPT ![f] = v] /\ Moves({f}) /\ UNCHANGED <<head, now>>
    BY <1>3 DEF Edit
  <2>1. PICK v \in VersionsOf(f) :
          tree' = [tree EXCEPT ![f] = v] /\ Moves({f}) /\ UNCHANGED <<head, now>>
    BY <2>0
  <2>2. /\ tree' \in [Files -> UNION {VersionsOf(g) : g \in Files}]
        /\ tree'[f] = v /\ \A g \in Files \ {f} : tree'[g] = tree[g]
    BY <2>1 DEF Shapes
  <2>3. pc # "idle" => moved \subseteq moved' /\ f \in moved'
    BY <2>1 DEF Moves
  <2>4. Shapes'
    BY <1>1, <2>1, <2>2 DEF Shapes, Fits, Moves
  <2>5. CodeIsTrees' /\ RanIsTrees'
    BY <1>1, <2>2, <2>3 DEF CodeIsTrees, RanIsTrees, Fits, Core, Files
  <2>6. HeadIsTrees' /\ ReadIsTrees'
    BY <1>1, <2>1, <2>2, <2>3, CapitalRulesIsAFile DEF HeadIsTrees, ReadIsTrees
  <2>7. QED
    BY <1>2, <2>4, <2>5, <2>6
<1>4. CASE Commit
  <2>1. head' = tree /\ Moves({f \in Files : head[f] # tree[f]}) /\ UNCHANGED <<tree, now>>
    BY <1>4 DEF Commit
  <2>2. /\ pc # "idle" => moved \subseteq moved'
        /\ pc # "idle" => \A f \in Files \ moved' : head'[f] = head[f]
    BY <2>1 DEF Moves
  <2>3. Shapes'
    BY <1>1, <2>1 DEF Shapes, Fits, Moves
  <2>4. CodeIsTrees' /\ RanIsTrees'
    BY <1>1, <2>1, <2>2 DEF CodeIsTrees, RanIsTrees, Fits
  <2>5. HeadIsTrees' /\ ReadIsTrees'
    BY <1>1, <2>1, <2>2 DEF HeadIsTrees, ReadIsTrees
  <2>6. QED
    BY <1>2, <2>3, <2>4, <2>5
<1>5. CASE Tick \/ UNCHANGED vars
  <2>1. UNCHANGED <<tree, head, moved>> /\ now' \in Nat
    BY <1>5 DEF Tick, vars, Shapes
  <2>2. QED
    BY <1>1, <1>2, <2>1
       DEF Shapes, CodeIsTrees, HeadIsTrees, RanIsTrees, ReadIsTrees, Fits
<1>6. QED
  BY <1>3, <1>4, <1>5 DEF People

LEMMA Invariance == Spec => []IInv
<1>1. IInv /\ [Next]_vars => IInv'
  BY RunKeepsInv, DieKeepsInv, EmitKeepsInv, PeopleKeepInv DEF Next, Command
<1> QED
  BY <1>1, InitInv, PTL DEF Spec

-----------------------------------------------------------------------------
(* The theorems                                                            *)

(* The evaluated head of an ok artifact is, of every file that was not     *)
(* itself edited or committed under the process, what the routes ran on    *)
(* (cli.py cmd_enforcement_evidence, provenance.py read_head).             *)
THEOREM HeadIsTheOneRun == Spec => []HeadIsWhatRan
<1>1. IInv => HeadIsWhatRan
  BY DEF IInv, Written, HeadIsWhatRan
<1> QED
  BY <1>1, Invariance, PTL

(* An ok artifact that reads CURRENT says what a run on the tree now would *)
(* say of every digested file that was not moved under its process, and of *)
(* every other the routes read that stands as they read it.                *)
THEOREM CurrentHolds == Spec => []CurrentIsStillEarned
<1>1. IInv => CurrentIsStillEarned
  <2> SUFFICES ASSUME IInv, Ok, Current PROVE CurrentIsStillEarned
    BY DEF CurrentIsStillEarned
  <2>1. \A g \in DOMAIN artifact.dependencies : tree[g] = artifact.dependencies[g]
    BY DEF Current, staleness
  <2>2. QED
    BY <2>1 DEF IInv, Written, CurrentIsStillEarned
<1> QED
  BY <1>1, Invariance, PTL

(* An artifact that reads VALID and CURRENT is younger than the lifetime   *)
(* the capital rules set now, when they were not moved under its process:  *)
(* they are among the digests (enforcement.py evidence_expiry,             *)
(* staleness.py _iter_dependency_paths).                                   *)
THEOREM ValidWithinLifetime == Spec => []ValidIsInForce
<1>1. IInv => ValidIsInForce
  <2> SUFFICES ASSUME IInv, Valid, Current, CapitalRules \notin artifact.moved
               PROVE  now - artifact.generated_at < tree[CapitalRules].days
    BY DEF ValidIsInForce
  <2>1. /\ CapitalRules \in DOMAIN artifact.dependencies
        /\ artifact.dependencies[CapitalRules].days \in Nat /\ artifact.generated_at \in Nat
        /\ artifact.expires_at =
             evidence_expiry(artifact.dependencies[CapitalRules].days, artifact.generated_at)
    BY DEF IInv, Dated, Valid
  <2>2. tree[CapitalRules] = artifact.dependencies[CapitalRules]
    BY <2>1 DEF Current, staleness
  <2>3. artifact.expires_at # -1 /\ now < artifact.expires_at /\ now \in Nat
    BY DEF Valid, expiry_status, IInv, Shapes
  <2>4. QED
    BY <2>1, <2>2, <2>3 DEF evidence_expiry
<1> QED
  BY <1>1, Invariance, PTL

=============================================================================
