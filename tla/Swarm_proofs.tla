------------------------------ MODULE Swarm_proofs ------------------------------
(***************************************************************************)
(* For any ledgers, agents, files and edits of the registry: what a collect*)
(* of the swarm's evidence that passes has seen.                           *)
(***************************************************************************)
EXTENDS Swarm, TLAPS

(* Content that claims a run whose gate passed is an agent's own delivery. *)
Honest(a) == a.ran /\ a.gate => <<a.agent, a.registry>> \in delivered

DiskHonest == \A f \in Files : Honest(disk[f])

ArtifactsHonest == \A p \in DOMAIN artifacts : Honest(artifacts[p])

(* A ledger in use was vetted, and is a ledger.                            *)
LedgerVetted ==
  /\ ledger \in Ledgers
  /\ pc # "idle" \/ result = "passed" => Vetted

(* No verdict stands while the next one is being formed.                   *)
VerdictPending == pc \in {"reading", "verifying"} => result # "passed"

DiskIsFiles == disk = [f \in Files |-> disk[f]]

Placed == next \in Nat \ {0}

(* What the verifier has found of claim i.                                 *)
ClaimIsMet(i) ==
  LET c == ledger[i]  a == artifacts[Path(c)] IN
  /\ Path(c) \in DOMAIN artifacts
  /\ a.agent = c.agent /\ a.lease \in {"none", c.lease}
  /\ a.ran /\ a.gate
  /\ a.registry \in standing \ Damaged

(* While nothing speaks against the evidence, the claims behind the        *)
(* verifier are met, and there is evidence of no others.                   *)
CheckedSoFar ==
  pc = "verifying" =>
    /\ registry \in standing
    /\ ~reasons => /\ DOMAIN artifacts \subseteq Paths
                   /\ \A i \in Indices : i < next => ClaimIsMet(i)

IInv ==
  /\ DiskIsFiles /\ Placed
  /\ DiskHonest /\ ArtifactsHonest /\ LedgerVetted /\ VerdictPending
  /\ CheckedSoFar /\ EveryAgentDelivered

-----------------------------------------------------------------------------

LEMMA ClaimsAreTyped ==
  ASSUME ledger \in Ledgers
  PROVE  Len(ledger) \in Nat /\ \A i \in Indices : ledger[i] \in Claims
  BY SwarmAssumption DEF Indices

(* A sequence that another begins with is not parted from it.              *)
LEMMA PrefixOverlaps ==
  ASSUME NEW p \in Seq(STRING), NEW q \in Seq(STRING), NEW n \in 0 .. Len(q),
         p = SubSeq(q, 1, n)
  PROVE  IsPrefix(p, q)
<1>1. Len(p) = n /\ Len(p) <= Len(q) /\ \A k \in 1 .. n : p[k] = q[k]
  OBVIOUS
<1>2. SubSeq(p, 1, Len(p)) = SubSeq(q, 1, Len(p))
  OBVIOUS
<1>3. QED
  BY <1>1, <1>2 DEF IsPrefix

LEMMA VettedIsDisjoint ==
  ASSUME ledger \in Ledgers, Vetted
  PROVE  \A i, j \in Indices : i # j =>
           \A p \in ledger[i].owned, q \in ledger[j].owned :
             \A n \in 0 .. Len(q) : p # SubSeq(q, 1, n)
<1> SUFFICES ASSUME NEW i \in Indices, NEW j \in Indices, i # j,
                    NEW p \in ledger[i].owned, NEW q \in ledger[j].owned,
                    NEW n \in 0 .. Len(q), p = SubSeq(q, 1, n)
             PROVE  FALSE
  OBVIOUS
<1>1. p \in Seq(STRING) /\ q \in Seq(STRING)
  BY ClaimsAreTyped DEF Claims
<1>2. PathsOverlap(p, q) /\ PathsOverlap(q, p)
  BY <1>1, PrefixOverlaps DEF PathsOverlap
<1>3. i \in Nat /\ j \in Nat /\ (j \in 1 .. i - 1 \/ i \in 1 .. j - 1)
  BY ClaimsAreTyped DEF Indices
<1>4. CASE j \in 1 .. i - 1
  <2>1. ledger[i].agent # ledger[j].agent /\ ~OwnershipConflict(i)
    BY <1>4 DEF Vetted
  <2>2. QED
    BY <1>2, <1>4, <2>1 DEF OwnershipConflict
<1>5. CASE i \in 1 .. j - 1
  <2>1. ledger[j].agent # ledger[i].agent /\ ~OwnershipConflict(j)
    BY <1>5 DEF Vetted
  <2>2. QED
    BY <1>2, <1>5, <2>1 DEF OwnershipConflict
<1>6. QED
  BY <1>3, <1>4, <1>5

-----------------------------------------------------------------------------

LEMMA InitInv == Init => IInv
<1> SUFFICES ASSUME Init PROVE IInv
  OBVIOUS
<1>1. DiskIsFiles /\ Placed
  BY DEF Init, DiskIsFiles, Placed
<1>2. DiskHonest
  BY DEF Init, DiskHonest, Honest, Absent, NoObject
<1>3. ArtifactsHonest
  BY DEF Init, ArtifactsHonest, NoArtifacts
<1>4. QED
  BY <1>1, <1>2, <1>3
     DEF Init, IInv, LedgerVetted, VerdictPending, CheckedSoFar, EveryAgentDelivered

LEMMA BindKeepsInv == IInv /\ Bind => IInv'
<1> SUFFICES ASSUME IInv, Bind PROVE IInv'
  OBVIOUS
<1>1. DiskIsFiles' /\ Placed' /\ DiskHonest'
  BY DEF IInv, Bind, history, DiskIsFiles, Placed, DiskHonest, Honest
<1>2. ArtifactsHonest'
  BY DEF Bind, ArtifactsHonest, NoArtifacts
<1>3. QED
  BY <1>1, <1>2
     DEF IInv, Bind, LedgerVetted, VerdictPending, CheckedSoFar, EveryAgentDelivered

LEMMA HandoffKeepsInv == IInv /\ (BeginHandoff \/ WriteFails) => IInv'
<1> SUFFICES ASSUME IInv, BeginHandoff \/ WriteFails PROVE IInv'
  OBVIOUS
<1>1. /\ UNCHANGED <<ledger, disk, registry, artifacts, reasons, result, delivered>>
      /\ next' = 1 /\ pc' \in {"writing", "idle"} /\ (pc' # "idle" => Vetted)
  BY DEF BeginHandoff, WriteFails, history, validate
<1>2. DiskIsFiles' /\ Placed' /\ DiskHonest' /\ ArtifactsHonest'
  BY <1>1 DEF IInv, DiskIsFiles, Placed, DiskHonest, ArtifactsHonest, Honest
<1>3. LedgerVetted' /\ VerdictPending' /\ CheckedSoFar'
  BY <1>1 DEF IInv, LedgerVetted, VerdictPending, CheckedSoFar, Vetted, Indices,
              OwnershipConflict
<1>4. EveryAgentDelivered'
  BY <1>1 DEF IInv, EveryAgentDelivered, Path, Indices
<1>5. QED
  BY <1>2, <1>3, <1>4 DEF IInv

(* A skeleton claims no run.                                               *)
LEMMA SkeletonKeepsInv == IInv /\ WriteSkeleton => IInv'
<1> SUFFICES ASSUME IInv, WriteSkeleton PROVE IInv'
  OBVIOUS
<1> DEFINE c == ledger[next]
           skeleton == [kind |-> "object", skeleton |-> TRUE, agent |-> c.agent,
                        registry |-> registry, lease |-> c.lease,
                        ran |-> FALSE, gate |-> FALSE]
<1>1. /\ disk' = [disk EXCEPT ![c.file] = skeleton]
      /\ pc = "writing" /\ pc' \in {"idle", "writing"}
      /\ UNCHANGED <<ledger, registry, artifacts, reasons, result, delivered>>
      /\ next' = 1 \/ next' = next + 1
  BY DEF WriteSkeleton, history
<1>2. ~skeleton.ran
  OBVIOUS
<1> HIDE DEF skeleton, c
<1>3. DiskIsFiles'
  BY <1>1 DEF IInv, DiskIsFiles
<1>4. Placed'
  BY <1>1 DEF IInv, Placed
<1>5. \A f \in Files : disk'[f] = disk[f] \/ disk'[f] = skeleton
  BY <1>1 DEF IInv, DiskIsFiles
<1>6. DiskHonest'
  BY <1>1, <1>5, <1>2 DEF IInv, DiskHonest, Honest
<1>7. QED
  BY <1>1, <1>3, <1>4, <1>6
     DEF IInv, ArtifactsHonest, Honest, LedgerVetted, VerdictPending, CheckedSoFar,
         EveryAgentDelivered, Vetted, Path, Indices, OwnershipConflict

(* A collect that ends without a pass, or raises, leaves nothing behind.   *)
LEMMA EndingKeepsInv ==
  ASSUME IInv, NEW r, r # "passed", Ends(NoArtifacts, r),
         UNCHANGED <<ledger, disk, registry, history>>
  PROVE  IInv'
<1>1. DiskIsFiles' /\ DiskHonest' /\ Placed'
  BY DEF IInv, Ends, history, DiskIsFiles, DiskHonest, Honest, Placed
<1>2. ArtifactsHonest'
  BY DEF Ends, ArtifactsHonest, NoArtifacts
<1>3. QED
  BY <1>1, <1>2
     DEF IInv, Ends, LedgerVetted, VerdictPending, CheckedSoFar, EveryAgentDelivered

LEMMA BeginKeepsInv == IInv /\ BeginCollect => IInv'
<1> SUFFICES ASSUME IInv, BeginCollect PROVE IInv'
  OBVIOUS
<1>1. CASE validate
  <2>1. /\ pc' = "reading" /\ next' = 1 /\ artifacts' = NoArtifacts /\ result' = "none"
        /\ UNCHANGED <<ledger, disk, registry, delivered>>
    BY <1>1 DEF BeginCollect, history
  <2>2. DiskIsFiles' /\ Placed' /\ DiskHonest'
    BY <2>1 DEF IInv, DiskIsFiles, Placed, DiskHonest, Honest
  <2>3. ArtifactsHonest'
    BY <2>1 DEF ArtifactsHonest, NoArtifacts
  <2>4. LedgerVetted'
    BY <1>1, <2>1 DEF IInv, LedgerVetted, validate, Vetted, Indices, OwnershipConflict
  <2>5. QED
    BY <2>1, <2>2, <2>3, <2>4 DEF IInv, VerdictPending, CheckedSoFar, EveryAgentDelivered
<1>2. CASE ~validate
  BY <1>2, EndingKeepsInv DEF BeginCollect, Raises
<1>3. QED
  BY <1>1, <1>2

LEMMA ReadKeepsInv == IInv /\ ReadEvidence => IInv'
<1> SUFFICES ASSUME IInv, ReadEvidence PROVE IInv'
  OBVIOUS
<1> DEFINE c == ledger[next]
           content == disk[c.file]
<1>1. pc = "reading" /\ next <= Len(ledger) /\ UNCHANGED <<ledger, disk, registry, history>>
  BY DEF ReadEvidence
<1>2. CASE content = Undecodable
  BY <1>1, <1>2, EndingKeepsInv DEF ReadEvidence, Raises
<1>3. CASE content # Undecodable
  <2>1. /\ next' = next + 1 /\ UNCHANGED <<pc, result, delivered>>
        /\ artifacts' = artifacts \/ artifacts' = With(artifacts, Path(c), content)
    BY <1>3 DEF ReadEvidence, history
  <2>2. next \in Indices
    BY <1>1, ClaimsAreTyped DEF IInv, LedgerVetted, Placed, Indices
  <2>3. c.file \in Files
    BY <2>2, ClaimsAreTyped DEF IInv, LedgerVetted, Claims
  <2>4. Honest(content)
    BY <2>3 DEF IInv, DiskHonest
  <2>5. ArtifactsHonest'
    BY <2>1, <2>4 DEF IInv, ArtifactsHonest, Honest, With
  <2>6. DiskIsFiles' /\ Placed' /\ DiskHonest'
    BY <1>1, <2>1 DEF IInv, DiskIsFiles, Placed, DiskHonest, Honest
  <2>7. result' # "passed"
    BY <1>1, <2>1 DEF IInv, VerdictPending
  <2>8. QED
    BY <1>1, <2>1, <2>5, <2>6, <2>7
       DEF IInv, LedgerVetted, VerdictPending, CheckedSoFar, EveryAgentDelivered, Vetted,
           Indices, OwnershipConflict
<1>4. QED
  BY <1>2, <1>3

(* Verifying starts from nothing verified, on whatever was collected.      *)
LEMMA VerifyingKeepsInv ==
  ASSUME IInv, NEW found, NEW denied, BeginVerify(found, denied),
         \A p \in DOMAIN found : Honest(found[p]),
         UNCHANGED <<ledger, disk, registry, history>>
  PROVE  IInv'
<1>1. CASE validate
  <2>1. /\ pc' = "verifying" /\ next' = 1 /\ artifacts' = found /\ result' = "none"
        /\ reasons' = (denied \/ KeysWrong(found)) /\ standing' = {registry}
    BY <1>1 DEF BeginVerify
  <2>2. DiskIsFiles' /\ Placed' /\ DiskHonest' /\ ArtifactsHonest'
    BY <2>1 DEF IInv, history, DiskIsFiles, Placed, DiskHonest, ArtifactsHonest, Honest
  <2>3. LedgerVetted'
    BY <1>1 DEF IInv, LedgerVetted, validate, Vetted, Indices, OwnershipConflict
  <2>4. ~reasons' => DOMAIN artifacts' \subseteq Paths'
    BY <2>1 DEF KeysWrong, Paths, Indices, Path
  <2>5. \A i \in Indices' : ~(i < 1)
    BY ClaimsAreTyped DEF IInv, LedgerVetted, Indices
  <2>6. CheckedSoFar'
    BY <2>1, <2>4, <2>5 DEF CheckedSoFar
  <2>7. QED
    BY <2>1, <2>2, <2>3, <2>6 DEF IInv, VerdictPending, EveryAgentDelivered
<1>2. CASE ~validate
  BY <1>2, EndingKeepsInv DEF BeginVerify, Raises
<1>3. QED
  BY <1>1, <1>2

LEMMA CollectedKeepsInv == IInv /\ (EvidenceIsRead \/ CollectMapping) => IInv'
<1> SUFFICES ASSUME IInv, EvidenceIsRead \/ CollectMapping PROVE IInv'
  OBVIOUS
<1>1. UNCHANGED <<ledger, disk, registry, history>>
  BY DEF EvidenceIsRead, CollectMapping
<1>2. CASE EvidenceIsRead
  BY <1>1, <1>2, VerifyingKeepsInv DEF EvidenceIsRead, IInv, ArtifactsHonest
<1>3. CASE CollectMapping
  <2>1. PICK keys \in SUBSET (Paths \cup {<<"foreign", "plain">>}) :
          LET Holds(p) == disk[IF p[1] \in Files THEN p[1] ELSE ledger[1].file] IN
          BeginVerify([p \in keys |-> Holds(p)], FALSE)
    BY <1>3 DEF CollectMapping
  <2> DEFINE found == [p \in keys |-> disk[IF p[1] \in Files THEN p[1] ELSE ledger[1].file]]
  <2>2. BeginVerify(found, FALSE)
    BY <2>1
  <2>3. CASE Vetted
    <3>1. ledger[1].file \in Files
      BY <2>3, ClaimsAreTyped DEF Vetted, IInv, LedgerVetted, Indices, Claims
    <3>2. \A p \in DOMAIN found : Honest(found[p])
      BY <3>1 DEF IInv, DiskHonest
    <3> HIDE DEF found
    <3>3. QED
      BY <1>1, <2>2, <3>2, VerifyingKeepsInv
  <2>4. CASE ~Vetted
    BY <1>1, <2>2, <2>4, EndingKeepsInv DEF BeginVerify, Raises, validate
  <2>5. QED
    BY <2>3, <2>4
<1>4. QED
  BY <1>1, <1>2, <1>3

LEMMA ClaimKeepsInv == IInv /\ VerifyClaim => IInv'
<1> SUFFICES ASSUME IInv, VerifyClaim PROVE IInv'
  OBVIOUS
<1> DEFINE c == ledger[next]
           there == Path(c) \in DOMAIN artifacts
<1>1. /\ pc = "verifying" /\ next <= Len(ledger)
      /\ UNCHANGED <<ledger, disk, registry, history>>
  BY DEF VerifyClaim
<1>2. CASE there /\ ~Assembles
  BY <1>1, <1>2, EndingKeepsInv DEF VerifyClaim, Raises
<1>3. CASE ~(there /\ ~Assembles)
  <2>1. /\ reasons' = (reasons \/ ~there \/ ~Verified(c, artifacts[Path(c)]))
        /\ next' = next + 1 /\ UNCHANGED <<pc, artifacts, result, standing, delivered>>
    BY <1>3 DEF VerifyClaim, history
  <2>2. DiskIsFiles' /\ Placed' /\ DiskHonest' /\ ArtifactsHonest'
    BY <1>1, <2>1 DEF IInv, DiskIsFiles, Placed, DiskHonest, ArtifactsHonest, Honest
  <2>3. LedgerVetted' /\ VerdictPending' /\ EveryAgentDelivered'
    BY <1>1, <2>1 DEF IInv, LedgerVetted, VerdictPending, EveryAgentDelivered, Vetted,
                      Indices, OwnershipConflict
  <2>4. ~reasons' => ClaimIsMet(next)
    BY <1>1, <1>3, <2>1
       DEF IInv, CheckedSoFar, ClaimIsMet, Verified, PromptMatches, Assembles
  <2>5. \A i \in Indices : i < next + 1 => i < next \/ i = next
    BY ClaimsAreTyped DEF IInv, LedgerVetted, Indices, Placed
  <2>6. ~reasons' => \A i \in Indices : i < next' => ClaimIsMet(i)
    BY <1>1, <2>1, <2>4, <2>5 DEF IInv, CheckedSoFar
  <2>7. \A i : ClaimIsMet(i)' <=> ClaimIsMet(i)
    BY <1>1, <2>1 DEF ClaimIsMet, Path
  <2>8. CheckedSoFar'
    BY <1>1, <2>1, <2>6, <2>7 DEF IInv, CheckedSoFar, Indices, Paths, Path
  <2>9. QED
    BY <2>2, <2>3, <2>8 DEF IInv
<1>4. QED
  BY <1>2, <1>3

(* What a collect accepts was delivered by the agent of every claim.       *)
LEMMA AllClaimsAreMet ==
  ASSUME IInv, pc = "verifying", next > Len(ledger), ~reasons
  PROVE  DOMAIN artifacts \subseteq Paths /\ \A i \in Indices : ClaimIsMet(i)
<1>1. \A i \in Indices : i < next
  BY ClaimsAreTyped DEF IInv, LedgerVetted, Indices, Placed
<1>2. QED
  BY <1>1 DEF IInv, CheckedSoFar

LEMMA VerdictKeepsInv == IInv /\ Verdict => IInv'
<1> SUFFICES ASSUME IInv, Verdict PROVE IInv'
  OBVIOUS
<1>1. pc = "verifying" /\ next > Len(ledger) /\ UNCHANGED <<ledger, disk, registry, history>>
  BY DEF Verdict
<1>2. CASE reasons
  BY <1>1, <1>2, EndingKeepsInv DEF Verdict
<1>3. CASE ~reasons
  <2>1. /\ artifacts' = artifacts /\ result' = "passed" /\ pc' = "idle" /\ next' = 1
        /\ UNCHANGED delivered
    BY <1>1, <1>3 DEF Verdict, Ends, history
  <2>2. DiskIsFiles' /\ Placed' /\ DiskHonest' /\ ArtifactsHonest'
    BY <1>1, <2>1 DEF IInv, DiskIsFiles, Placed, DiskHonest, ArtifactsHonest, Honest
  <2>3. LedgerVetted' /\ VerdictPending' /\ CheckedSoFar'
    BY <1>1, <2>1 DEF IInv, LedgerVetted, VerdictPending, CheckedSoFar, Vetted, Indices,
                      OwnershipConflict
  <2>4. \A i \in Indices : ClaimIsMet(i)
    BY <1>1, <1>3, AllClaimsAreMet
  <2>5. EveryAgentDelivered'
    BY <1>1, <2>1, <2>4
       DEF IInv, ArtifactsHonest, Honest, ClaimIsMet, EveryAgentDelivered, Indices, Path
  <2>6. QED
    BY <2>2, <2>3, <2>5 DEF IInv
<1>4. QED
  BY <1>2, <1>3

(* Deliveries are only ever added to.                                      *)
LEMMA AgentKeepsInv == IInv /\ AgentWrites => IInv'
<1> SUFFICES ASSUME IInv, AgentWrites PROVE IInv'
  OBVIOUS
<1>1. PICK i \in Indices, f \in Files, good \in BOOLEAN, named \in BOOLEAN :
        /\ disk' = [disk EXCEPT ![f] =
             [kind |-> "object", skeleton |-> FALSE, agent |-> ledger[i].agent,
              registry |-> registry, lease |-> IF named THEN ledger[i].lease ELSE "none",
              ran |-> good, gate |-> good]]
        /\ delivered' = delivered \cup (IF good THEN {<<ledger[i].agent, registry>>} ELSE {})
  BY DEF AgentWrites
<1>2. UNCHANGED <<ledger, registry, pc, next, artifacts, reasons, result, standing>>
  BY DEF AgentWrites, collect
<1> DEFINE a == [kind |-> "object", skeleton |-> FALSE, agent |-> ledger[i].agent,
                 registry |-> registry, lease |-> IF named THEN ledger[i].lease ELSE "none",
                 ran |-> good, gate |-> good]
<1>3. a.ran /\ a.gate => <<a.agent, a.registry>> \in delivered'
  BY <1>1
<1>4. \A g \in Files : disk'[g] = disk[g] \/ disk'[g] = a
  BY <1>1 DEF IInv, DiskIsFiles
<1>5. delivered \subseteq delivered'
  BY <1>1
<1> HIDE DEF a
<1>6. DiskHonest'
  BY <1>3, <1>4, <1>5 DEF IInv, DiskHonest, Honest
<1>7. ArtifactsHonest' /\ EveryAgentDelivered'
  BY <1>2, <1>5 DEF IInv, ArtifactsHonest, Honest, EveryAgentDelivered, Indices, Path
<1>8. DiskIsFiles'
  BY <1>1 DEF IInv, DiskIsFiles
<1>9. \A j : ClaimIsMet(j)' <=> ClaimIsMet(j)
  BY <1>2 DEF ClaimIsMet, Path
<1>10. CheckedSoFar'
  BY <1>2, <1>9 DEF IInv, CheckedSoFar, Indices, Paths, Path
<1>11. QED
  BY <1>2, <1>6, <1>7, <1>8, <1>10
     DEF IInv, Placed, LedgerVetted, VerdictPending, Vetted, Indices, OwnershipConflict

(* An edit of the registry adds to what has stood.                         *)
LEMMA OthersKeepInv == IInv /\ (AgentCutShort \/ RegistryChanges) => IInv'
<1> SUFFICES ASSUME IInv, AgentCutShort \/ RegistryChanges PROVE IInv'
  OBVIOUS
<1>1. UNCHANGED <<ledger, pc, next, artifacts, reasons, result, delivered>>
  BY DEF AgentCutShort, RegistryChanges, collect
<1>2. DiskIsFiles' /\ \A g \in Files :
        disk'[g] = disk[g] \/ disk'[g] \in {Garbage, Undecodable}
  BY DEF IInv, DiskIsFiles, AgentCutShort, RegistryChanges
<1>3. ~Garbage.ran /\ ~Undecodable.ran
  BY DEF Garbage, Undecodable, NoObject
<1>4. DiskHonest'
  BY <1>1, <1>2, <1>3 DEF IInv, DiskHonest, Honest
<1>5. pc = "verifying" => standing \subseteq standing' /\ registry' \in standing'
  BY DEF AgentCutShort, RegistryChanges, IInv, CheckedSoFar
<1>6. pc = "verifying" => \A i : ClaimIsMet(i) => ClaimIsMet(i)'
  BY <1>1, <1>5 DEF ClaimIsMet, Path
<1>7. CheckedSoFar'
  BY <1>1, <1>5, <1>6 DEF IInv, CheckedSoFar, Indices, Paths, Path
<1>8. QED
  BY <1>1, <1>2, <1>4, <1>7
     DEF IInv, Placed, ArtifactsHonest, Honest, LedgerVetted, VerdictPending,
         EveryAgentDelivered, Vetted, Path, Indices, OwnershipConflict

LEMMA StutterKeepsInv == IInv /\ UNCHANGED vars => IInv'
  BY DEF vars, collect, history, IInv, DiskIsFiles, Placed, DiskHonest, ArtifactsHonest,
         Honest, LedgerVetted, VerdictPending, CheckedSoFar, ClaimIsMet, EveryAgentDelivered,
         Vetted, Path, Paths, Indices, OwnershipConflict

LEMMA NextKeepsInv == IInv /\ [Next]_vars => IInv'
  BY BindKeepsInv, HandoffKeepsInv, SkeletonKeepsInv, BeginKeepsInv, ReadKeepsInv,
     CollectedKeepsInv, ClaimKeepsInv, VerdictKeepsInv, AgentKeepsInv, OthersKeepInv,
     StutterKeepsInv DEF Next, Collector

LEMMA Invariance == Spec => []IInv
<1>1. Init => IInv
  BY InitInv
<1>2. IInv /\ [Next]_vars => IInv'
  BY NextKeepsInv
<1>3. QED
  BY <1>1, <1>2, PTL DEF Spec

-----------------------------------------------------------------------------

(* A wave whose evidence passed has, for every claim, evidence its own     *)
(* agent delivered (collect_and_verify, _verify_collected_claim), however  *)
(* writes, reads, handoffs and edits of the registry interleave.           *)
THEOREM Delivered == Spec => []EveryAgentDelivered
<1>1. IInv => EveryAgentDelivered
  BY DEF IInv
<1>2. QED
  BY <1>1, Invariance, PTL

(* No two agents of a dispatch in use own overlapping paths                *)
(* (SwarmDispatch.validate, _paths_overlap), whatever those paths are.     *)
THEOREM OwnersAreDisjoint == Spec => []OwnershipDisjoint
<1>1. IInv => OwnershipDisjoint
  BY VettedIsDisjoint DEF IInv, LedgerVetted, OwnershipDisjoint
<1>2. QED
  BY <1>1, Invariance, PTL

(* Evidence that passes answers to a registry that stood while it was being*)
(* verified (adapter.py:138-156, 341-372), however long it lay before, and *)
(* so all of it to one where nobody edits the registry in that time.       *)
THEOREM PassedUnderStandingRegistry == Spec => AnswersToAStandingRegistry
<1> DEFINE Passing == result # "passed" /\ result' = "passed"
           OfItsTime == \A p \in DOMAIN artifacts' :
                          artifacts'[p].registry \in standing \ Damaged
<1>1. IInv /\ [Next]_vars => [Passing => OfItsTime]_vars
  <2> SUFFICES ASSUME IInv, Next, Passing PROVE OfItsTime
    BY DEF vars, collect
  <2>1. Verdict /\ ~reasons
    BY DEF Next, Collector, Bind, BeginHandoff, WriteSkeleton, WriteFails, BeginCollect,
           ReadEvidence, EvidenceIsRead, CollectMapping, BeginVerify, VerifyClaim, Verdict,
           Raises, Ends, AgentWrites, AgentCutShort, RegistryChanges, collect
  <2>2. pc = "verifying" /\ next > Len(ledger) /\ artifacts' = artifacts
    BY <2>1 DEF Verdict, Ends
  <2>3. DOMAIN artifacts \subseteq Paths /\ \A i \in Indices : ClaimIsMet(i)
    BY <2>1, <2>2, AllClaimsAreMet
  <2>4. QED
    BY <2>2, <2>3 DEF Paths, ClaimIsMet
<1>2. QED
  BY <1>1, Invariance, PTL DEF Spec, AnswersToAStandingRegistry

=============================================================================
