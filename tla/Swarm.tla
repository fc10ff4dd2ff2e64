---------------------------------- MODULE Swarm ----------------------------------
(***************************************************************************)
(* ruflo/adapter.py: a SwarmDispatch ledger, the skeletons it writes and   *)
(* the evidence it collects (with handoff_swarm of cursor/contract.py).    *)
(*                                                                         *)
(* The dispatcher writes, reads and verifies one file per claim, one after *)
(* another.  The agents of the ledger write evidence files meanwhile, and  *)
(* the prompt stack registry, whose digest every artifact is bound to, may *)
(* be edited, and edited back, between any two of those steps.             *)
(***************************************************************************)
EXTENDS Naturals, Sequences, SequencesExt

CONSTANTS
  Ledgers,     \* the dispatches that may be bound: sequences of claims
  Agents, Leases, Files,
  MaxParallel, \* max_parallel_agents
  Registries,  \* what the prompt-stack registry may hold
  Damaged,     \* those from which no prompt can be assembled
  MaxWrites,   \* bound: what the agents write
  MaxEdits     \* bound: how often the registry is edited

(* A claim names its evidence file by a path string; the same file has     *)
(* several spellings.  `sound` stands for the checks on the claim alone:   *)
(* its ids, wave, lease date, stacks and the place of its evidence.        *)
Claims ==
  [agent: Agents, lease: Leases, file: Files, spelling: {"plain", "doubled"},
   owned: SUBSET Seq(STRING), sound: BOOLEAN]

ASSUME SwarmAssumption ==
  /\ MaxParallel \in 1 .. 8
  /\ Damaged \subseteq Registries
  /\ MaxWrites \in Nat /\ MaxEdits \in Nat
  /\ Ledgers \subseteq Seq(Claims)

(* What a file holds: nothing, no JSON object, no text, or an artifact     *)
(* bound to the prompt of an agent under what the registry held.           *)
Artifacts ==
  [kind: {"object"}, skeleton: BOOLEAN, agent: Agents, registry: Registries,
   lease: Leases \cup {"none"}, ran: BOOLEAN, gate: BOOLEAN]

NoObject(k) ==
  [kind |-> k, skeleton |-> FALSE, agent |-> "none", registry |-> "none",
   lease |-> "none", ran |-> FALSE, gate |-> FALSE]

Absent == NoObject("absent")
Garbage == NoObject("garbage")
Undecodable == NoObject("undecodable")

(* Mutant: whatever a file holds is taken for an artifact.                 *)
Object_AnyFile(content) == content.kind # "absent"

Object(content) == content.kind = "object"

VARIABLES
  ledger,
  disk,       \* content of each evidence file
  registry,   \* what the prompt-stack registry holds
  pc,         \* dispatcher: idle, writing skeletons, reading or verifying
  next,       \* the claim it works on
  artifacts,  \* path -> artifact, as collected so far or last accepted
  reasons,    \* there is a reason to reject
  result,     \* of the last collect: passed, rejected or raised
  delivered,  \* history: the agents that wrote passing evidence, and under what
  standing,   \* history: what the registry held since verifying began
  writes, edits \* how much was written and edited

collect == <<pc, next, artifacts, reasons, result>>
history == <<delivered, writes, edits>>
vars == <<ledger, disk, registry, collect, standing, history>>

Path(c) == <<c.file, c.spelling>>

Indices == 1 .. Len(ledger)

Paths == {Path(ledger[i]) : i \in Indices}

NoArtifacts == [p \in {} |-> Absent]

Init ==
  /\ ledger \in Ledgers
  /\ disk = [f \in Files |-> Absent]
  /\ registry \in Registries
  /\ pc = "idle"
  /\ next = 1
  /\ artifacts = NoArtifacts
  /\ reasons = FALSE
  /\ result = "none"
  /\ delivered = {}
  /\ standing = {}
  /\ writes = 0 /\ edits = 0

-----------------------------------------------------------------------------
(* SwarmDispatch.validate                                                  *)

(* Mutant: a directory and a file below it do not overlap.                 *)
PathsOverlap_Equal(p, q) == p = q

PathsOverlap(p, q) == IsPrefix(p, q) \/ IsPrefix(q, p)

OverlapsInside(c) == \E p, q \in c.owned : p # q /\ PathsOverlap(p, q)

(* Claim i against the owners recorded before it.                          *)
OwnershipConflict(i) ==
  \E j \in 1 .. i - 1 : \E p \in ledger[i].owned, q \in ledger[j].owned :
    PathsOverlap(p, q) /\ ledger[i].agent # ledger[j].agent

(* What validate asks of the ledger alone.                                 *)
Vetted ==
  /\ Len(ledger) \in 1 .. MaxParallel
  /\ \A i \in Indices :
       /\ ledger[i].sound
       /\ \A j \in 1 .. i - 1 : ledger[i].agent # ledger[j].agent
       /\ \A j \in 1 .. i - 1 : ledger[i].lease # ledger[j].lease
       /\ ledger[i].owned # {} /\ ~OverlapsInside(ledger[i])
       /\ ~OwnershipConflict(i)

(* It assembles the prompt of every claim, too.                            *)
Assembles == registry \notin Damaged

validate == Vetted /\ Assembles

-----------------------------------------------------------------------------
(* collect_and_verify                                                      *)

(* Mutants: the prompt digest is not compared, or without the registry's.  *)
PromptMatches_AnyAgent(c, a) == a.registry = registry
PromptMatches_AnyRegistry(c, a) == a.agent = c.agent

(* The assembled prompt holds the agent id and the registry's digest.      *)
PromptMatches(c, a) == a.agent = c.agent /\ a.registry = registry

(* Identity is compared only where the artifact records a swarm_claim.     *)
Verified(c, a) ==
  /\ ~a.skeleton
  /\ a.ran
  /\ PromptMatches(c, a)
  /\ a.lease \in {"none", c.lease}
  /\ a.gate

(* DOMAIN found is the key set of the mapping.                             *)
KeysWrong(found) ==
  \/ \E i, j \in Indices : i # j /\ Path(ledger[i]) = Path(ledger[j])
  \/ ~(DOMAIN found \subseteq Paths)

-----------------------------------------------------------------------------

(* A new ledger is bound, as for another attempt at the wave.              *)
Bind ==
  /\ pc = "idle"
  /\ ledger' \in Ledgers
  /\ artifacts' = NoArtifacts
  /\ result' = "none"
  /\ UNCHANGED <<disk, registry, pc, next, reasons, standing, history>>

(* handoff_swarm with a write_root: write_evidence_skeletons.              *)
BeginHandoff ==
  /\ pc = "idle" /\ validate
  /\ pc' = "writing" /\ next' = 1
  /\ UNCHANGED <<ledger, disk, registry, artifacts, reasons, result, standing, history>>

(* The skeleton replaces whatever the file holds.                          *)
WriteSkeleton ==
  /\ pc = "writing" /\ Assembles
  /\ LET c == ledger[next] IN
       disk' = [disk EXCEPT ![c.file] =
         [kind |-> "object", skeleton |-> TRUE, agent |-> c.agent, registry |-> registry,
          lease |-> c.lease, ran |-> FALSE, gate |-> FALSE]]
  /\ IF next = Len(ledger) THEN pc' = "idle" /\ next' = 1
                           ELSE pc' = "writing" /\ next' = next + 1
  /\ UNCHANGED <<ledger, registry, artifacts, reasons, result, standing, history>>

(* An OSError, or a registry that assembles no prompt, leaves the first    *)
(* skeletons written and no more.                                          *)
WriteFails ==
  /\ pc = "writing"
  /\ pc' = "idle" /\ next' = 1
  /\ UNCHANGED <<ledger, disk, registry, artifacts, reasons, result, standing, history>>

Ends(found, r) ==
  /\ pc' = "idle" /\ next' = 1 /\ reasons' = FALSE
  /\ artifacts' = found /\ result' = r
  /\ standing' = {}

(* A rejected ledger raises SwarmDispatchError; a PromptStackError while   *)
(* verifying and a UnicodeDecodeError while reading go to the caller, too. *)
Raises == Ends(NoArtifacts, "raised")

(* collect_and_verify_dir                                                  *)
BeginCollect ==
  /\ pc = "idle"
  /\ IF validate
       THEN /\ pc' = "reading" /\ next' = 1 /\ reasons' = FALSE
            /\ artifacts' = NoArtifacts /\ result' = "none"
            /\ UNCHANGED standing
       ELSE Raises
  /\ UNCHANGED <<ledger, disk, registry, history>>

With(found, p, a) == [q \in DOMAIN found \cup {p} |-> IF q = p THEN a ELSE found[q]]

ReadEvidence ==
  /\ pc = "reading" /\ next <= Len(ledger)
  /\ LET c == ledger[next]  content == disk[c.file] IN
       IF content = Undecodable THEN Raises
       ELSE /\ artifacts' = IF Object(content) THEN With(artifacts, Path(c), content)
                                               ELSE artifacts
            /\ reasons' = (reasons \/ content = Garbage)
            /\ next' = next + 1
            /\ UNCHANGED <<pc, result, standing>>
  /\ UNCHANGED <<ledger, disk, registry, history>>

(* collect_and_verify validates the ledger once more.                      *)
BeginVerify(found, denied) ==
  IF validate
    THEN /\ pc' = "verifying" /\ next' = 1
         /\ reasons' = (denied \/ KeysWrong(found))
         /\ artifacts' = found /\ result' = "none"
         /\ standing' = {registry}
    ELSE Raises

EvidenceIsRead ==
  /\ pc = "reading" /\ next > Len(ledger)
  /\ BeginVerify(artifacts, reasons)
  /\ UNCHANGED <<ledger, disk, registry, history>>

(* The provider hands the machine a mapping it read from the files itself, *)
(* under any of the paths and perhaps a foreign one.                       *)
CollectMapping ==
  /\ pc = "idle"
  /\ \E keys \in SUBSET (Paths \cup {<<"foreign", "plain">>}) :
       LET Holds(p) == disk[IF p[1] \in Files THEN p[1] ELSE ledger[1].file] IN
       /\ \A p \in keys : Object(Holds(p))
       /\ BeginVerify([p \in keys |-> Holds(p)], FALSE)
  /\ UNCHANGED <<ledger, disk, registry, history>>

(* _verify_collected_claim assembles the prompt its artifact should answer *)
(* to from the registry as it is now.                                      *)
VerifyClaim ==
  /\ pc = "verifying" /\ next <= Len(ledger)
  /\ LET c == ledger[next]  there == Path(c) \in DOMAIN artifacts IN
       IF there /\ ~Assembles THEN Raises
       ELSE /\ reasons' = (reasons \/ ~there \/ ~Verified(c, artifacts[Path(c)]))
            /\ next' = next + 1
            /\ UNCHANGED <<pc, artifacts, result, standing>>
  /\ UNCHANGED <<ledger, disk, registry, history>>

Verdict ==
  /\ pc = "verifying" /\ next > Len(ledger)
  /\ IF reasons THEN Ends(NoArtifacts, "rejected") ELSE Ends(artifacts, "passed")
  /\ UNCHANGED <<ledger, disk, registry, history>>

(* An agent writes evidence of its own run, good or bad, with or without a *)
(* swarm_claim, into its file or another; or its write is cut short.       *)
AgentWrites ==
  /\ Assembles
  /\ \E i \in Indices, f \in Files, good, named \in BOOLEAN :
       LET c == ledger[i]
           a == [kind |-> "object", skeleton |-> FALSE, agent |-> c.agent,
                 registry |-> registry, lease |-> IF named THEN c.lease ELSE "none",
                 ran |-> good, gate |-> good]
       IN /\ disk' = [disk EXCEPT ![f] = a]
          /\ delivered' =
               delivered \cup (IF good THEN {<<c.agent, registry>>} ELSE {})
  /\ writes < MaxWrites /\ writes' = writes + 1
  /\ UNCHANGED <<ledger, registry, collect, standing, edits>>

AgentCutShort ==
  /\ writes < MaxWrites /\ writes' = writes + 1
  /\ \E f \in Files, left \in {Garbage, Undecodable} : disk' = [disk EXCEPT ![f] = left]
  /\ UNCHANGED <<ledger, registry, collect, delivered, standing, edits>>

RegistryChanges ==
  /\ registry' \in Registries \ {registry}
  /\ standing' = IF pc = "verifying" THEN standing \cup {registry'} ELSE standing
  /\ edits < MaxEdits /\ edits' = edits + 1
  /\ UNCHANGED <<ledger, disk, collect, delivered, writes>>

Collector ==
  \/ BeginCollect \/ ReadEvidence \/ EvidenceIsRead \/ CollectMapping
  \/ VerifyClaim \/ Verdict

Next ==
  \/ Bind \/ BeginHandoff \/ WriteSkeleton \/ WriteFails \/ Collector
  \/ AgentWrites \/ AgentCutShort \/ RegistryChanges

Spec == Init /\ [][Next]_vars

-----------------------------------------------------------------------------
(* Properties                                                              *)

(* The ledger in hand, the files and the collect in progress.              *)
TypeOK ==
  /\ ledger \in Ledgers
  /\ disk \in [Files -> Artifacts \cup {Absent, Garbage, Undecodable}]
  /\ registry \in Registries
  /\ pc \in {"idle", "writing", "reading", "verifying"}
  /\ next \in 1 .. Len(ledger) + 1
  /\ \A p \in DOMAIN artifacts : artifacts[p] \in Artifacts
  /\ reasons \in BOOLEAN
  /\ result \in {"none", "passed", "rejected", "raised"}
  /\ delivered \subseteq (Agents \X Registries)
  /\ standing \subseteq Registries
  /\ writes \in 0 .. MaxWrites /\ edits \in 0 .. MaxEdits

(* "The wave passes only when every claim has exactly one collected        *)
(* artifact" (RUFLO_BOUNDARY.md): each was written by the claim's own      *)
(* agent, in a run whose gate passed, never by the dispatcher; skeletons,  *)
(* half-written files and evidence lost to a repeated handoff do not pass, *)
(* nor does evidence that names the lease of an earlier attempt.           *)
EveryAgentDelivered ==
  result = "passed" =>
    \A i \in Indices :
      LET c == ledger[i]  a == artifacts[Path(c)] IN
      /\ Path(c) \in DOMAIN artifacts
      /\ a.agent = c.agent /\ a.lease \in {"none", c.lease}
      /\ <<c.agent, a.registry>> \in delivered

(* Every artifact that passes answers to a registry that stood while it was*)
(* being verified, not to the one it was written, read or handed under:    *)
(* where nobody edits the registry in that time, all answer to one.        *)
AnswersToAStandingRegistry ==
  [][ (result # "passed" /\ result' = "passed") =>
        \A p \in DOMAIN artifacts' :
          artifacts'[p].registry \in standing \ Damaged ]_vars

(* adapter.py:138-156: one verdict is passed on all the evidence, as if it *)
(* answered to the registry of one instant.                                *)
OneRegistry ==
  [][ (result # "passed" /\ result' = "passed") =>
        \A p, q \in DOMAIN artifacts' :
          artifacts'[p].registry = artifacts'[q].registry ]_vars

(* No two agents of a dispatch that is handed off or collected own a path, *)
(* a directory above it or a file below it.                                *)
OwnershipDisjoint ==
  (pc # "idle" \/ result = "passed") =>
    \A i, j \in Indices : i # j =>
      \A p \in ledger[i].owned, q \in ledger[j].owned :
        \A n \in 0 .. Len(q) : p # SubSeq(q, 1, n)

(* adapter.py:141: two claims of one wave with the same evidence path are  *)
(* denied, so that each claim has a file of its own.                       *)
EachClaimItsOwnFile ==
  result = "passed" =>
    \A i, j \in Indices : i # j => ledger[i].file # ledger[j].file

=============================================================================
