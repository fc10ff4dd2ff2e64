------------------------------ MODULE PromptStacks ------------------------------
(***************************************************************************)
(* runner/prompt_stacks.py: a prompt is assembled from the stack bodies    *)
(* and their registry, evidence records what it was assembled from, and    *)
(* the gate assembles it again to see whether the record still holds.      *)
(*                                                                         *)
(* One assembly reads the registry three times and every listed body once, *)
(* each a file of the working tree that somebody may be editing.  One      *)
(* action is one such read, with the checks made on what it returned.      *)
(***************************************************************************)
EXTENDS Naturals, Sequences, SequencesExt

CONSTANTS
  Ids, Files,   \* stack ids, and the files that hold the bodies
  Registries,   \* what index.json may hold,
  Committed,    \* and what it holds at first
  Held,         \* what each body file may hold
  Requests,     \* the handoffs made: stack ids, role and wave context
  MaxEdits,     \* bound: files written in one behaviour
  MaxAmends     \* bound: changes made to the recorded binding by hand

VALID_ROLES == {"commander", "red_team", "executor", "verifier", "planner"}

Contents == {"text", "text-crlf", "edited", "torn", "absent"}

(* An entry of "stacks"; an id, a file or a declared digest may be missing,*)
(* and its two lists may be something that cannot be iterated.             *)
Items ==
  [id: Ids \cup {"missing"}, file: Files \cup {"none"}, version: {"0.1.0", "0.1.1"},
   declared: Contents \cup {"none"}, depends_on: SUBSET Ids,
   required_roles: SUBSET (VALID_ROLES \cup {"stranger"}),
   unlisted: SUBSET {"depends_on", "required_roles"}]

(* What is read of a registry, a part at a time.                           *)
Parts == {"stacks", "role_taxonomy", "release_policy"}

(* A registry: the parts that are what they should be (none: it does not   *)
(* parse), its entries in order, the stacks each role may receive (none:   *)
(* the role has no envelope), its release policy.                          *)
IsRegistry(r) ==
  /\ r.readable \subseteq Parts
  /\ r.stacks \in Seq(Items)
  /\ r.envelope \in [VALID_ROLES -> SUBSET Ids]
  /\ r.policy \in {"current", "revised", "malformed"}

ASSUME PromptStacksAssumption ==
  /\ \A r \in Registries : IsRegistry(r)
  /\ Committed \subseteq Registries
  /\ Held \in [Files -> SUBSET Contents]
  /\ \A q \in Requests :
       /\ q.ids \in Seq(Ids)
       /\ q.role \in VALID_ROLES \cup {"stranger"}
       /\ q.wave_context \in {"none", "wave3", "wave4"}
  /\ "missing" \notin Ids /\ "none" \notin Files
  /\ MaxEdits \in Nat
  /\ MaxAmends \in Nat

(* canonical_stack_body: the line endings do not count.  A digest is told  *)
(* from another exactly when the canonical bodies differ, so the canonical *)
(* body stands for its digest, and a record of what is hashed for a digest *)
(* of several things.                                                      *)
canonical_stack_body(content) ==
  IF content = "text-crlf" THEN "text" ELSE content

-----------------------------------------------------------------------------

VARIABLES
  registry, bodies,  \* the tree: index.json, and the body files
  pc,                \* the next read of the call in progress
  kind,              \* "assemble" for a handoff, "validate" for the gate
  request,           \* what is asked for
  listed,            \* the registry load_stacks read
  next,              \* its entry to be loaded
  stacks,            \* what was loaded, per id
  result,            \* how the last call ended
  binding,           \* the record the evidence carries
  edits, amends,     \* bounds
  saw                \* history: the trees there have been since the call began

tree == <<registry, bodies>>
call == <<kind, request, listed, next, stacks>>
bounds == <<edits, amends>>
vars == <<tree, pc, call, result, binding, bounds, saw>>

Tree == [registry |-> registry, bodies |-> bodies]

Unloaded == [loaded |-> FALSE, version |-> "", body_sha256 |-> "",
             depends_on |-> {}, required_roles |-> {}]

NothingLoaded == [id \in Ids |-> Unloaded]

EmptyRegistry ==
  [readable |-> Parts, stacks |-> <<>>, envelope |-> [r \in VALID_ROLES |-> {}],
   policy |-> "current"]

NoRequest == [ids |-> <<>>, role |-> "stranger", wave_context |-> "none"]

(* What is recorded of a prompt: cursor_metadata with the digest of it all.*)
(* shape says what became of the record: whole, absent, short of a field,  *)
(* or with something in stack_ids or stale_on that cannot be iterated.     *)
Metadata(q, loaded, r) ==
  [role              |-> q.role,
   stack_ids         |-> q.ids,
   stack_versions    |-> [id \in Range(q.ids) |-> loaded[id].version],
   stack_digests     |-> [id \in Range(q.ids) |-> loaded[id].body_sha256],
   stack_releases    |-> [id \in Range(q.ids) |->
                            <<id, loaded[id].version, loaded[id].body_sha256>>],
   registry_sha256   |-> r,
   policy            |-> r.policy,
   wave_context      |-> q.wave_context]

AssembledPrompt(q, loaded, r) ==
  [shape |-> "whole", prompt |-> Metadata(q, loaded, r),
   assembled_prompt_digest |-> Metadata(q, loaded, r)]

NoBinding ==
  [AssembledPrompt(NoRequest, NothingLoaded, EmptyRegistry) EXCEPT !.shape = "absent"]

Init ==
  /\ registry \in Committed
  /\ bodies = [f \in Files |-> "text"]
  /\ pc = "idle"
  /\ kind = "assemble"
  /\ request = NoRequest
  /\ listed = EmptyRegistry
  /\ next = 1
  /\ stacks = NothingLoaded
  /\ result = "none"
  /\ binding = NoBinding
  /\ edits = 0
  /\ amends = 0
  /\ saw = {Tree}

-----------------------------------------------------------------------------
(* Whoever works in the tree writes one file, at any instant.              *)

Edited ==
  /\ edits < MaxEdits
  /\ edits' = edits + 1
  /\ saw' = IF pc = "idle" THEN saw ELSE saw \cup {Tree'}

EditRegistry ==
  /\ \E r \in Registries \ {registry} : registry' = r
  /\ UNCHANGED bodies
  /\ Edited
  /\ UNCHANGED <<pc, call, result, binding, amends>>

EditBody ==
  /\ \E f \in Files : \E c \in Held[f] \ {bodies[f]} :
       bodies' = [bodies EXCEPT ![f] = c]
  /\ UNCHANGED registry
  /\ Edited
  /\ UNCHANGED <<pc, call, result, binding, amends>>

-----------------------------------------------------------------------------
(* How a call ends, and its locals with it                                 *)

Ends(r) ==
  /\ pc' = "idle"
  /\ result' = r
  /\ listed' = EmptyRegistry
  /\ next' = 1
  /\ stacks' = NothingLoaded

(* PromptStackError: the handoff is refused; the gate gets a reason.       *)
Refused == Ends(IF kind' = "validate" THEN "invalid" ELSE "refused")

(* Any other exception leaves the call; the gate does not catch it either. *)
Escapes == Ends("escaped")

Proceeds(to) == pc' = to /\ result' = "none"

Keeps == UNCHANGED <<listed, next, stacks>>

-----------------------------------------------------------------------------
(* The two callers of assemble_prompt                                      *)

Starts(k, q) ==
  /\ pc = "idle"
  /\ kind' = k
  /\ request' = q
  /\ saw' = {Tree}
  /\ UNCHANGED <<tree, binding, bounds>>

Handoff ==
  \E q \in Requests :
    /\ Starts("assemble", q)
    /\ IF q.ids = <<>> \/ q.wave_context = "none" THEN Refused
         ELSE Proceeds("load_stacks") /\ Keeps

BindingRequest ==
  [ids |-> binding.prompt.stack_ids, role |-> binding.prompt.role,
   wave_context |-> binding.prompt.wave_context]

(* Mutant: the test is the wrong way round.                                *)
require_binding_wave_context_Inverted == binding.prompt.wave_context = "none"

require_binding_wave_context == binding.prompt.wave_context # "none"

(* validate_prompt_stack_binding, as far as the call of assemble_prompt.   *)
Validate ==
  /\ Starts("validate", BindingRequest)
  /\ CASE binding.shape \in {"absent", "short"} -> Refused
       [] binding.shape = "no_ids" -> Escapes
       [] binding.shape \in {"whole", "no_stale_on"} ->
            IF require_binding_wave_context /\ binding.prompt.stack_ids # <<>>
              THEN Proceeds("load_stacks") /\ Keeps ELSE Refused

-----------------------------------------------------------------------------
(* assemble_prompt                                                         *)

ReadsOn ==
  UNCHANGED <<tree, kind, request, binding, bounds, saw>>

(* load_stacks reads the registry.                                         *)
LoadRegistry ==
  /\ pc = "load_stacks"
  /\ ReadsOn
  /\ IF "stacks" \in registry.readable
       THEN listed' = registry /\ Proceeds("find_body") /\ UNCHANGED <<next, stacks>>
       ELSE Escapes

Item == listed.stacks[next]

(* An entry that names no file names the directory of them all, which      *)
(* exists and cannot be read.                                              *)
BodyOf(held, item) == IF item.file = "none" THEN "torn" ELSE held[item.file]

(* Mutant: whether the file exists is not asked.                           *)
Findable_NotAsked(item) == item.id # "missing"

Findable(item) == item.id # "missing" /\ BodyOf(bodies, item) # "absent"

(* path.exists(), or the end of the list.                                  *)
FindBody ==
  /\ pc = "find_body"
  /\ ReadsOn
  /\ IF next > Len(listed.stacks) THEN Proceeds("envelope") /\ Keeps
       ELSE IF Findable(Item) THEN Proceeds("read_body") /\ Keeps
            ELSE Refused

enforce_declared_body_digest(declared, actual) == declared \in {"none", actual}

(* Mutant: roles nobody has are loaded like any other.                     *)
KnownRoles_Any(item) == TRUE

KnownRoles(item) == item.required_roles \subseteq VALID_ROLES

(* The roles are gone through, and when they are known the dependencies.   *)
IterationRaises(item) ==
  \/ "required_roles" \in item.unlisted
  \/ "depends_on" \in item.unlisted /\ KnownRoles(item)

(* The body is read; a later entry for the same id replaces an earlier one.*)
ReadBody ==
  /\ pc = "read_body"
  /\ ReadsOn
  /\ LET content  == BodyOf(bodies, Item)
         digest   == canonical_stack_body(content)
         declared == enforce_declared_body_digest(Item.declared, digest) IN
       IF content \in {"absent", "torn"} \/ (declared /\ IterationRaises(Item))
         THEN Escapes
         ELSE IF declared /\ KnownRoles(Item)
                THEN /\ stacks' = [stacks EXCEPT ![Item.id] =
                           [loaded         |-> TRUE,
                            version        |-> Item.version,
                            body_sha256    |-> digest,
                            depends_on     |-> Item.depends_on,
                            required_roles |-> Item.required_roles]]
                     /\ next' = next + 1
                     /\ Proceeds("find_body")
                     /\ UNCHANGED listed
                ELSE Refused

(* Mutant: dependencies may come later.                                    *)
Composable_AnyOrder(allowed) ==
  /\ IsInjective(request.ids)
  /\ \A i \in DOMAIN request.ids :
       LET id == request.ids[i] IN
         /\ stacks[id].loaded
         /\ id \in allowed /\ request.role \in stacks[id].required_roles
         /\ stacks[id].depends_on \subseteq Range(request.ids)

(* The loop over the requested ids: duplicate, unknown, not for this role, *)
(* or before one of its dependencies.                                      *)
Composable(allowed) ==
  /\ IsInjective(request.ids)
  /\ \A i \in DOMAIN request.ids :
       LET id == request.ids[i] IN
         /\ stacks[id].loaded
         /\ id \in allowed /\ request.role \in stacks[id].required_roles
         /\ stacks[id].depends_on \subseteq {request.ids[j] : j \in 1 .. i}

(* role_allowed_stacks reads the registry again.                           *)
ReadEnvelope ==
  /\ pc = "envelope"
  /\ ReadsOn
  /\ IF request.role \notin VALID_ROLES THEN Refused
       ELSE IF "role_taxonomy" \notin registry.readable THEN Escapes
            ELSE LET allowed == registry.envelope[request.role] IN
                   IF allowed # {} /\ Composable(allowed)
                     THEN Proceeds("policy") /\ Keeps ELSE Refused

(* The comparisons validate_prompt_stack_binding makes.                    *)
Matches(assembled) ==
  /\ binding.prompt.stack_versions = assembled.prompt.stack_versions
  /\ binding.prompt.stack_digests = assembled.prompt.stack_digests
  /\ binding.prompt.stack_releases = assembled.prompt.stack_releases
  /\ binding.prompt.registry_sha256 = assembled.prompt.registry_sha256
  /\ binding.assembled_prompt_digest = assembled.assembled_prompt_digest
  /\ binding.prompt.policy = assembled.prompt.policy

(* The registry is read a third time, for its policy and its digest, and   *)
(* the call returns: a handoff records the binding, the gate compares it.  *)
Assemble ==
  /\ pc = "policy"
  /\ UNCHANGED <<tree, kind, request, bounds, saw>>
  /\ LET assembled == AssembledPrompt(request, stacks, registry) IN
       IF "release_policy" \notin registry.readable
         THEN Escapes /\ UNCHANGED binding
       ELSE IF registry.policy = "malformed"
         THEN Refused /\ UNCHANGED binding
       ELSE IF kind = "assemble"
         THEN Ends("assembled") /\ binding' = assembled
       ELSE /\ UNCHANGED binding
            /\ IF binding.shape = "no_stale_on" THEN Escapes
                 ELSE Ends(IF Matches(assembled) THEN "valid" ELSE "invalid")

Read == LoadRegistry \/ FindBody \/ ReadBody \/ ReadEnvelope \/ Assemble

-----------------------------------------------------------------------------
(* What a request means, for a tree that stands still                      *)

(* The digest of the entry for id, the last one there is, in registry r.   *)
Entry(r, id) ==
  CHOOSE item \in ToSet(r.stacks) :
    \E i \in DOMAIN r.stacks :
      /\ r.stacks[i] = item /\ item.id = id
      /\ \A j \in DOMAIN r.stacks : r.stacks[j].id = id => j <= i

Lists(r, id) == \E item \in ToSet(r.stacks) : item.id = id

(* Every listed body is there, is readable, and is the declared one.       *)
Loads(t) ==
  /\ "stacks" \in t.registry.readable
  /\ \A item \in ToSet(t.registry.stacks) :
       LET content == BodyOf(t.bodies, item) IN
       /\ item.id \in Ids /\ item.unlisted = {}
       /\ content \notin {"absent", "torn"}
       /\ item.declared # "none" => item.declared = canonical_stack_body(content)
       /\ item.required_roles \subseteq VALID_ROLES

(* The registry gives role the stacks ids, in an order in which every one  *)
(* comes after what it depends on.                                         *)
Permits(r, ids, role) ==
  /\ role \in VALID_ROLES
  /\ Range(ids) \subseteq r.envelope[role]
  /\ \A id \in Range(ids) : Lists(r, id) /\ role \in Entry(r, id).required_roles

Ordered(r, ids) ==
  /\ \A i, j \in DOMAIN ids : ids[i] = ids[j] => i = j
  /\ \A i \in DOMAIN ids, dep \in Ids :
       dep \in Entry(r, ids[i]).depends_on => \E j \in 1 .. i : ids[j] = dep

Composes(t, q) ==
  /\ q.ids # <<>> /\ q.wave_context # "none"
  /\ Loads(t)
  /\ Permits(t.registry, q.ids, q.role)
  /\ Ordered(t.registry, q.ids)
  /\ t.registry.readable = Parts /\ t.registry.policy # "malformed"

Composition(t, q) ==
  AssembledPrompt(q,
    [id \in Ids |->
       IF Lists(t.registry, id)
         THEN LET e == Entry(t.registry, id) IN
              [loaded |-> TRUE, version |-> e.version,
               body_sha256 |-> canonical_stack_body(BodyOf(t.bodies, e)),
               depends_on |-> e.depends_on, required_roles |-> e.required_roles]
         ELSE Unloaded],
    t.registry)

-----------------------------------------------------------------------------
(* Whoever keeps the evidence changes the recorded binding between calls:  *)
(* a field is lost, or brought to what the tree now says.                  *)

Amends(b) ==
  /\ pc = "idle" /\ binding.shape = "whole"
  /\ amends < MaxAmends
  /\ amends' = amends + 1
  /\ b # binding
  /\ binding' = b
  /\ result' = "none"
  /\ UNCHANGED <<tree, pc, call, edits, saw>>

LoseField ==
  \/ \E shape \in {"absent", "short", "no_ids", "no_stale_on"} :
       Amends([binding EXCEPT !.shape = shape])
  \/ Amends([binding EXCEPT !.prompt.wave_context = "none"])

RefreshField ==
  /\ pc = "idle"
  /\ Composes(Tree, BindingRequest)
  /\ LET now == Composition(Tree, BindingRequest) IN
       \/ \E field \in {"stack_versions", "stack_digests", "stack_releases",
                         "registry_sha256", "policy"} :
            Amends([binding EXCEPT !.prompt[field] = now.prompt[field]])
       \/ Amends([binding EXCEPT !.assembled_prompt_digest = now.assembled_prompt_digest])

-----------------------------------------------------------------------------

Next ==
  EditRegistry \/ EditBody \/ Handoff \/ Validate \/ Read \/ LoseField \/ RefreshField

Spec == Init /\ [][Next]_vars

-----------------------------------------------------------------------------
(* Properties                                                              *)

(* The fields of a call have the values the code gives them.               *)
TypeOK ==
  /\ registry \in Registries /\ listed \in Registries \cup {EmptyRegistry}
  /\ bodies \in [Files -> Contents]
  /\ pc \in {"idle", "load_stacks", "find_body", "read_body", "envelope", "policy"}
  /\ kind \in {"assemble", "validate"}
  /\ next \in 1 .. Len(listed.stacks) + 1
  /\ stacks \in [Ids -> [loaded: BOOLEAN, version: {"", "0.1.0", "0.1.1"},
                          body_sha256: {""} \cup Contents,
                          depends_on: SUBSET Ids,
                          required_roles: SUBSET VALID_ROLES]]
  /\ result \in {"none", "refused", "assembled", "invalid", "valid", "escaped"}
  /\ binding.shape \in {"whole", "absent", "short", "no_ids", "no_stale_on"}

Quiet == saw = {Tree}

(* In a tree nobody touched during the call the gate accepts a binding     *)
(* exactly when it is, field for field, what the tree composes to now: a   *)
(* binding whose handoff was raced, whose tree has moved on, or one field  *)
(* of which was refreshed by hand is refused, a change of line endings is  *)
(* no change, and a tree put back makes old evidence good again.           *)
AcceptedIffCurrent ==
  pc = "idle" /\ kind = "validate" /\ Quiet /\ result \in {"valid", "invalid"} =>
    (result = "valid" <=>
       /\ binding.shape = "whole"
       /\ Composes(Tree, request)
       /\ binding = Composition(Tree, request))

(* Whatever is written while a prompt is assembled, its stacks were all    *)
(* permitted by required_roles, listed, versioned and ordered by one and   *)
(* the same registry, that was the registry at some instant of the call,   *)
(* and each body was in the tree and the one that registry declared.       *)
StacksFromOneRegistry ==
  pc = "idle" /\ result = "assembled" =>
    \E t \in saw :
      /\ \A id \in Range(request.ids) : Lists(t.registry, id)
      /\ Ordered(t.registry, request.ids)
      /\ \A id \in Range(request.ids) :
           LET e == Entry(t.registry, id) IN
           /\ request.role \in e.required_roles
           /\ binding.prompt.stack_versions[id] = e.version
           /\ e.declared \in {"none", binding.prompt.stack_digests[id]}
           /\ \E u \in saw :
                canonical_stack_body(BodyOf(u.bodies, e)) = binding.prompt.stack_digests[id]

(* A registry all of whose parts are what the code takes them for.         *)
Shapely(r) ==
  /\ r.readable = Parts
  /\ \A i \in DOMAIN r.stacks : r.stacks[i].file # "none" /\ r.stacks[i].unlisted = {}

(* Only damage makes the call raise what nobody catches: a registry or an  *)
(* entry of it of the wrong shape, a file torn by a half-finished write, a *)
(* body removed between exists() and read_text(), or a record whose lists  *)
(* are none.  What a role, an order, a digest, a missing file or a stale   *)
(* record gives cause to is an error the gate reports.                     *)
EscapesOnlyOnDamage ==
  pc = "idle" /\ result = "escaped" =>
    \/ kind = "validate" /\ binding.shape \in {"no_ids", "no_stale_on"}
    \/ \E t \in saw : ~Shapely(t.registry) \/ \E f \in Files : t.bodies[f] = "torn"
    \/ \E t, u \in saw, f \in Files : t.bodies[f] = "absent" /\ u.bodies[f] # "absent"

(* docs/AGENTIC_PROMPT_STACKS.md: "The registry states which stacks each   *)
(* role may receive."  Of one registry this is not kept: the envelope may  *)
(* come from another one than required_roles.                              *)
RoleReceivesOnlyPermitted ==
  pc = "idle" /\ result = "assembled" =>
    \E t \in saw : Permits(t.registry, request.ids, request.role)

(* docs/AGENTIC_PROMPT_STACKS.md: the gate rejects a binding that does not *)
(* match the current registry; of a tree that moves, at no instant.        *)
AcceptedWasCurrentOnce ==
  pc = "idle" /\ result = "valid" =>
    \E t \in saw : Composes(t, request) /\ binding = Composition(t, request)

=============================================================================
