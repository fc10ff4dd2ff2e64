# uptm-runner: specification, model checking and proofs

The runner decides whether waves of a research programme may be recorded. Its
whole purpose is to deny: absence is never PASS, UNKNOWN denies, an agent's word
is not evidence. The modules here state what that amounts to, check it with TLC
on small instances and prove its safety with TLAPS for every value of the
constants. All line numbers are those of the repository.

Contents: 1 the system, 2 modules and code, 3 runs and bounds, 4 fairness,
5 proofs, 6 claims the code does not keep, 7 what is not modelled, 8 plan.

## 1. The system

One process, no threads. What makes it hard is who else acts: the operator who
writes the kill switch's stop file, the agents that write evidence files, the
people who edit, commit and re-deploy, the callbacks that hold the machine
while it runs, the data that arrives bar by bar, and whoever kills a process.

| component | state it keeps | operations | what makes it correct |
|---|---|---|---|
| control loop `runner/fsm.py` | state, current wave, recorded and unlocked waves, patch attempts, last gate and collect | `transition`, `apply_gate`, `record_patch`, `unlock_next_wave`, `stop`, `run_until_terminal` | waves in order, recorded only when earned, bounded patches, terminal is final |
| gate `runner/gates.py` (with `evidence.py`, `stops.py`, `verdict.py`) | none between calls; reads the stop file at six instants | `evaluate_gate` | no PASS over a held stop; FAIL exactly when something failed |
| kill switch `detectors/kill_switch.py` | the stop file (the operator's), the drill record | KS-P, KS-I1 to I4, KS-D0 to D6 | a record that counts is of a recent stop of a deployment like this one |
| validation capital `detectors/validation_capital.py`, scope `detectors/scope.py` | tranche in `capital-rules.json`, exit criteria in `waves/` | VC-P1, P2, VC-I1 to I6, VC-R1 to R3, SC-P1, SC-I1 to I3 | what passes is declared and within the tranche; omission never helps |
| swarm `ruflo/adapter.py`, hand-off `cursor/contract.py` | the ledger, the evidence directory | `validate`, `write_evidence_skeletons`, `collect_and_verify(_dir)` | collected only from what each agent delivered; disjoint ownership |
| prompt stacks `runner/prompt_stacks.py` | registry and bodies on disk, the binding in the evidence | `assemble_prompt`, `validate_prompt_stack_binding` | a prompt's parts come from one registry; a record is accepted exactly when it still holds |
| file binding `runner/binding.py`, wave names `runner/wave_names.py`, syntax gate `runner/syntax_gate.py` | the working tree | `verify_declared_files`, `index_disagreements`, `artifact_disagreements`, `ambiguous_numbers`, `unambiguous_to`, `run` | a report is exact about every file nobody touched |
| mutation gate `runner/mutation_gate.py` | the working tree | `applied`, `run_mutation_gate` | ok means every sentinel is load-bearing; a report is about the tree that was found |
| enforcement evidence `cli.py`, `enforcement.py`, `provenance.py`, `staleness.py` | artifacts under `evidence/` | `enforcement-evidence`, `staleness`, `expiry_status` | an ok artifact names, for each file nobody moved, what its routes ran on; CURRENT says of each digested file what a run would say now |
| swing detector `runner/swing.py` | none: a function of the bars | `detect`, `known_at`, `label` | nothing is known early, nothing is withdrawn |
| continuous contract `runner/roll.py` | none: a function of series, schedule, moment | `build_continuous`, `rewrites_history`, `may_use` | an admitted join never moves a bar it emitted |
| fabrication `detectors/fabrication.py` | the packs of a run and of a series | PL-A1 to PL-M2, MD-P1 to MD-I7 | an honest run is not accused, and a PASS over numbers is true |
| pattern contract, data sources, cross-repository verdicts `runner/cross_repository.py` | records people revise | `ladder_errors`, `state_errors`, `may_run_detector`, `resolve_cross_repository` | a record is free of errors only when it has earned what it claims; disagreement is not ALLOW |

Interaction. `run_until_terminal` walks the states of one wave and asks two
callbacks: `swarm_provider` for a ledger and its artifacts, `gate_provider` for
a `GateResult`, which tests and the CLI make with `evaluate_gate`. `apply_gate`
then collects the ledger; the collector assembles the expected prompt of each
claim from the registry on disk and calls `evaluate_gate` again on every
artifact. `evaluate_gate` folds the verdicts of all detectors with
`worst_verdict`. The enforcement command drives the same gate down its bypass
routes; the mutation gate breaks the same modules and runs the tests.

Hard behaviour, and where it is listed: `PROJECT.json` has one entry per hazard
at the line where it bites. They are mostly of four kinds: a file another actor
writes is read more than once (gate, collector, evidence command); a record made
once is judged later, against a world that moved (drill, artifact, prompt
binding); a process or a call ends halfway (mutation gate, `apply_gate`,
hand-off); and long chains of legal calls (control loop, amended evidence).

## 2. Modules and code

`map` in `PROJECT.json` gives the lines of every definition.

**RunnerFSM** is the `RunnerFSM` object, the driver and whoever holds the
object. `state`, `current_wave`, `patch_attempts`, `unlocked_waves`,
`passed_waves`, `last_gate`, `last_collect` are its fields; `declaration` and
`ledger` are the wave yaml and the dispatch of the current attempt; `at`, `steps`
and `error` are the driver's position, its counter and the exception that left
it. `Driver` has a disjunct per arm of the loop, `Provider` is what the two
callbacks may answer or raise, `Owner` is a caller who catches the exception and
goes on calling. They hold one object whose methods are public, so `Holder` lets
the owner, and a callback in the middle of a run, call `stop`, `transition`,
`record_patch` and `unlock_next_wave` on it in any state. The last two change a
field before the transition that may raise, and the field stays changed.
`apply_gate` is one action that includes the collection, the record and the next
transition, as in the code, and leaves the machine at `WAVE_GATE` when something
raises after the first transition; the owner may call it, too. `skipped` is
history: the waves an outside `unlock_next_wave` left behind. **WaveOrder** is
the abstract promise: waves are recorded one by one in order, a wave passed over
from outside is never recorded, and completion and halting are final.
`ImplementsWaveOrder` is the refinement.

**Verdicts** has `worst_verdict`, `resolve`, and `WhenDeclared`, the pattern of
every check that needs a preregistered parameter. **GateEvaluation** is
`evaluate_gate` step by step: the refusals, the reasons, then each of the six
looks at the stop file as an action of its own, with `OperatorWrites` between any
two. A stop file that is no text raises out of three of those looks
(`ReadRaises`, verdict `raised`), because `_read_state` catches `OSError` only.
The packs other detectors judge contribute any verdict they can; which one is the
subject of the modules below. The history variables `seen` and `held` record what
the file held during the evaluation.

**System** composes the two. A run has one of two callers: the `evaluate-gate`
command, which evaluates one artifact after another (`Command`), or the control
loop, which asks for a gate whenever it stands at `at = "gate"` (`GateIsAsked`),
lets `GateEvaluation` compute it while the operator writes, and applies what it
returned (`GateIsApplied`) or ends with its exception (`GateHasRaised`). The loop
is `INSTANCE RunnerFSM` on System's own variables, so its actions are used as they
are; only the disjunct in which the gate may answer anything is replaced by the
gate itself.

**KillSwitchDrill** is a deployment over days: drills, redeployments, moved stop
files, attestations, and `DrillVerdict`, the fold of KS-D0 to KS-D6 on what is
recorded. Whoever writes a date may write one that lies `Ahead`, and a record or
a declaration may lack parts. `deployed` and `last` are history: when the
deployment last changed, and the last drill as it was performed.

**ValidationCapital** is an agent amending one piece of evidence field by field
(`Redeclare`, `Carry`, `AmendPack`) and submitting it after every change or once
more (`Resubmit`), while the Founder changes the tranche, which may lack a part
or name an unknown term, and wave files change (`SetRules`). `Judge` is the fold
of all VC and SC checks; the LIVE half of the scope (`LiveSides`) is judged with
the capital half. Numbers are `none`, a small amount or NaN.

**PnlLedger** is a trading run, its pack and the five PL checks. While the desk
trades (`Fill`) and the mark moves (`MarkMoves`), `position` and `profit` are
kept the way a desk keeps them, move by move; `Report` writes the pack, and
`Alter` changes one number of it, makes it NaN, or loses or repeats a fill. What
may be left out includes what the code takes for zero or for no orders. The
checks see the pack only. **MarketData** is a feed that may go wrong
(`LoseSession`, `Misprint`, `OutsideCalendar`, `Replay`), its pack, and the eight
MD checks; a bar may be infinite or no number, coverage and interval are
declared freely, the calendar may be unknown, the block length zero or less.
`faults` is history. **Fabrication** puts the two side by side, as the detector
has them. **Sums** is the sum of a list, with which both halves add up.

**Swarm** is a ledger, the evidence files and what the registry holds. The
hand-off writes one skeleton per action, the collector reads one file per action
and then verifies one claim per action (`VerifyClaim`), each against the registry
as it is then; agents write whole, cut-short or undecodable files in between, the
registry is edited, edited back or damaged, and a hand-off may be repeated, fail
midway, or be followed by a ledger of new leases.

**PromptStacks** is one call of `assemble_prompt` at a time, made by a hand-off
or by the gate that validates a recorded binding. Each of its reads is an action
(`LoadRegistry`, `FindBody`, `ReadBody`, `ReadEnvelope`, `Assemble`), with
`EditRegistry` and `EditBody` between any two; `LoseField` and `RefreshField` are
what happens to the record between calls. A digest is a record of what was
hashed. Registries, entries and records come in wrong shapes, too: a part that is
no object, an entry without a file, a list that cannot be iterated. An exception
that is no `PromptStackError` ends the call as `escaped`. `Composes` and
`Composition` say, independently of the reads, what a request means for a tree
that stands still.

**TreeReaders** has the other readers of the working tree, one running at a
time: each lists its paths when the code does, reads one file per action, and
reports or raises. `TreeEdit` comes between any two; `touched` remembers which
files it changed. A content is what the reader tells apart (absent, unreadable,
not UTF-8, not parsing, one over which a parser dies of another exception, no
object, or an object with its fields).

**Claims** has the records people write by hand: a research contract, a data
source, and what two repositories have decided. `ReviseContract`,
`ReviseSource` and `Speak` change one field, and the functions that judge a
record are translated as they are; a term may be absent, marked `UNDEFINED`,
blank (null or empty) or text. **Documents** puts PromptStacks, TreeReaders
and Claims side by side.

**MutationGate** has one action per read, write and run of the suite:
`ReadTarget`, `WriteMutation`, `RunSuite`, `RestoreTarget`. Each may raise, a
write may tear the text (`Torn`: `Broken`, which turns the suite red, or `Cut`,
which does not), the process may be killed anywhere, and the gate is then run on
what is left. Which tests catch which case, and which anchors are stale, is
chosen in `Init`; `Hides` says which mutation or tear takes whose anchor away,
since some replacements contain their own.

**EnforcementEvidence** is the process (`Start` imports the code, `RevParse` and
`Status` are the git calls, `RunRoutes`, `ReadRules`, `Emit`) and the people
(`Edit`, `Commit`, `Tick`), who work while it runs. The process runs the code it
imported and reads rules and prompts when it uses them; `ReadRules` reads the
capital rules again, and the clock. `Undigested` are the files the routes read
and `_iter_dependency_paths` leaves out. `moved` is history: the files edited or
committed under the process. `staleness` and `expiry_status` are what a reader
computes later. A text is `sound`, `open`, `unearned` or absent, the outcomes the
artifact's verdict tells apart, and the capital rules' text sets a lifetime.

**Swing** and **Roll** are algorithms as operators: `detect`, `known_at`,
`label`; `build_continuous`, `rewrites_history`, `may_use`. **Series** drives
them by the arrival of bars: the detector reads the bars of a market, or the
continuous series of the moment, which is built anew on every bar as a live
system (and test R6) does. The properties compare their results on prefixes.

MC modules give constants that a configuration cannot write, and nothing else.

## 3. Runs and bounds

| run | instance | shows |
|---|---|---|
| `fsm_owner` | 2 waves, 1 patch, 1 agent, every exception, all five methods called by owner and callbacks; cap 31 | `WavesInOrder`, `BudgetSpentMeansReview`, `ControlAssertionsHold`, `RecordedOnlyWhenEarned`, `ParkedGateTakesNoVerdict`, refinement of WaveOrder |
| `system` | command: 9 flawed artifacts, 26 findings, a clean one with 4 packs, 5 contents of the stop file; loop: 1 wave, 1 patch, 3 artifacts, an operator who engages, clears and damages; fair | `PassIsEarned`, `HeldStopDenies`, `PassSawClear`, `FailIsDemonstrated`, `StoppedWaveStaysOpen`, `RunEnds` |
| `drill` | 4 days, cadence 1, dates up to 1 day ahead, 2 deployments, 2 stop paths | `PassMeansRecentStop`, `ChangeInvalidates` |
| `capital` | amounts 1 and 2 under every tranche and 4 incomplete ones, all fields and declarations, 5 LIVE sides | `PassMeansWithin`, `WithholdingNeverHelps` |
| `fabrication` | 2 fills, 2 prices, 1 move of the mark, 1 alteration or NaN, 12 sets left out; 6 sessions, 6 bar shapes of which 2 impossible and 2 not numbers, 5 instruments, 1 fault | `HonestNotAccused`, `PassMeansTrue`, `AccusedExactly`, `WithholdingOnlyDenies` |
| `swarm` | 2 agents, 3 ledgers (one sound, its successor of new leases, one nested), 3 registries of which one damaged, 2 edits, 2 writes | `EveryAgentDelivered`, `OwnershipDisjoint`, `AnswersToAStandingRegistry` |
| `documents` | 14 registries over 2 stacks, 2 edits and 1 amendment of the record; 7 paths, 3 of them wave files, 2 edits; 3 contracts, 2 sources, 2 revisions | `AcceptedIffCurrent`, `StacksFromOneRegistry`, `EscapesOnlyOnDamage`, `ReportsWhatStands`, `ClaimsAreEarned` |
| `mutation_gate` | 3 cases in 2 files, 2 tests with overlapping sentinels, a replacement that keeps its anchor, every fault | `OkMeansLoadBearing`, `OneMutationAtATime`, `StaleIsReported` |
| `enforcement` | 1 module, 1 rules file, 1 file read and not digested, 1 file that comes and goes, lifetimes 0 to 2, 2 instants, 2 edits | `HeadIsWhatRan`, `CurrentIsStillEarned`, `ValidIsInForce` |
| `series` | all feeds of 6 bars of 5 shapes, 4 definitions; 3 contracts, 4 bars of 2 prices, every calendar schedule, 4 joins | `CutsAgree`, `NothingRevised`, `EmittedBarsAreFinal`, `UsableWhenLastRollGaps` |
| `fsm_stop_condition` | 1 wave | violation of `StopConditionHalts` (section 6) |
| `capital_nan` | as `capital`, with NaN | violation of `PassMeansWithin` (section 6) |

Why the bounds are enough. In the control loop everything is per wave and per
cluster: two waves have a first, a next and a last one, and one to skip; one
patch has a budget that is used and one that is exceeded, and the proofs of
section 5 cover every other number; the cap is exactly 3 + 7 * waves * attempts,
so one superfluous step would show. The run has a VIEW that drops the results of
a gate, which are written before they are read. The gate looks at the stop file
six times and the operator may write between all of them; artifacts differ in
what one condition tells apart, and the findings include each disguise by id, by
severity and by hiding. The loop's three artifacts are one for each arm of
`apply_gate`; its second wave is left to `fsm_owner` and the refinement. Four
days with a cadence of one hold a drill, its last day, its first day too late,
the day a date ahead adds, and a redeployment between. Two amounts are below, at
and above one another. The VIEW of the capital run drops the last verdict, which
no step reads. Two fills and a position carried over can open, close and turn a
position, and one alteration is what `PassMeansTrue` is about: two that agree
with each other are a consistent lie, which a ledger alone cannot show. Six
sessions hold two disjoint blocks of two or three and a window before and after
them. Two claims are the least that can conflict, and the least between which a
registry can be edited. Two edits change what was read already and what will be
read next, or change something and change it back; the registries of the
documents run differ from the present one in one respect each (an envelope or a
role narrowed, a stack released or listed twice, a policy revised or malformed, a
file torn, a part, an entry or a list of the wrong shape), and the requests
include every refusal. A wave number carried by two files, `wave1.yaml` and
`wave01.yaml`, is where number and name part. Two revisions raise an axis and
withdraw its ground. Three cases with overlapping sentinels in two files let one
case vouch for another, in its own file and in a different one. The evidence run
has one file of each kind the code tells apart: imported once, read when used,
read and not digested, and not there before. Six bars are longer than two pivots
of reach one, with one swing measured against another; three contracts have a
first and a last roll that may differ.

Every property of a passing run has a mutant in `PROJECT.json`: a plausible bug
in one definition with which TLC finds that property violated. Mutants stand
beside the definition they change. The series, fabrication, documents and
enforcement runs do not check for deadlock: a feed ends, a run is reported, and
edits are bounded. All others do.

## 4. Fairness

Only `System` states fairness, and only of code that is running.
`System!FairSystemSpec` has weak fairness of `Calling`, the loop with its
callbacks and the gates it asks for and applies, and of `GateIsEvaluated`: both
are straight-line code, and a callback that has been called returns or raises
(one that blocks for ever would block the program, which the code does not guard
against). Nobody has to start a run or to call the object. The operator may write
for ever, at any instant, and need not. `RunEnds` says that a run is over all the
same, in a terminal state or with the exception of a callback, because an
evaluation looks at the file a fixed number of times and the patch budget bounds
the retries. The mutation gate has no fairness: its suite runs code that was
broken on purpose, with no timeout (mutation_gate.py:934-941), and need not end.
The other specifications are about safety.

## 5. Proofs

| module | proved | inductive invariant, and why it is needed |
|---|---|---|
| `RunnerFSM_proofs` | `TypeOK`, `WavesInOrder`, `BudgetSpentMeansReview`, `ControlAssertionsHold`, `RecordedOnlyWhenEarned`, `TerminalIsFinal`, `ParkedGateTakesNoVerdict`, `ImplementsWaveOrder` | `StepsAccounted` counts the steps taken against the waves left behind and the patches spent, which is what bounds them by the cap however callbacks move the machine |
| `System_proofs`, one evaluation | `TypeOK`, `PassIsEarned`, `HeldStopDenies`, `PassSawClear`, `FailIsDemonstrated` | `Screened` (detectors run only on what was not refused, and reasons are in the fold), `ClearWasRead` (KS-I3 passes only on CLEAR and reaches the fold), `HeldIsEngaged` (history agrees with the file) |
| `System_proofs`, both callers | `HeldStopDenies` and `PassIsEarned` under both callers, `LoopImplementsRunnerFSM` (the loop's variables behave as `RunnerFSM!Spec`), `StoppedWaveStaysOpen` | the gate's invariant again: every step of the system is one of the gate or leaves its variables alone, save those that end the call, which return them to what they were before it |
| `Detectors_proofs`, drills | `PassMeansRecentStop`, `ChangeInvalidates` | `RecordIsHistory`: the record is the last drill as it was performed, but for what was left out and a date at most `Ahead` of it |
| `Detectors_proofs`, capital | `PassMeansWithin`, `WithholdingNeverHelps`, `ProfitIsNotJudged` | only that packs and tranches have their shapes: every submission is judged from nothing, so the argument is about the checks (`AgainstPass`, `CapitalPass`, `ScopePass`) |
| `Swarm_proofs` | `EveryAgentDelivered`, `OwnershipDisjoint`, `AnswersToAStandingRegistry` | `DiskHonest` and `ArtifactsHonest` (content that claims a passed run was delivered by the agent it names, on disk and as collected), `LedgerVetted` (a ledger in use was validated), `CheckedSoFar` (each claim verified so far is met, by an artifact of a registry that stood when it was), `VerdictPending` |
| `MutationGate_proofs` | `OneMutationAtATime`, `OkMeansLoadBearing`, `StaleIsReported` | `CaseHeld` (the anchor was there, and what will be restored is the text that was found), `BaselineGreen` (so what is red now, the case made red), `ResultsSoFar` (a result per case before the one in hand, each what the case deserves alone), `AtHome` (a mutation is found only in its own file) |
| `EnforcementEvidence_proofs` | `HeadIsWhatRan`, `CurrentIsStillEarned`, `ValidIsInForce` | `CodeIsTrees`, `HeadIsTrees`, `RanIsTrees`, `ReadIsTrees`: the process's copy of each file agrees with the tree except where that file is in `moved`; `Written` and `Dated` carry this over to the artifact |
| `Documents_proofs`, prompts | `AcceptedIffCurrent`, `StacksFromOneRegistry`, `EscapesOnlyOnDamage` | `CallStands`: at each read, what the call holds is what the registry it loaded says of the ids it has been through, and every tree it saw is one the prompt may have come from; `BindingTyped` keeps the shape of a record through any amendment |
| `Documents_proofs`, readers | `ReportsWhatStands` | `BindingSoFar`, `ArtifactsSoFar`, `IndexSoFar`, `NumbersSoFar`, `SyntaxSoFar`: of the paths a reader has been through, those nobody touched since have their findings in the report, and no finding of such a path is false |
| `Documents_proofs`, records | `ClaimsAreEarned` | only the records' shapes, as every record is judged anew; the argument is `Staircase` (no axis rises over an unfinished one exactly when the axes stand on a staircase) |
| `Market_proofs`, ledger | `HonestNotAccused`, `PassMeansTrue`, `WithholdingOnlyDenies` | `LedgerInv`: the books kept move by move agree with the sums over the pack's fills (`Accounts`), an unaltered report tells them (`Tells`), and an altered one is one change away from such a pack (`OneChange`) |
| `Market_proofs`, feed | `AccusedExactly` | `MarketInv`: what went wrong can be told from the bars, the gaps and the snapshot (`FaultsShow`), which is all the checks see |
| `Market_proofs`, series | `CutsAgree`, `NothingRevised`, `EmittedBarsAreFinal`, `UsableWhenLastRollGaps` | `SeriesInv`: the swings are those of the bars there are, and what was built last is the continuous series of its moment |

The arguments of the last two modules. A reader of the tree is exact about a
file because it reads each once and a touched file is left out of the claim:
nothing is said of two files together. A binding is accepted exactly when it is
current because, in a tree that stands still, each read of a call is determined
by the registry and the bodies, so that the call ends in `Composition`. A ledger
tells the truth because a sum over fills changes by one term when one fill is
added, lost, doubled or edited (`AppendedFill`, `LostFill`, `FigureChanged`), and
a report wrong by more than the tolerance in one number disagrees with one of the
checks that recompute it from the others. Swings are final because a detection
goes through its candidates in order and splits where they split (`Parted`,
`CutIsPart`): the candidates of a longer series that are confirmed by the cut are
those of the series cut there, and the label of a swing looks at earlier ones
only. A bar of a raw splice or a forward join does not move because the rolls
that reach it lie behind it (`SameBars`); under a back adjustment the oldest bar
moves exactly by the gap of the last roll (`OldestBarMoves`), and the measurement
before and after that roll sees it (`MeasuredWhereItGaps`), so that `may_use`
admits no such join where that roll has a gap. A series of bars is accused
exactly of what befell it because the variance the code takes from the sums of
squares is the deviation from the mean, multiplied out (`VarianceIsDeviation`);
and because two disjoint equal runs begin with two equal blocks, the later of
which is at least a block behind the first of its kind, the only one MD-I7 keeps
(`RepetitionIsSeen`).

Assumptions: the constants have their types (each module's named assumption),
and the step cap leaves room for the longest run (`StepCapAssumption`, which
`max_steps=256` satisfies for eight waves and three patches: 3 + 7 * 8 * 4 =
227). `PassIsEarned` is about limits of zero, the values in `rules.json`, and is
proved from that hypothesis. `StoppedWaveStaysOpen` is proved for owners who do
not call `apply_gate` themselves (`"apply_gate" \notin OwnerCalls`): an owner who
hands the machine a `GateResult` of his own asks no gate.
`PassMeansWithin` is proved from `WithNaN = FALSE`, the hypothesis under which
its run checks it, and `ClaimsAreEarned` from `"null" \notin Texts`; without them
section 6 has the counterexamples. The others need no hypothesis; what they do
not claim is said in their statements (`skipped` in `WavesInOrder`, `moved` in
the evidence module, `nans` in `PassMeansTrue`, `Culpable` in `AccusedExactly`).
The named assumptions of the later modules say no more than types: records have
their fields (`ClaimsAssumption`), a path is written with contents a file can
have (`TreeAssumption`), the word a registry uses for a missing entry is no id
(`PromptStacksAssumption`), which bars are impossible and which are no numbers
(`MisprintsShow`), the variance window is positive (`MarketAssumption`), prices
are positive and contracts are in a list without repetition (`RollAssumption`).
A theorem `Spec => []Inv` rests on `Init => IInv`, one lemma per action (or
group of actions alike) that the action keeps `IInv`, and PTL.
`TypeOK`, `TerminalIsFinal` and `ProfitIsNotJudged` are proved and not part of a
run: the first two serve the other proofs and the refinement, and the third is
about pairs of packs that differ in one number only.

Induction over data. What `detect`, `build_continuous`, a sum or a list of
findings computes is an induction. The library's induction theorems that take an
operator cannot be used here, but `NatLessThanWellFounded` can: `Least` follows
from it, `Counting` (a set of numbers with 0 and the successor of each member has
them all) from that, and a fact about a recursive function is the statement that
the set of lengths at which it holds is closed. The operators that are proved
about are therefore recursive functions; the library's folds take an operator
and could not be unfolded.

Model-checked only: `RunEnds`, because liveness is out of this prover's reach, as
is `ENABLED`; the run `system` checks it. Every safety property of a passing run
is also the statement of a theorem.

## 6. Claims the code does not keep

Two are runs of the project, with a finding in `PROJECT.json`.

* `fsm_stop_condition`: CONSTITUTION.md:41 calls a stop condition an immediate
  halt to HUMAN_REVIEW_REQUIRED. `evaluate_gate` turns it into an ordinary FAIL
  (gates.py:262), and `apply_gate` answers with a patch attempt.
* `capital_nan`: `_number` (validation_capital.py:90) accepts NaN, which is not
  above any tranche nor below any floor, so a pack that measured nothing passes.

The others were met while modelling. Each is stated as a property at the end of
its module, with a configuration on which `tlc` shows the counterexample. Where
the instance of a passing run suffices, the row names that run's configuration
and the invariant to put in the place of its properties. The module to run is
the one the configuration is named after, or its MC module where there is one.

| configuration | claim | what happens |
|---|---|---|
| `RunnerFSM_declaration.cfg` | an unreadable agents declaration denies (decisions.md:810) | `load_wave` raises out of `apply_gate` and the machine stays at WAVE_GATE |
| `RunnerFSM_owner.cfg`, `NoWaveSkipped` | a wave skip is blocked (docs/TRUST_MODEL.md:16) | `unlock_next_wave`, called from outside, moves the wave before it transitions; the loop then records later waves, and only skipping the last one trips the check |
| `System_bypass.cfg` | engaging the switch is not recorded as misconduct (UPTM-003:204-209) | engaged after KS-I3 read CLEAR, it is reported as `gate_bypass_attempt` |
| `System.cfg`, `ChangeIsNotMisconduct` (a PROPERTY) | the switch working is no violation by an agent (kill_switch.py:180) | an operator who writes between the two digests has KS-I4 report `safety_control_weakening` |
| `KillSwitchDrill.cfg`, `CadenceBoundsAge` | a drill older than the cadence does not count (kill_switch.py:229-235) | a date in the future is taken, and the record lives that much longer |
| `KillSwitchDrill.cfg`, `AttestationCoversDeployment` | an attestation is not older than the deployment (kill_switch.py:342) | `changed_at` is optional, and without it nothing is compared |
| `KillSwitchDrill.cfg`, `NoChangeSinceDrill` | a change invalidates a drill at once (kill_switch.py:52-54) | after a change and a roll-back the old drill counts again |
| `Swarm_alias.cfg` | two claims never share an evidence file (adapter.py:141) | two spellings of one path are two strings |
| `Swarm.cfg`, `OneRegistry` (a PROPERTY) | one verdict is passed on all the evidence (adapter.py:138-156) | the registry is edited between two claims, and each answers to another |
| `MutationGate_crash.cfg` | a crash cannot leave a mutated tree (mutation_gate.py:26-28) | a kill runs no `finally` |
| `MutationGate.cfg`, `OkMeansTreeClean` | the same | a text cut short where nothing tests it stays, and the next gate is ok |
| `EnforcementEvidence_race.cfg` | the head names the commit the routes ran against (evidence-rule-a.md:83) | a commit between import and `read_head` is named instead |
| `EnforcementEvidence.cfg`, `CurrentIsEarned` | the dependencies are every file that can change what the routes conclude (staleness.py:33) | `constitution/rules.json`, `schemas/evidence.schema.json` and `waves/*.yaml` are read by the routes and not digested |
| `EnforcementEvidence.cfg`, `AdditionMakesStale` | a new module makes the artifact STALE (UPTM-007:86) | only recorded dependencies are compared |
| `ValidationCapital_wave.cfg` | absence is never PASS (UPTM-004:43) | an unreadable wave file contributes no criteria and VC-R1 passes |
| `Series.cfg`, `MeasuredAgainstEarlier` | amplitude is measured against an earlier swing (swing.py:156-157) | an outside bar's LOW is measured against its own HIGH |
| `Series.cfg`, `UsableNeverRewrites` (a PROPERTY) | a usable join does not rewrite history (roll.py:69-72) | an earlier roll has a gap, the last has none, and only the last is measured |
| `Fabrication.cfg`, `NaNIsCaught` | PnL is derived, never trusted (UPTM-002, section 4) | `reported_pnl` or `position_after` that is NaN differs from nothing (fabrication.py:258-260, 293) |
| `Fabrication.cfg`, `OmissionNeverHelps` | what is missing is UNKNOWN, never a default (fabrication.py:25-27) | `realized_pnl` left out is 0 (310), and PL-M1 passes |
| `Fabrication.cfg`, `OmissionNeverAccuses` | what is not there denies without accusing (fabrication.py:51) | without `gated_order_ids` every fill is an orphan (271) |
| `Fabrication.cfg`, `PricesAreFinite` | all four prices are finite and positive (UPTM-002:88) | infinity is positive, and no comparison finds fault with NaN (140) |
| `Fabrication.cfg`, `BlocksAreCompared` | a repeated block is accused (UPTM-002:108, MD-I7) | a block length of zero or less is too long for any series (207) |
| `Fabrication_convention.cfg` | an undeclared or unsupported parameter denies without accusing (fabrication.py:51) | PL-A3 answers UNKNOWN to an unsigned ledger, PL-A1 reads its sizes as signed quantities and answers FAIL |
| `PromptStacks_role.cfg` | a role receives only what the registry permits it (docs/AGENTIC_PROMPT_STACKS.md) | the envelope is read from a later registry than the stacks |
| `PromptStacks_race.cfg` | an accepted binding matches the current registry (docs/AGENTIC_PROMPT_STACKS.md) | edits between the reads make a match out of parts that were never in the tree together |
| `Documents.cfg`, `BindingHeldAtOnce` | CURRENT means every declared file matches the tree (binding.py:121) | one file changes after it was read and before the last one is |
| `Documents.cfg`, `IndexedWavesLoad` | an index entry with no file is a finding (wave_names.py:124) | `wave01.yaml` counts as wave 1, while `load_wave(1)` opens `wave1.yaml` |
| `Documents.cfg`, `OneFileSilencesNone` | every problem in the tree is reported (syntax_gate.py:202) | a parser dies of an exception nobody catches (an impossible date, a huge integer), and no file is reported |
| `Documents.cfg`, `RulesRestOnText` | rules cannot be defined while a term they use is not (pattern_contract.py:175) | a term that is null or empty is not the string `UNDEFINED` (134) |
| `Documents_null.cfg` | a source is connected when something proves it (data_sources.py:91) | evidence that is JSON's `null` is the text `None`, which is not empty |

The passing runs state what does hold: `HeadIsWhatRan` of every file nobody
moved, `AnswersToAStandingRegistry` of each artifact by itself,
`UsableWhenLastRollGaps`, `StacksFromOneRegistry` for everything but the
envelope, `HonestNotAccused` in the supported convention, and so on. More was
noticed that no document contradicts and that is part of the model:

* A finding declared CRITICAL that names a lower `true_severity` counts as the
  lower one, and `PassIsEarned` lets it through as the code does.
* A stop file that is not UTF-8 raises out of the gate, and an evidence file that
  is not raises out of the collector (kill_switch.py:73-77, adapter.py:166-167).
  The run ends with that exception (`GateHasRaised`, `Raises`).
* `index_disagreements`, `artifact_disagreements` and the syntax gate let an
  exception out when a file is not UTF-8, holds a document that is no object, or
  breaks a parser (stage `raised`). `ReportsWhatStands` speaks of reports that
  are returned.
* `assemble_prompt` lets an exception out over damage. `EscapesOnlyOnDamage`
  names the shapes that are modelled: a registry that does not parse or of which
  a part is no object, an entry without an id or a file, `depends_on` or
  `required_roles` that cannot be iterated, a `release_policy` that is no object,
  a body that is torn or goes during the call, and a record whose ids or
  `stale_on` are no list. A text that cannot be encoded and a path the system
  refuses are not among them.

## 7. What is not modelled

`PROJECT.json` lists every component. The texts of reasons, JSON layouts and
reports are left out throughout. The drill and evidence models count days and
instants instead of seconds; amounts, prices and quantities are integers, so
the rounding of floats does not appear. PL-A3 and PL-M1 cover it with 1e-9; PL-A1
compares with the declared tolerance alone, so that under a tolerance of zero an
honest run may be accused for its rounding, which `HonestNotAccused` does not
see. NaN and infinity do appear: in the capital pack, in the figures of a PnL
report and in bars. A NaN inside a fill reaches the checks as one in the mark or
in the position does, and is represented by these. Beyond that:

* `paths.py` is constants; the rules, schemas and wave files are data, and where
  a value matters it is a constant or a variable of the module that reads it.
* The bypass routes and the 37 mutations are data: `EnforcementEvidence` says
  what the command concludes from their outcomes, `MutationGate` quantifies over
  what tests may catch.
* The commands of `cli.py` other than `evaluate-gate` and
  `enforcement-evidence` call one function each and print its result.
* `qualify`, `parse` and `is_ambiguous` of `wave_names.py` format and parse one
  reference. The parsers `syntax_gate.py` calls are states of a content.
* The Null adapters refuse every call. Leases carry no clock, because the code
  never compares `lease_expires_at` with one.
* A callback that calls `apply_gate` or `run_until_terminal` on the machine that
  is calling it: the other methods are modelled in its hands.
* A pack without `reported_pnl`, `position_after` or an opening figure raises
  `KeyError` out of the detector, and a `variance_window` of zero
  `StatisticsError`: packs have these figures, and windows are positive.
* A rules file is written at once, because its reader cannot tell; writes of
  evidence, registry, bodies and mutated modules are cut short.

## 8. What is left

The components are modelled but for those of section 7. What could be added:

1. `System` evaluates any artifact of a small set; joining `ValidationCapital`
   and `PromptStacks` to it would replace the arbitrary verdicts of their packs
   by computed ones.
2. The readers of one tree at once: a binding check and a hand-off that run in
   two processes share no memory, so they interfere only through the edits of
   section 2, which are already there.
