------------------------------- MODULE RunnerFSM -------------------------------
(***************************************************************************)
(* The control loop of runner/fsm.py: the RunnerFSM object, its driver     *)
(* run_until_terminal with the two callbacks it makes (swarm_provider and  *)
(* gate_provider), and the calls its owner makes on it between two runs.   *)
(*                                                                         *)
(* The program is one thread.  What interleaves is the driver with its     *)
(* callbacks, and the owner, who may catch an exception and call again.    *)
(* Owner and callbacks hold the object, and every method of it is public.  *)
(***************************************************************************)
EXTENDS Integers

CONSTANTS
  MaxWave,     \* max_wave: the last wave
  MaxPatch,    \* max_patch_attempts
  StepCap,     \* max_steps of run_until_terminal
  Agents,      \* agent names a wave yaml or a ledger may hold
  Faults,      \* exceptions that may escape: subset of FaultKinds
  OwnerCalls   \* the methods called by those who hold the machine, besides
               \* run_until_terminal and a callback's stop

FaultKinds == {"provider", "declaration", "collect"}

Methods == {"apply_gate", "stop", "transition", "record_patch", "unlock_next_wave"}

ASSUME ConstantsAssumption ==
  /\ MaxWave \in Nat
  /\ MaxPatch \in Nat
  /\ StepCap \in Nat
  /\ Faults \subseteq FaultKinds
  /\ OwnerCalls \subseteq Methods

(***************************************************************************)
(* The driver makes three steps before the first wave and seven for every  *)
(* attempt at a wave.  max_steps=256 leaves room for the 227 that eight    *)
(* waves of four attempts need.                                            *)
(***************************************************************************)
ASSUME StepCapAssumption ==
  3 + 7 * ((MaxWave + 1) * (MaxPatch + 1)) <= StepCap

Waves == 0 .. MaxWave

(* Patch clusters: wave w stands for "wave<w>", which the driver uses, and *)
(* -1 for "default", which a caller of apply_gate gets.                    *)
Clusters == -1 .. MaxWave

Terminal == {"HUMAN_REVIEW_REQUIRED", "EXIT", "COMPLETE", "STOPPED"}

Halt == {"HUMAN_REVIEW_REQUIRED", "STOPPED"}

States == Terminal \cup
  {"DISCOVER", "BASELINE", "PLAN", "WAVE_READY", "PARALLEL_DISPATCH",
   "EXECUTION", "COLLECT", "VERIFY", "ADVERSARIAL_VERIFY", "EVIDENCE",
   "WAVE_GATE", "NEXT_WAVE", "PATCH_LOOP"}

Transitions ==
  [s \in States |->
    CASE s = "DISCOVER"           -> Halt \cup {"BASELINE"}
      [] s = "BASELINE"           -> Halt \cup {"PLAN"}
      [] s = "PLAN"               -> Halt \cup {"WAVE_READY"}
      [] s = "WAVE_READY"         -> Halt \cup {"PARALLEL_DISPATCH"}
      [] s = "PARALLEL_DISPATCH"  -> Halt \cup {"EXECUTION"}
      [] s = "EXECUTION"          -> Halt \cup {"COLLECT"}
      [] s = "COLLECT"            -> Halt \cup {"VERIFY"}
      [] s = "VERIFY"             -> Halt \cup {"ADVERSARIAL_VERIFY"}
      [] s = "ADVERSARIAL_VERIFY" -> Halt \cup {"EVIDENCE"}
      [] s = "EVIDENCE"           -> Halt \cup {"WAVE_GATE"}
      [] s = "WAVE_GATE"          -> Halt \cup {"NEXT_WAVE", "PATCH_LOOP",
                                                "EXIT", "COMPLETE"}
      [] s = "NEXT_WAVE"          -> Halt \cup {"WAVE_READY", "COMPLETE"}
      [] s = "PATCH_LOOP"         -> Halt \cup {"PARALLEL_DISPATCH"}
      [] s \in Terminal           -> {}]

(* Mutants: a stopped machine may still be gated; a gate may be retried.   *)
AllowedTransitions_GateAfterStop ==
  [Transitions EXCEPT !["STOPPED"] = {"WAVE_GATE"}]
AllowedTransitions_RetryGate ==
  [Transitions EXCEPT !["WAVE_GATE"] = @ \cup {"WAVE_GATE"}]

AllowedTransitions == Transitions

(* The edge the driver takes by itself from a state that needs no gate.    *)
StraightEdge ==
  [s \in States |->
    CASE s = "DISCOVER"           -> "BASELINE"
      [] s = "BASELINE"           -> "PLAN"
      [] s = "PLAN"               -> "WAVE_READY"
      [] s = "WAVE_READY"         -> "PARALLEL_DISPATCH"
      [] s = "PARALLEL_DISPATCH"  -> "EXECUTION"
      [] s = "EXECUTION"          -> "COLLECT"
      [] s = "COLLECT"            -> "VERIFY"
      [] s = "VERIFY"             -> "ADVERSARIAL_VERIFY"
      [] s = "ADVERSARIAL_VERIFY" -> "EVIDENCE"
      [] s = "PATCH_LOOP"         -> "PARALLEL_DISPATCH"
      [] s = "NEXT_WAVE"          -> "WAVE_READY"
      [] OTHER                    -> "none"]

(* Mutant: the loop has no branch for PATCH_LOOP.                          *)
Straight_NoPatchBranch == [StraightEdge EXCEPT !["PATCH_LOOP"] = "none"]

Straight == StraightEdge

-----------------------------------------------------------------------------
(* Values handed to the machine                                            *)

(* A GateResult: the verdict, the severities it counts above zero, and     *)
(* whether it is the FAIL evaluate_gate returns for a stop condition.      *)
(* Nothing makes `passed` agree with the counts.                           *)
Gates ==
  [passed: BOOLEAN, open: SUBSET {"CRITICAL", "HIGH"}, stop: {FALSE}] \cup
  [passed: {FALSE}, open: {{}}, stop: {TRUE}]

(* last_gate is None at first; no step tells that from a FAIL.             *)
NoGate == [passed |-> FALSE, open |-> {}, stop |-> FALSE]

(* A SwarmDispatch: the wave it names and the agent ids of its claims.     *)
NoLedger == [bound |-> FALSE, wave |-> -1, agents |-> {}]

Ledgers == {NoLedger} \cup [bound: {TRUE}, wave: Waves, agents: SUBSET Agents]

(* What _declared_agents finds: a list of unique names, an agents field    *)
(* that is no such list, or an exception out of load_wave.                 *)
Declarations ==
  [kind: {"list"}, names: SUBSET Agents] \cup
  [kind: {"unreadable"} \cup (Faults \cap {"declaration"}), names: {{}}]

(* How collect_and_verify of a ledger for the right wave and agents ends.  *)
CollectOutcomes == {"accepted", "rejected"} \cup (Faults \cap {"collect"})

NoCollect == [wave |-> -1, passed |-> FALSE]

-----------------------------------------------------------------------------

VARIABLES
  state, current_wave, patch_attempts, unlocked_waves, passed_waves,
  last_gate, last_collect,
  declaration,  \* the wave yaml's agents as the last apply_gate read them
  ledger,       \* the dispatch bound to the call in progress or last made
  at,           \* control: owner, driver loop, or one of its two callbacks
  steps,        \* the driver's local step counter
  error,        \* the exception that ended the last call, or "none"
  skipped       \* history: the waves that unlock_next_wave, called from
                \* outside, left behind without a gate

machine == <<state, current_wave, patch_attempts, unlocked_waves, passed_waves>>
gating  == <<last_gate, last_collect, declaration>>
driver  == <<at, steps, error>>
vars    == <<machine, gating, ledger, driver, skipped>>

(* What the steps to come and the invariants depend on: the results of a   *)
(* gate are written before they are read, the ledger is read by a gate.    *)
Remembered ==
  <<machine, driver, skipped, last_gate.stop, declaration.kind,
    IF at = "gate" THEN ledger ELSE NoLedger>>

is_terminal == state \in Terminal

Init ==
  /\ state = "DISCOVER"
  /\ current_wave = 0
  /\ patch_attempts = [c \in Clusters |-> 0]
  /\ unlocked_waves = {0}
  /\ passed_waves = {}
  /\ last_gate = NoGate
  /\ last_collect = NoCollect
  /\ declaration = [kind |-> "list", names |-> {}]
  /\ ledger = NoLedger
  /\ at = "owner"
  /\ steps = 0
  /\ error = "none"
  /\ skipped = {}

-----------------------------------------------------------------------------
(* Pieces of the handlers                                                  *)

transition(s) ==
  /\ s \in AllowedTransitions[state]
  /\ state' = s

WaveUnlocked(w) ==
  /\ w \in unlocked_waves
  /\ w > 0 => w - 1 \in passed_waves

(* The call in progress ends, by returning or by the exception e.          *)
Ends(e) ==
  /\ at' = "owner"
  /\ steps' = 0
  /\ error' = e

Returns == Ends("none")

(* apply_gate returns to whoever called it.                                *)
Resumes ==
  IF at = "gate" THEN at' = "loop" /\ UNCHANGED <<steps, error>> ELSE Returns

ListsAgents(d) == d.kind = "unreadable" \/ d.names # {}

LedgerMismatch(l, d) ==
  d.kind = "unreadable" \/ (d.names # {} /\ l.agents # d.names)

(* A ledger for other agents or another wave denies; so does no ledger for *)
(* a wave that lists agents.                                               *)
CollectDenied(w, l, d) ==
  IF l.bound THEN LedgerMismatch(l, d) \/ l.wave # w ELSE ListsAgents(d)

(* The collect result of wave w: "skipped" when nothing is owed, "raises"  *)
(* when an exception leaves apply_gate with the machine at WAVE_GATE.      *)
CollectResult(w, l, d, o) ==
  IF d.kind = "declaration" \/ (l.bound /\ ~CollectDenied(w, l, d) /\ o = "collect")
    THEN "raises"
    ELSE IF CollectDenied(w, l, d) THEN "rejected"
         ELSE IF l.bound THEN o ELSE "skipped"

(* Mutant: HIGH findings do not count.                                     *)
GatePassed_IgnoresHigh(g, r) ==
  g.passed /\ "CRITICAL" \notin g.open /\ r \in {"accepted", "skipped"}

GatePassed(g, r) == g.passed /\ g.open = {} /\ r \in {"accepted", "skipped"}

(* unlock_next_wave in state s.  The wave moves on before the transition   *)
(* that may be illegal: an exception out of it leaves the wave moved.      *)
unlock_next_wave(s) ==
  /\ IF current_wave >= MaxWave
       THEN /\ state' = IF "EXIT" \in AllowedTransitions[s] THEN "EXIT" ELSE s
            /\ UNCHANGED <<current_wave, unlocked_waves>>
       ELSE /\ current_wave' = current_wave + 1
            /\ unlocked_waves' = unlocked_waves \cup {current_wave + 1}
            /\ state' = IF "NEXT_WAVE" \in AllowedTransitions[s]
                          THEN "WAVE_READY" ELSE s
  /\ UNCHANGED patch_attempts

(* Mutants: the wave is not recorded; EXIT comes one wave early.           *)
RecordPass_NotRecorded ==
  unlock_next_wave("WAVE_GATE") /\ UNCHANGED passed_waves
RecordPass_ExitEarly ==
  /\ passed_waves' = passed_waves \cup {current_wave}
  /\ state' = IF current_wave + 1 >= MaxWave THEN "EXIT" ELSE "WAVE_READY"
  /\ current_wave' = IF current_wave + 1 >= MaxWave THEN current_wave ELSE current_wave + 1
  /\ unlocked_waves' = unlocked_waves \cup {current_wave'}
  /\ UNCHANGED patch_attempts

(* unlock_next_wave at WAVE_GATE, or EXIT after the last wave, with        *)
(* passed_waves.add before it.                                             *)
RecordPass ==
  /\ passed_waves' = passed_waves \cup {current_wave}
  /\ unlock_next_wave("WAVE_GATE")

(* Mutants: attempts have no bound; the bound is one too high.             *)
record_patch_Unbounded(s, c) ==
  /\ patch_attempts' = [patch_attempts EXCEPT ![c] = @ + 1]
  /\ state' = IF "PATCH_LOOP" \in AllowedTransitions[s] THEN "PATCH_LOOP" ELSE s
  /\ UNCHANGED <<current_wave, unlocked_waves, passed_waves>>
record_patch_OneTooMany(s, c) ==
  LET target == IF patch_attempts[c] > MaxPatch
                  THEN "HUMAN_REVIEW_REQUIRED" ELSE "PATCH_LOOP" IN
  /\ patch_attempts' = [patch_attempts EXCEPT ![c] = @ + 1]
  /\ state' = IF target \in AllowedTransitions[s] THEN target ELSE s
  /\ UNCHANGED <<current_wave, unlocked_waves, passed_waves>>

(* record_patch of cluster c in state s: the attempt is counted before the *)
(* transition that may be illegal.                                         *)
record_patch(s, c) ==
  LET target == IF patch_attempts[c] + 1 > MaxPatch
                  THEN "HUMAN_REVIEW_REQUIRED" ELSE "PATCH_LOOP" IN
  /\ patch_attempts' = [patch_attempts EXCEPT ![c] = @ + 1]
  /\ state' = IF target \in AllowedTransitions[s] THEN target ELSE s
  /\ UNCHANGED <<current_wave, unlocked_waves, passed_waves>>

(* apply_gate(g, cluster c, ledger l).  last_gate and last_collect are set *)
(* before the transition to WAVE_GATE may raise.                           *)
apply_gate(g, l, c) ==
  /\ last_gate' = g
  /\ ledger' = l
  /\ UNCHANGED skipped
  /\ \/ /\ "WAVE_GATE" \notin AllowedTransitions[state]
        /\ last_collect' = NoCollect
        /\ Ends("illegal_transition")
        /\ UNCHANGED <<machine, declaration>>
     \/ /\ "WAVE_GATE" \in AllowedTransitions[state]
        /\ \E d \in Declarations, o \in CollectOutcomes :
             LET r == CollectResult(current_wave, l, d, o) IN
             /\ declaration' = d
             /\ last_collect' =
                  IF r \in {"accepted", "rejected"}
                    THEN [wave |-> current_wave, passed |-> r = "accepted"]
                    ELSE NoCollect
             /\ \/ /\ r = "raises"
                   /\ state' = "WAVE_GATE"
                   /\ Ends("collect")
                   /\ UNCHANGED <<current_wave, patch_attempts,
                                  unlocked_waves, passed_waves>>
                \/ r # "raises" /\ GatePassed(g, r) /\ RecordPass /\ Resumes
                \/ r # "raises" /\ ~GatePassed(g, r)
                   /\ record_patch("WAVE_GATE", c) /\ Resumes

(* stop: every state that is not terminal allows STOPPED.                  *)
stop ==
  /\ ~is_terminal
  /\ transition("STOPPED")
  /\ UNCHANGED <<current_wave, patch_attempts, unlocked_waves, passed_waves>>
  /\ UNCHANGED <<gating, ledger, driver, skipped>>

-----------------------------------------------------------------------------
(* The owner                                                               *)

run_until_terminal ==
  /\ at = "owner"
  /\ at' = "loop"
  /\ error' = "none"
  /\ UNCHANGED <<machine, gating, ledger, steps, skipped>>

OwnerGate ==
  /\ at = "owner" /\ "apply_gate" \in OwnerCalls
  /\ \E g \in Gates, l \in Ledgers, c \in Clusters : apply_gate(g, l, c)

OwnerStop == at = "owner" /\ "stop" \in OwnerCalls /\ stop

-----------------------------------------------------------------------------
(* The driver                                                              *)

LoopReturns ==
  /\ at = "loop" /\ is_terminal
  /\ Returns
  /\ UNCHANGED <<machine, gating, ledger, skipped>>

LoopTurns == at = "loop" /\ ~is_terminal

(* The assertion of the driver that fails on this turn, if one does: the   *)
(* step cap at the top of the loop, the wave check in the arms that need   *)
(* the wave unlocked.                                                      *)
Raised ==
  IF steps >= StepCap THEN "step_cap"
  ELSE IF state \in {"PLAN", "WAVE_READY"} /\ ~WaveUnlocked(current_wave)
         THEN "wave_skip"
         ELSE "none"

Advance ==
  /\ LoopTurns
  /\ Straight[state] # "none"
  /\ IF Raised # "none"
       THEN Ends(Raised) /\ UNCHANGED machine
       ELSE /\ transition(Straight[state])
            /\ steps' = steps + 1
            /\ UNCHANGED <<current_wave, patch_attempts, unlocked_waves,
                           passed_waves, at, error>>
  /\ UNCHANGED <<gating, ledger, skipped>>

(* At EVIDENCE the driver calls swarm_provider, then gate_provider.        *)
AskSwarm ==
  /\ LoopTurns
  /\ state = "EVIDENCE"
  /\ IF Raised # "none"
       THEN Ends(Raised) /\ UNCHANGED ledger
       ELSE /\ at' = "swarm"
            /\ ledger' = NoLedger
            /\ steps' = steps + 1
            /\ UNCHANGED error
  /\ UNCHANGED <<machine, gating, skipped>>

UnhandledState ==
  /\ LoopTurns
  /\ state # "EVIDENCE" /\ Straight[state] = "none"
  /\ Ends(IF Raised # "none" THEN Raised ELSE "unhandled_state")
  /\ UNCHANGED <<machine, gating, ledger, skipped>>

-----------------------------------------------------------------------------
(* The callbacks                                                           *)

SwarmReturns ==
  /\ at = "swarm"
  /\ \E l \in Ledgers : ledger' = l
  /\ at' = "gate"
  /\ UNCHANGED <<machine, gating, steps, error, skipped>>

GateReturns ==
  /\ at = "gate"
  /\ \E g \in Gates : apply_gate(g, ledger, current_wave)

ProviderRaises ==
  /\ at \in {"swarm", "gate"} /\ "provider" \in Faults
  /\ Ends("provider")
  /\ UNCHANGED <<machine, gating, ledger, skipped>>

ProviderStops == at \in {"swarm", "gate"} /\ stop

-----------------------------------------------------------------------------
(* The other methods, called on the object by the owner or by a callback   *)

(* What a call of method m leaves alone.  The exception of an illegal      *)
(* transition, which leaves the state as it was, goes to the caller: a     *)
(* callback may catch it, and ProviderRaises is the one that does not.     *)
Called(m) ==
  /\ at # "loop" /\ m \in OwnerCalls
  /\ IF at = "owner" /\ state' = state
       THEN Ends("illegal_transition") ELSE UNCHANGED driver
  /\ UNCHANGED <<gating, ledger>>

HolderTransition ==
  /\ \E s \in States :
       state' = IF s \in AllowedTransitions[state] THEN s ELSE state
  /\ UNCHANGED <<current_wave, patch_attempts, unlocked_waves, passed_waves, skipped>>
  /\ Called("transition")

(* A terminal machine counts on without end; MaxPatch + 1 stands for more. *)
HolderPatches ==
  /\ \E c \in Clusters :
       patch_attempts[c] <= MaxPatch /\ record_patch(state, c)
  /\ UNCHANGED skipped
  /\ Called("record_patch")

HolderUnlocks ==
  /\ unlock_next_wave(state)
  /\ skipped' = IF current_wave < MaxWave THEN skipped \cup {current_wave} ELSE skipped
  /\ UNCHANGED passed_waves
  /\ Called("unlock_next_wave")

-----------------------------------------------------------------------------

Driver == LoopReturns \/ Advance \/ AskSwarm \/ UnhandledState

Provider == SwarmReturns \/ GateReturns \/ ProviderRaises

Owner == run_until_terminal \/ OwnerGate \/ OwnerStop

Holder == ProviderStops \/ HolderTransition \/ HolderPatches \/ HolderUnlocks

Next == Driver \/ Provider \/ Owner \/ Holder

Spec == Init /\ [][Next]_vars

-----------------------------------------------------------------------------
(* Properties                                                              *)

(* The fields of the object and the locals of the driver have the values   *)
(* the code gives them.                                                    *)
TypeOK ==
  /\ state \in States
  /\ current_wave \in Waves
  /\ patch_attempts \in [Clusters -> 0 .. MaxPatch + 1]
  /\ unlocked_waves \in SUBSET Waves
  /\ passed_waves \in SUBSET Waves
  /\ last_gate \in Gates
  /\ last_collect \in [wave: Waves \cup {-1}, passed: BOOLEAN]
  /\ declaration \in Declarations
  /\ ledger \in Ledgers
  /\ at \in {"owner", "loop", "swarm", "gate"}
  /\ steps \in 0 .. StepCap
  /\ error \in {"none", "illegal_transition", "wave_skip", "step_cap",
                 "unhandled_state", "collect", "provider"}
  /\ skipped \in SUBSET Waves

(* The driver and apply_gate skip no wave, whatever the owner and the      *)
(* callbacks call and wherever an exception leaves the object: the waves   *)
(* before current_wave are recorded, each of them, but for those an outside*)
(* unlock_next_wave left behind; the unlocked ones reach just to it; the   *)
(* last wave is recorded only with EXIT.                                   *)
WavesInOrder ==
  /\ unlocked_waves = 0 .. current_wave
  /\ passed_waves \cup skipped =
       IF MaxWave \in passed_waves THEN Waves ELSE 0 .. current_wave - 1
  /\ passed_waves \cap skipped = {}
  /\ MaxWave \in passed_waves => state = "EXIT" /\ current_wave = MaxWave

(* docs/TRUST_MODEL.md:16 has it that a wave skip is blocked.              *)
NoWaveSkipped == \A w \in passed_waves : 0 .. w \subseteq passed_waves

(* A cluster whose patch attempts are used up has brought the machine to   *)
(* an end: no way out of record_patch, wherever it is called and though it *)
(* counts before it may raise, leaves a spent cluster on a live machine.   *)
BudgetSpentMeansReview ==
  (\E c \in Clusters : patch_attempts[c] > MaxPatch) => is_terminal

(* The step cap ("an infinite control loop is a bug") never ends a run,    *)
(* however the callbacks move the machine about, and the wave-skip check   *)
(* only one whose last wave was left behind from outside.                  *)
ControlAssertionsHold ==
  /\ error # "step_cap"
  /\ error = "wave_skip" => skipped # {}

(* A wave is recorded only by a clean PASS for it: no CRITICAL, no HIGH,   *)
(* and the swarm the wave's yaml names collected, for this wave, from a    *)
(* ledger of exactly those agents.                                         *)
RecordedOnlyWhenEarned ==
  [][ passed_waves' # passed_waves =>
        /\ passed_waves' = passed_waves \cup {current_wave}
        /\ last_gate'.passed /\ last_gate'.open = {} /\ ~last_gate'.stop
        /\ declaration'.kind = "list"
        /\ (declaration'.names # {} \/ ledger'.bound) =>
             /\ last_collect' = [wave |-> current_wave, passed |-> TRUE]
             /\ ledger'.wave = current_wave
        /\ declaration'.names # {} => ledger'.agents = declaration'.names ]_vars

(* A machine that is stopped, finished or under review stays so: a gate    *)
(* result or a call that arrives after stop() records no wave.             *)
TerminalIsFinal == [][ is_terminal => UNCHANGED <<state, passed_waves>> ]_vars

(* An exception out of apply_gate (an unreadable wave yaml, a registry     *)
(* that changed under the collect) parks the machine at WAVE_GATE.  No     *)
(* verdict gets it out again: a gate result handed in is refused, the      *)
(* driver gives the machine back with an error, and what moves it (a stop, *)
(* a transition, record_patch, unlock_next_wave) records nothing.          *)
ParkedGateTakesNoVerdict ==
  [][ state = "WAVE_GATE" =>
        /\ UNCHANGED passed_waves
        /\ last_gate' # last_gate => UNCHANGED machine
        /\ at = "loop" => UNCHANGED machine /\ error' = "unhandled_state" ]_vars

(* A run ends, and only in a terminal state or with a callback's exception *)
(* ("terminating loop").  System checks it, under the fairness stated there.*)
RunReachesTerminal ==
  (at = "loop") ~> (at = "owner" /\ (is_terminal \/ error = "provider"))

(* CONSTITUTION.md:41: a stop condition is an "immediate halt ->           *)
(* HUMAN_REVIEW_REQUIRED"; stops.py:10 says the same of its exception.     *)
StopConditionHalts ==
  (last_gate.stop /\ error = "none") => is_terminal

(* decisions.md:810, fsm.py:272: an unreadable agents declaration denies   *)
(* the wave, it does not leave the gate undecided.                         *)
UnreadableDeclarationDenies ==
  declaration.kind # "list" => state # "WAVE_GATE"

(* The machine keeps the promise of WaveOrder.                             *)
Outcome ==
  CASE MaxWave \in passed_waves                   -> "complete"
    [] MaxWave \notin passed_waves /\ is_terminal -> "halted"
    [] OTHER                                      -> "open"

Order == INSTANCE WaveOrder WITH recorded <- passed_waves, outcome <- Outcome

ImplementsWaveOrder == Order!Spec

=============================================================================
