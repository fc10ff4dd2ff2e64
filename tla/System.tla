--------------------------------- MODULE System ---------------------------------
(***************************************************************************)
(* The two callers of evaluate_gate and the operator of the kill switch:   *)
(* the evaluate-gate command of runner/cli.py calls it on one artifact     *)
(* after another, and the control loop of runner/fsm.py calls it through   *)
(* its gate_provider, once for every attempt at a wave.  The operator may  *)
(* write the stop file at any instant of either.                           *)
(*                                                                         *)
(* What RunnerFSM takes for any gate at all is here the one GateEvaluation *)
(* computes.                                                               *)
(***************************************************************************)
EXTENDS GateEvaluation

CONSTANTS
  LoopCalls,   \* the artifacts an attempt at a wave may leave behind
  LoopContents,  \* what the operator writes while the loop runs
  MaxWave, MaxPatch, StepCap, Agents, Faults, OwnerCalls

ASSUME SystemAssumption ==
  LoopCalls \subseteq Calls /\ LoopCalls # {} /\ LoopContents \subseteq Contents

(* What the evaluation's locals are while the loop asks for none.          *)
Idle == CHOOSE call \in LoopCalls : TRUE

VARIABLES
  caller,      \* who runs: command or loop
  state, current_wave, patch_attempts, unlocked_waves, passed_waves,
  last_gate, last_collect, declaration, ledger, at, steps, error,
  skipped

loop_vars ==
  <<state, current_wave, patch_attempts, unlocked_waves, passed_waves,
    last_gate, last_collect, declaration, ledger, at, steps, error,
    skipped>>

Loop == INSTANCE RunnerFSM

SystemInit ==
  /\ Init
  /\ Loop!Init
  /\ caller \in {"command", "loop"}
  /\ caller = "loop" => <<evidence, pack>> = Idle /\ stopFile \in LoopContents

-----------------------------------------------------------------------------

Command ==
  /\ caller = "command"
  /\ Begin \/ Evaluate
  /\ UNCHANGED <<caller, loop_vars>>

Operator ==
  /\ OperatorWrites
  /\ caller = "loop" => stopFile' \in LoopContents
  /\ UNCHANGED <<caller, loop_vars>>

LoopRuns ==
  /\ caller = "loop"
  /\ Loop!Driver \/ Loop!SwarmReturns
  /\ UNCHANGED <<caller, vars>>

(* The owner calls, or a provider calls the machine it was handed.         *)
LoopIsCalled ==
  /\ caller = "loop"
  /\ Loop!Owner \/ Loop!Holder
  /\ UNCHANGED <<caller, vars>>

(* gate_provider(fsm): it evaluates one artifact.                          *)
GateIsAsked ==
  /\ caller = "loop" /\ at = "gate" /\ verdict = "none"
  /\ Begin /\ <<evidence', pack'>> \in LoopCalls
  /\ UNCHANGED <<caller, loop_vars>>

GateIsEvaluated ==
  /\ caller = "loop" /\ Evaluate
  /\ UNCHANGED <<caller, loop_vars>>

(* A GateResult: what a refusal returns counts no finding.                 *)
Returned ==
  [passed |-> verdict = "PASS",
   open |-> {s \in {"CRITICAL", "HIGH"} :
               ~Refused(evidence) /\ count_findings(evidence.findings, s) > 0},
   stop |-> evidence.loads /\ Stops(evidence)]

(* The locals of the evaluation go with its frame.                         *)
Forget ==
  /\ evidence' = Idle[1] /\ pack' = Idle[2]
  /\ contributing' = {} /\ before' = "none" /\ outcomes' = {}
  /\ verdict' = "none" /\ bypass' = FALSE
  /\ seen' = {} /\ held' = FALSE

(* gate_provider returns, and the driver applies what it returned.         *)
GateIsApplied ==
  /\ caller = "loop" /\ at = "gate" /\ pc = "idle" /\ verdict \in Verdict
  /\ Loop!apply_gate(Returned, ledger, current_wave)
  /\ Forget
  /\ UNCHANGED <<caller, stopFile, writable, pc>>

(* The exception out of the gate goes through gate_provider and the driver *)
(* to the owner, who finds the machine at EVIDENCE.                        *)
GateHasRaised ==
  /\ caller = "loop" /\ at = "gate" /\ verdict = "raised"
  /\ Loop!ProviderRaises
  /\ Forget
  /\ UNCHANGED <<caller, stopFile, writable, pc>>

-----------------------------------------------------------------------------

Calling == LoopRuns \/ GateIsAsked \/ GateIsApplied \/ GateHasRaised

SystemNext == Command \/ Operator \/ LoopIsCalled \/ Calling \/ GateIsEvaluated

system_vars == <<caller, vars, loop_vars>>

SystemSpec == SystemInit /\ [][SystemNext]_system_vars

(* One thread runs the driver, its providers and the gate; the owner need  *)
(* not call, and the operator need do nothing.                             *)
FairSystemSpec ==
  /\ SystemSpec
  /\ WF_system_vars(Calling) /\ WF_system_vars(GateIsEvaluated)

-----------------------------------------------------------------------------
(* Properties                                                              *)

(* A stop engaged before the gate's verdict and left engaged keeps the wave*)
(* from being recorded, on the first attempt and on every retry; and what  *)
(* is recorded was PASS, with no finding against it.                       *)
StoppedWaveStaysOpen ==
  [][ passed_waves' # passed_waves =>
        /\ ~(pack.present /\ pack.path /\ held)
        /\ ~Refused(evidence) /\ ~GateReasons(evidence)
        /\ pack.present => "CLEAR" \in seen ]_system_vars

(* However the operator keeps writing while it looks, every gate the loop  *)
(* asks for returns or raises, and whatever gates say, the run ends, in a  *)
(* terminal state or with that exception.                                  *)
RunEnds == Loop!RunReachesTerminal

=============================================================================
