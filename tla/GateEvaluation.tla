----------------------------- MODULE GateEvaluation -----------------------------
(***************************************************************************)
(* runner/gates.py: one evidence artifact is evaluated to one verdict.     *)
(*                                                                         *)
(* The evaluation is sequential, but it reads the kill switch's stop file  *)
(* six times, at six instants, and the file belongs to an operator who may *)
(* write it at any of them.  Everything else is read once.                 *)
(***************************************************************************)
EXTENDS Naturals, FiniteSets, Verdicts

CONSTANTS
  CriticalMax, HighMax,  \* gate.critical_max and high_max of rules.json
  Calls,                 \* the artifacts, each with the kill_switch pack it carries
  Contents               \* what the stop file may hold

(***************************************************************************)
(* A finding: what its id announces, its severity, the true_severity it    *)
(* may carry, whether it names a hidden_as, and whether it is FIXED.       *)
(***************************************************************************)
Findings ==
  [id: {"V-CRIT", "V-HIGH", "plain"},
   severity: {"CRITICAL", "HIGH", "LOW", "unheard-of"},
   true_severity: {"none", "CRITICAL", "HIGH", "LOW"},
   hidden: BOOLEAN,
   fixed: BOOLEAN]

(***************************************************************************)
(* An artifact: whether it can be loaded, whether live_trading is False,   *)
(* whether the agent claims PASS, its probes, whether the remaining        *)
(* required structure is there, whether the tree matches the files it      *)
(* declares, its digests, and its findings.                                *)
(***************************************************************************)
AllEvidence ==
  [loads: BOOLEAN, live_false: BOOLEAN, claims_pass: BOOLEAN,
   probes: {"none", "skipped", "run"}, structured: BOOLEAN,
   binding: {"CURRENT", "STALE", "UNKNOWN"}, digests: BOOLEAN,
   findings: SUBSET Findings]

(* "garbage" is text that is no state, "undecodable" is no text at all.     *)
AllContents ==
  {"CLEAR", "ENGAGED", "garbage", "undecodable", "unreadable", "absent"}

NoPack == [present |-> FALSE, path |-> FALSE, owner |-> FALSE,
           runner_writable |-> "none"]

(* The stop file a pack names is the operator's, never one the gate owns.  *)
AllPacks ==
  {NoPack} \cup
  [present: {TRUE}, path: BOOLEAN, owner: BOOLEAN,
   runner_writable: {"none", "true", "false"}]

ASSUME GateAssumption ==
  /\ CriticalMax \in Nat
  /\ HighMax \in Nat
  /\ Calls \subseteq AllEvidence \X AllPacks
  /\ Contents \subseteq AllContents

-----------------------------------------------------------------------------
(* The screens an artifact passes before any detector runs                 *)

(* check_evidence_for_stops                                                *)
Stops(ev) == ~ev.live_false \/ (ev.claims_pass /\ ev.probes = "none")

(* validate_evidence_structure                                             *)
Malformed(ev) == ~ev.structured \/ ev.probes = "none" \/ ~ev.live_false

(* Every refusal is an early return of FAIL.                               *)
Refused(ev) ==
  ~ev.loads \/ Stops(ev) \/ Malformed(ev) \/ ev.binding # "CURRENT"

(* normalize_severity and the id upgrades of count_findings                *)
NormalSeverity(f) ==
  IF f.true_severity # "none" THEN f.true_severity
  ELSE IF f.severity = "unheard-of" THEN "INFO" ELSE f.severity

EffectiveSeverity(f) ==
  IF f.id = "V-CRIT" THEN "CRITICAL"
  ELSE IF f.id = "V-HIGH" /\ NormalSeverity(f) # "CRITICAL" THEN "HIGH"
  ELSE NormalSeverity(f)

(* Mutant: the declared severity is trusted.                               *)
count_findings_Declared(findings, severity) ==
  Cardinality({f \in findings : ~f.fixed /\ f.severity = severity})

count_findings(findings, severity) ==
  Cardinality({f \in findings : ~f.fixed /\ EffectiveSeverity(f) = severity})

(* A finding that hides its severity is a reason even when it is FIXED.    *)
Adversarial(f) ==
  \/ f.hidden /\ f.true_severity # "none"
  \/ f.id = "V-CRIT" /\ f.severity # "CRITICAL"
  \/ f.id = "V-HIGH" /\ f.severity \notin {"HIGH", "CRITICAL"}

GateReasons(ev) ==
  \/ ev.claims_pass /\ ~ev.digests
  \/ ev.probes # "run"
  \/ \E f \in ev.findings : Adversarial(f)
  \/ count_findings(ev.findings, "CRITICAL") > CriticalMax
  \/ count_findings(ev.findings, "HIGH") > HighMax

-----------------------------------------------------------------------------
(* What the detectors on the artifact's own packs may return               *)

(* Market data and PnL packs, each only when present; neither is PASS.     *)
run_fabrication_detectors ==
  {IF packs = {} THEN "PASS" ELSE worst_verdict(packs) : packs \in SUBSET Verdict}

(* PASS unchecked when there is no capital pack and no capital gate.       *)
run_validation_capital_detectors ==
  {worst_verdict(checks) : checks \in (SUBSET Verdict) \ {{}}} \cup {"PASS"}

(* The scope detector runs on every gate.                                  *)
(* Mutant: it has no verdict when nothing is declared.                     *)
run_scope_detector_Optional == Verdict \cup {"none"}

run_scope_detector ==
  {worst_verdict(checks) : checks \in (SUBSET Verdict) \ {{}}}

(* A drill record is judged by KS-D1 to KS-D6; without one, KS-D0 is       *)
(* UNKNOWN.                                                                *)
DrillVerdicts ==
  {worst_verdict(checks) : checks \in (SUBSET Verdict) \ {{}}} \cup {"UNKNOWN"}

-----------------------------------------------------------------------------

VARIABLES
  stopFile,      \* what the operator's stop file holds
  writable,      \* whether the OS lets this process write file or directory
  pc,            \* the next thing the evaluation does
  evidence, pack,
  contributing,  \* the verdicts appended so far
  before,        \* digest of the stop file, "none" when it has none
  outcomes,      \* the verdicts of the kill-switch checks made so far
  verdict,       \* of the last evaluation; "raised" when it gave none
  bypass,        \* it carries the reason gate_bypass_attempt
  seen,          \* history: what the file has held since the evaluation began
  held           \* history: it was engaged before the verdict, and still is

evaluation == <<evidence, pack, contributing, before, outcomes>>
result     == <<verdict, bypass>>
history    == <<seen, held>>
vars == <<stopFile, writable, pc, evaluation, result, history>>

(* A digest is taken of bytes, whatever they say.                          *)
Readable(content) == content \in {"CLEAR", "ENGAGED", "garbage", "undecodable"}
Digest(content) == IF pack.path /\ Readable(content) THEN content ELSE "none"

(* _read_state forgives an OSError; bytes that are not UTF-8 raise out of  *)
(* it, out of the detector and out of evaluate_gate.                       *)
ReadRaises == pack.path /\ stopFile = "undecodable"

Init ==
  /\ stopFile \in Contents
  /\ writable \in BOOLEAN
  /\ pc = "idle"
  /\ \E call \in Calls : evidence = call[1] /\ pack = call[2]
  /\ contributing = {}
  /\ before = "none"
  /\ outcomes = {}
  /\ verdict = "none"
  /\ bypass = FALSE
  /\ seen = {}
  /\ held = FALSE

-----------------------------------------------------------------------------

(* The operator engages, clears, damages or removes the stop file.         *)
OperatorWrites ==
  /\ \E c \in Contents \ {stopFile} :
       /\ stopFile' = c
       /\ seen' = IF pc = "idle" THEN seen ELSE seen \cup {c}
       /\ held' = (pc # "idle" /\ c = "ENGAGED")
  /\ UNCHANGED <<writable, pc, evaluation, result>>

(* evaluate_gate is called on an artifact.                                 *)
Begin ==
  /\ pc = "idle"
  /\ \E call \in Calls : evidence' = call[1] /\ pack' = call[2]
  /\ pc' = "screen"
  /\ contributing' = {}
  /\ before' = "none"
  /\ outcomes' = {}
  /\ verdict' = "none"
  /\ bypass' = FALSE
  /\ seen' = {stopFile}
  /\ held' = (stopFile = "ENGAGED")
  /\ UNCHANGED <<stopFile, writable>>

(* A refused artifact returns FAIL with no detector run.                   *)
Refuse ==
  /\ pc = "screen" /\ Refused(evidence)
  /\ pc' = "idle"
  /\ verdict' = "FAIL"
  /\ UNCHANGED <<stopFile, writable, evaluation, bypass, history>>

Screen ==
  /\ pc = "screen" /\ ~Refused(evidence)
  /\ \E v \in run_fabrication_detectors :
       contributing' = {v} \cup (IF GateReasons(evidence) THEN {"FAIL"} ELSE {})
  /\ pc' = IF pack.present THEN "digest" ELSE "conclude"
  /\ UNCHANGED <<stopFile, writable, evidence, pack, before, outcomes>>
  /\ UNCHANGED <<result, history>>

-----------------------------------------------------------------------------
(* detect_kill_switch: each step is one look at the stop file              *)

Outcome(v) ==
  /\ outcomes' = outcomes \cup {v}
  /\ UNCHANGED <<stopFile, writable, evidence, pack, contributing>>
  /\ UNCHANGED <<result, history>>

DigestBefore ==
  /\ pc = "digest"
  /\ before' = Digest(stopFile)
  /\ pc' = "declared"
  /\ UNCHANGED <<stopFile, writable, evidence, pack, contributing, outcomes>>
  /\ UNCHANGED <<result, history>>

(* KS-P1 and KS-P2 look at the pack alone.                                 *)
KS_P ==
  /\ pc = "declared"
  /\ Outcome(
       worst_verdict(
         {IF pack.path /\ pack.owner /\ pack.runner_writable # "none"
            THEN "PASS" ELSE "UNKNOWN"} \cup
         {CASE pack.runner_writable = "none"  -> "UNKNOWN"
            [] pack.runner_writable = "true"  -> "FAIL"
            [] pack.runner_writable = "false" -> "PASS"}))
  /\ pc' = "probe"
  /\ UNCHANGED before

KS_I1 ==
  /\ pc = "probe"
  /\ Outcome(
       IF ~pack.path \/ stopFile = "absent" THEN "UNKNOWN"
       ELSE IF writable THEN "FAIL" ELSE "PASS")
  /\ pc' = "readable"
  /\ UNCHANGED before

KS_I2 ==
  /\ pc = "readable" /\ ~ReadRaises
  /\ Outcome(
       IF pack.path /\ stopFile \in {"CLEAR", "ENGAGED"} THEN "PASS" ELSE "UNKNOWN")
  /\ pc' = "engaged"
  /\ UNCHANGED before

(* Mutants: an engaged stop is only reported; an unreadable one is FAIL.   *)
EngagedDenies_Reported(content) ==
  IF pack.path /\ content \in {"CLEAR", "ENGAGED"} THEN "PASS" ELSE "UNKNOWN"
EngagedDenies_UnreadableFails(content) ==
  IF pack.path /\ content = "CLEAR" THEN "PASS" ELSE "FAIL"

EngagedDenies(content) ==
  IF ~pack.path \/ content \notin {"CLEAR", "ENGAGED"} THEN "UNKNOWN"
  ELSE IF content = "ENGAGED" THEN "FAIL" ELSE "PASS"

KS_I3 ==
  /\ pc = "engaged" /\ ~ReadRaises
  /\ Outcome(EngagedDenies(stopFile))
  /\ pc' = "unchanged"
  /\ UNCHANGED before

(* The second or the third look meets bytes that are no text.              *)
KS_Raises ==
  /\ pc \in {"readable", "engaged"} /\ ReadRaises
  /\ verdict' = "raised"
  /\ pc' = "idle"
  /\ UNCHANGED <<stopFile, writable, evaluation, bypass, history>>

(* Mutant: a file that moved under the reads is read again from the start. *)
AfterCompare_Retry(after) == IF before # after THEN "digest" ELSE "drill"

AfterCompare(after) == "drill"

KS_I4 ==
  /\ pc = "unchanged"
  /\ LET after == Digest(stopFile) IN
       /\ Outcome(IF before = "none" \/ after = "none" THEN "UNKNOWN"
                  ELSE IF before # after THEN "FAIL" ELSE "PASS")
       /\ pc' = AfterCompare(after)
  /\ UNCHANGED before

(* The drill checks, and the fold of all the kill-switch outcomes.         *)
KS_D ==
  /\ pc = "drill"
  /\ \E v \in DrillVerdicts :
       /\ outcomes' = outcomes \cup {v}
       /\ contributing' = contributing \cup {worst_verdict(outcomes')}
  /\ pc' = "conclude"
  /\ UNCHANGED <<stopFile, writable, evidence, pack, before, result, history>>

-----------------------------------------------------------------------------

(* stop_is_engaged: the sixth look, made only when the fold says PASS.     *)
(* Mutant: it is not made.                                                 *)
stop_is_engaged_Never == FALSE

stop_is_engaged == pack.path /\ stopFile = "ENGAGED"

(* Capital and scope verdicts, the fold, and KS-I3b.                       *)
Conclude ==
  /\ pc = "conclude"
  /\ \E capital \in run_validation_capital_detectors, scope \in run_scope_detector :
       LET folded == worst_verdict(contributing \cup {capital, scope}) IN
       /\ contributing' = contributing \cup {capital, scope}
       /\ bypass' = (folded = "PASS" /\ stop_is_engaged)
       /\ verdict' = IF bypass' THEN "FAIL"
                     ELSE IF folded = "PASS" /\ ReadRaises THEN "raised"
                     ELSE folded
  /\ pc' = "idle"
  /\ UNCHANGED <<stopFile, writable, evidence, pack, before, outcomes, history>>

Evaluate ==
  \/ Refuse \/ Screen \/ DigestBefore \/ KS_P \/ KS_I1 \/ KS_I2
  \/ KS_I3 \/ KS_Raises \/ KS_I4 \/ KS_D \/ Conclude

Next == OperatorWrites \/ Begin \/ Evaluate

Spec == Init /\ [][Next]_vars

-----------------------------------------------------------------------------
(* Properties                                                              *)

(* The locals of the evaluation and the history kept beside it.            *)
TypeOK ==
  /\ stopFile \in Contents
  /\ writable \in BOOLEAN
  /\ pc \in {"idle", "screen", "digest", "declared", "probe", "readable",
              "engaged", "unchanged", "drill", "conclude"}
  /\ \E call \in Calls : evidence = call[1] /\ pack = call[2]
  /\ contributing \subseteq Verdict
  /\ before \in AllContents \cup {"none"}
  /\ outcomes \subseteq Verdict
  /\ verdict \in Verdict \cup {"none", "raised"}
  /\ bypass \in BOOLEAN
  /\ seen \subseteq Contents
  /\ held \in BOOLEAN

(* The artifact alone decides a denial no detector can lift: a PASS has    *)
(* probes that ran, digests behind a claim, files the tree still matches,  *)
(* no finding, open or FIXED, that disguises itself, and no open finding   *)
(* whose id or true severity is CRITICAL or HIGH (gates.py:241-243).       *)
PassIsEarned ==
  verdict = "PASS" =>
    /\ evidence.loads /\ evidence.live_false /\ evidence.structured
    /\ evidence.probes = "run"
    /\ evidence.claims_pass => evidence.digests
    /\ evidence.binding = "CURRENT"
    /\ \A f \in evidence.findings :
         /\ ~(f.hidden /\ f.true_severity # "none")
         /\ f.id \in {"V-CRIT", "V-HIGH"} => f.severity \in {"CRITICAL", "HIGH"}
         /\ ~f.fixed =>
              /\ f.id = "plain" /\ f.true_severity \notin {"CRITICAL", "HIGH"}
              /\ f.true_severity = "none" => f.severity \notin {"CRITICAL", "HIGH"}

(* An operator who engages the stop while the gate is evaluating, at any   *)
(* instant before its verdict, and leaves it engaged, gets no PASS.        *)
HeldStopDenies == (pack.present /\ pack.path /\ held) => verdict # "PASS"

(* A PASS over a kill-switch pack has seen the stop CLEAR: a file that was *)
(* engaged, damaged or missing throughout never yields one, however it     *)
(* moves between those during the six reads.                               *)
PassSawClear == (verdict = "PASS" /\ pack.present) => "CLEAR" \in seen

(* kill_switch.py:180 reports a change under the evaluation as             *)
(* safety_control_weakening, misconduct of the runner, which never writes  *)
(* the file here: whoever wrote it is the operator, acting in his right.   *)
ChangeIsNotMisconduct ==
  [][ KS_I4 => "none" \in {before, Digest(stopFile)} \/ before = Digest(stopFile) ]_vars

(* UNKNOWN is never reported as FAIL, nor does it hide one: the verdict is *)
(* FAIL exactly when the artifact was refused, a contribution failed, or   *)
(* the fold was overruled (gates.py:329-333).                              *)
FailIsDemonstrated ==
  (pc = "idle" /\ verdict \notin {"none", "raised"}) =>
    (verdict = "FAIL" <=> Refused(evidence) \/ "FAIL" \in contributing \/ bypass)

(* UPTM-003-kill-switch-independence.md:204-209: KS-I3b cannot fire unless *)
(* a later change to the fold lets a PASS through, and engaging the switch *)
(* is not recorded as misconduct.                                          *)
EngagingIsNotMisconduct == ~bypass

=============================================================================
