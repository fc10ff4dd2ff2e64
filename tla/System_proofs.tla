------------------------------ MODULE System_proofs ------------------------------
(***************************************************************************)
(* The kill switch denies, for every artifact, pack and content of the stop*)
(* file, however the operator's writes fall between the gate's reads.      *)
(* The gate keeps its promises under both of its callers, the loop over it *)
(* is a RunnerFSM, and no wave is recorded against a stop that is held:    *)
(* for every artifact, pack, content of the stop file and size of the loop.*)
(***************************************************************************)
EXTENDS System, FiniteSetTheorems, TLAPS

Looking == {"digest", "declared", "probe", "readable", "engaged", "unchanged", "drill"}

(* While the gate runs nothing is decided, and history follows the file.   *)
Undecided == pc # "idle" => verdict = "none" /\ bypass = FALSE /\ stopFile \in seen

HeldIsEngaged == held => stopFile = "ENGAGED"

(* Detectors run only on an artifact that was not refused, and the         *)
(* kill-switch checks only on a pack.                                      *)
Screened ==
  /\ pc \in Looking \cup {"conclude"} => ~Refused(evidence)
  /\ pc \in Looking => pack.present

(* KS-I3 passes only on CLEAR; its outcome is in the fold.                 *)
Denied(verdicts) == "FAIL" \in verdicts \/ "UNKNOWN" \in verdicts

ClearWasRead ==
  /\ pc \in {"unchanged", "drill"} => Denied(outcomes) \/ "CLEAR" \in seen
  /\ (pc = "conclude" /\ pack.present) => Denied(contributing) \/ "CLEAR" \in seen

Decisions ==
  HeldStopDenies /\ PassSawClear /\ FailIsDemonstrated

IInv ==
  /\ TypeOK /\ Undecided /\ HeldIsEngaged /\ Screened /\ ClearWasRead
  /\ Decisions

-----------------------------------------------------------------------------

LEMMA FoldValue == ASSUME NEW seen_ PROVE worst_verdict(seen_) \in Verdict
  BY DEF worst_verdict, Verdict

LEMMA FoldPass ==
  ASSUME NEW seen_, worst_verdict(seen_) = "PASS"
  PROVE  "FAIL" \notin seen_ /\ "UNKNOWN" \notin seen_
  BY DEF worst_verdict

LEMMA FoldFail ==
  ASSUME NEW seen_ PROVE worst_verdict(seen_) = "FAIL" <=> "FAIL" \in seen_
  BY DEF worst_verdict

LEMMA DetectorValues ==
  /\ run_fabrication_detectors \subseteq Verdict
  /\ run_validation_capital_detectors \subseteq Verdict
  /\ run_scope_detector \subseteq Verdict
  /\ DrillVerdicts \subseteq Verdict
<1>1. \A s \in SUBSET Verdict : worst_verdict(s) \in Verdict
  BY FoldValue
<1>2. "PASS" \in Verdict /\ "UNKNOWN" \in Verdict
  BY DEF Verdict
<1>3. QED
  BY <1>1, <1>2 DEF run_fabrication_detectors, run_validation_capital_detectors,
                    run_scope_detector, DrillVerdicts

LEMMA InitInv == Init => IInv
<1> SUFFICES ASSUME Init PROVE IInv
  OBVIOUS
<1>3. TypeOK
  BY DEF Init, TypeOK
<1>4. Undecided /\ HeldIsEngaged /\ Screened
  BY DEF Init, Undecided, HeldIsEngaged, Screened, Looking
<1>5. ClearWasRead
  BY DEF Init, ClearWasRead
<1>6. Decisions
  BY DEF Init, Decisions, HeldStopDenies, PassSawClear, FailIsDemonstrated
<1>7. QED
  BY <1>3, <1>4, <1>5, <1>6 DEF IInv

-----------------------------------------------------------------------------

LEMMA OperatorKeepsInv == IInv /\ OperatorWrites => IInv'
<1> SUFFICES ASSUME IInv, OperatorWrites PROVE IInv'
  OBVIOUS
<1>1. /\ UNCHANGED <<writable, pc, evidence, pack, contributing, before,
                     outcomes, verdict, bypass>>
      /\ stopFile' \in Contents
      /\ seen' = IF pc = "idle" THEN seen ELSE seen \cup {stopFile'}
      /\ held' = (pc # "idle" /\ stopFile' = "ENGAGED")
  BY DEF OperatorWrites, evaluation, result
<1>2. TypeOK'
  BY <1>1 DEF IInv, TypeOK
<1>3. Undecided' /\ HeldIsEngaged' /\ Screened' /\ ClearWasRead'
  BY <1>1 DEF IInv, Undecided, HeldIsEngaged, Screened, ClearWasRead
<1>4. Decisions'
  BY <1>1 DEF IInv, Decisions, HeldStopDenies, PassSawClear, FailIsDemonstrated, Undecided
<1>5. QED
  BY <1>2, <1>3, <1>4 DEF IInv

LEMMA BeginKeepsInv == IInv /\ Begin => IInv'
<1> SUFFICES ASSUME IInv, Begin PROVE IInv'
  OBVIOUS
<1>3. TypeOK'
  BY DEF IInv, TypeOK, Begin
<1>4. Undecided' /\ HeldIsEngaged' /\ Screened'
  BY DEF Begin, Undecided, HeldIsEngaged, Screened, Looking
<1>5. ClearWasRead'
  BY DEF Begin, ClearWasRead
<1>6. Decisions'
  BY DEF Begin, Decisions, HeldStopDenies, PassSawClear, FailIsDemonstrated
<1>7. QED
  BY <1>3, <1>4, <1>5, <1>6 DEF IInv

LEMMA RefuseKeepsInv == IInv /\ Refuse => IInv'
<1> SUFFICES ASSUME IInv, Refuse PROVE IInv'
  OBVIOUS
<1>1. /\ UNCHANGED <<stopFile, writable, evidence, pack, contributing, before,
                     outcomes, bypass, seen, held>>
      /\ pc' = "idle" /\ verdict' = "FAIL" /\ Refused(evidence)'
  BY DEF Refuse, evaluation, history, Refused, Stops, Malformed
<1>2. TypeOK'
  BY <1>1 DEF IInv, TypeOK, Verdict
<1>3. Undecided' /\ HeldIsEngaged' /\ Screened'
  BY <1>1 DEF IInv, Undecided, HeldIsEngaged, Screened, Looking
<1>4. ClearWasRead'
  BY <1>1 DEF IInv, ClearWasRead
<1>5. Decisions'
  BY <1>1 DEF IInv, Decisions, HeldStopDenies, PassSawClear, FailIsDemonstrated
<1>6. QED
  BY <1>2, <1>3, <1>4, <1>5 DEF IInv

LEMMA ScreenKeepsInv == IInv /\ Screen => IInv'
<1> SUFFICES ASSUME IInv, Screen PROVE IInv'
  OBVIOUS
<1>1. /\ UNCHANGED <<stopFile, writable, evidence, pack, before, outcomes,
                     verdict, bypass, seen, held>>
      /\ pc = "screen" /\ ~Refused(evidence)'
      /\ pc' = IF pack.present THEN "digest" ELSE "conclude"
  BY DEF Screen, result, history, Refused, Stops, Malformed
<1>2. contributing' \subseteq Verdict
  BY DetectorValues DEF Screen, Verdict
<1>3. TypeOK'
  BY <1>1, <1>2 DEF IInv, TypeOK
<1>4. Undecided' /\ HeldIsEngaged' /\ Screened'
  BY <1>1 DEF IInv, Undecided, HeldIsEngaged, Screened, Looking
<1>5. ClearWasRead'
  BY <1>1 DEF IInv, ClearWasRead
<1>6. Decisions'
  BY <1>1 DEF IInv, Decisions, HeldStopDenies, PassSawClear, FailIsDemonstrated, Undecided
<1>7. QED
  BY <1>3, <1>4, <1>5, <1>6 DEF IInv

LEMMA DigestKeepsInv == IInv /\ DigestBefore => IInv'
<1> SUFFICES ASSUME IInv, DigestBefore PROVE IInv'
  OBVIOUS
<1>1. /\ UNCHANGED <<stopFile, writable, evidence, pack, contributing, outcomes,
                     verdict, bypass, seen, held>>
      /\ pc = "digest" /\ pc' = "declared" /\ before' = Digest(stopFile)'
  BY DEF DigestBefore, result, history, Digest
<1>2. before' \in AllContents \cup {"none"}
  BY <1>1, GateAssumption DEF IInv, TypeOK, Digest
<1>3. TypeOK'
  BY <1>1, <1>2 DEF IInv, TypeOK
<1>4. Undecided' /\ HeldIsEngaged' /\ Screened'
  BY <1>1 DEF IInv, Undecided, HeldIsEngaged, Screened, Looking
<1>5. ClearWasRead'
  BY <1>1 DEF IInv, ClearWasRead
<1>6. Decisions'
  BY <1>1 DEF IInv, Decisions, HeldStopDenies, PassSawClear, FailIsDemonstrated, Undecided
<1>7. QED
  BY <1>3, <1>4, <1>5, <1>6 DEF IInv

(* One more check of the kill switch, of any verdict; KS-I3's is a denial  *)
(* unless the file was CLEAR.                                              *)
LEMMA LookKeepsInv ==
  ASSUME IInv, NEW v \in Verdict, Outcome(v),
         UNCHANGED before,
         pc \in Looking, pc' \in Looking,
         pc' \in {"unchanged", "drill"} =>
           v \in {"FAIL", "UNKNOWN"} \/ "CLEAR" \in seen \/ pc \in {"unchanged", "drill"}
  PROVE  IInv'
<1>1. /\ UNCHANGED <<stopFile, writable, evidence, pack, contributing, before,
                     verdict, bypass, seen, held>>
      /\ outcomes' = outcomes \cup {v}
  BY DEF Outcome, result, history
<1>4. TypeOK'
  <2>1. outcomes' \subseteq Verdict
    BY <1>1 DEF IInv, TypeOK
  <2>2. QED
    BY <1>1, <2>1 DEF IInv, TypeOK, Looking
<1>5. Undecided' /\ HeldIsEngaged'
  BY <1>1 DEF IInv, Undecided, HeldIsEngaged, Looking
<1>6. Screened'
  BY <1>1 DEF IInv, Screened, Looking, Refused, Stops, Malformed
<1>8. ClearWasRead'
  BY <1>1 DEF IInv, ClearWasRead, Denied, Looking
<1>10. HeldStopDenies' /\ PassSawClear' /\ FailIsDemonstrated'
  BY <1>1 DEF IInv, Undecided, HeldStopDenies, PassSawClear, FailIsDemonstrated, Looking
<1>11. QED
  BY <1>4, <1>5, <1>6, <1>8, <1>10 DEF IInv, Decisions

LEMMA ChecksKeepInv == IInv /\ (KS_P \/ KS_I1 \/ KS_I2 \/ KS_I3 \/ KS_I4) => IInv'
<1> SUFFICES ASSUME IInv, KS_P \/ KS_I1 \/ KS_I2 \/ KS_I3 \/ KS_I4 PROVE IInv'
  OBVIOUS
<1>1. CASE KS_P
  <2>1. PICK v : Outcome(worst_verdict(v)) /\ UNCHANGED before
    BY <1>1 DEF KS_P
  <2>2. worst_verdict(v) \in Verdict
    BY FoldValue
  <2>3. pc = "declared" /\ pc' = "probe"
    BY <1>1 DEF KS_P
  <2>4. QED
    BY <2>1, <2>2, <2>3, LookKeepsInv DEF Looking
<1>2. CASE KS_I1
  <2> DEFINE v == IF ~pack.path \/ stopFile = "absent" THEN "UNKNOWN"
                  ELSE IF writable THEN "FAIL" ELSE "PASS"
  <2>1. Outcome(v) /\ UNCHANGED before /\ pc = "probe" /\ pc' = "readable"
    BY <1>2 DEF KS_I1
  <2>2. v \in Verdict
    BY DEF Verdict
  <2>3. QED
    BY <2>1, <2>2, LookKeepsInv DEF Looking
<1>3. CASE KS_I2
  <2> DEFINE v == IF pack.path /\ stopFile \in {"CLEAR", "ENGAGED"}
                    THEN "PASS" ELSE "UNKNOWN"
  <2>1. Outcome(v) /\ UNCHANGED before /\ pc = "readable" /\ pc' = "engaged"
    BY <1>3 DEF KS_I2
  <2>2. v \in Verdict
    BY DEF Verdict
  <2>3. QED
    BY <2>1, <2>2, LookKeepsInv DEF Looking
<1>4. CASE KS_I3
  <2> DEFINE v == EngagedDenies(stopFile)
  <2>1. Outcome(v) /\ UNCHANGED before /\ pc = "engaged" /\ pc' = "unchanged"
    BY <1>4 DEF KS_I3
  <2>2. stopFile \in seen
    BY <2>1 DEF IInv, Undecided
  <2>3. v \in Verdict /\ (v \in {"FAIL", "UNKNOWN"} \/ "CLEAR" \in seen)
    BY <2>2 DEF EngagedDenies, Verdict
  <2>4. QED
    BY <2>1, <2>3, LookKeepsInv DEF Looking
<1>5. CASE KS_I4
  <2> DEFINE after == Digest(stopFile)
             v == IF before = "none" \/ after = "none" THEN "UNKNOWN"
                  ELSE IF before # after THEN "FAIL" ELSE "PASS"
  <2>1. Outcome(v) /\ UNCHANGED before /\ pc = "unchanged" /\ pc' = "drill"
    BY <1>5 DEF KS_I4, AfterCompare
  <2>2. v \in Verdict
    BY DEF Verdict
  <2>3. QED
    BY <2>1, <2>2, LookKeepsInv DEF Looking
<1>6. QED
  BY <1>1, <1>2, <1>3, <1>4, <1>5

(* An evaluation that raises decides nothing.                              *)
LEMMA RaiseKeepsInv == IInv /\ KS_Raises => IInv'
<1> SUFFICES ASSUME IInv, KS_Raises PROVE IInv'
  OBVIOUS
<1>1. /\ UNCHANGED <<stopFile, writable, evidence, pack, contributing, before,
                     outcomes, bypass, seen, held>>
      /\ pc' = "idle" /\ verdict' = "raised"
  BY DEF KS_Raises, evaluation, history
<1>2. TypeOK'
  BY <1>1 DEF IInv, TypeOK
<1>3. Undecided' /\ HeldIsEngaged' /\ Screened' /\ ClearWasRead'
  BY <1>1 DEF IInv, Undecided, HeldIsEngaged, Screened, ClearWasRead, Looking
<1>4. Decisions'
  BY <1>1 DEF Decisions, HeldStopDenies, PassSawClear, FailIsDemonstrated
<1>5. QED
  BY <1>2, <1>3, <1>4 DEF IInv

LEMMA DrillKeepsInv == IInv /\ KS_D => IInv'
<1> SUFFICES ASSUME IInv, KS_D PROVE IInv'
  OBVIOUS
<1>1. PICK v \in DrillVerdicts :
        /\ outcomes' = outcomes \cup {v}
        /\ contributing' = contributing \cup {worst_verdict(outcomes')}
  BY DEF KS_D
<1>2. /\ UNCHANGED <<stopFile, writable, evidence, pack, before, verdict, bypass,
                     seen, held>>
      /\ pc = "drill" /\ pc' = "conclude"
  BY DEF KS_D, result, history
<1>3. v \in Verdict /\ worst_verdict(outcomes') \in Verdict
  BY DetectorValues, FoldValue
<1>4. TypeOK'
  <2>1. outcomes' \subseteq Verdict /\ contributing' \subseteq Verdict
    BY <1>1, <1>3 DEF IInv, TypeOK
  <2>2. QED
    BY <1>2, <2>1 DEF IInv, TypeOK
<1>5. Undecided' /\ HeldIsEngaged' /\ Screened'
  BY <1>2 DEF IInv, Undecided, HeldIsEngaged, Screened, Looking,
              Refused, Stops, Malformed
<1>6. ClearWasRead'
  <2>1. Denied(outcomes) \/ "CLEAR" \in seen
    BY <1>2 DEF IInv, ClearWasRead
  <2>2. Denied(outcomes) => Denied(contributing')
    <3>1. Denied(outcomes) => worst_verdict(outcomes') # "PASS"
      BY <1>1, FoldPass DEF Denied
    <3>2. QED
      BY <1>1, <1>3, <3>1 DEF Denied, Verdict
  <2>3. QED
    BY <1>2, <2>1, <2>2 DEF ClearWasRead
<1>7. Decisions'
  BY <1>2 DEF IInv, Undecided, Decisions, HeldStopDenies, PassSawClear, FailIsDemonstrated
<1>8. QED
  BY <1>4, <1>5, <1>6, <1>7 DEF IInv

LEMMA ConcludeKeepsInv == IInv /\ Conclude => IInv'
<1> SUFFICES ASSUME IInv, Conclude PROVE IInv'
  OBVIOUS
<1>1. PICK capital \in run_validation_capital_detectors, scope \in run_scope_detector :
        LET folded == worst_verdict(contributing \cup {capital, scope}) IN
        /\ contributing' = contributing \cup {capital, scope}
        /\ bypass' = (folded = "PASS" /\ stop_is_engaged)
        /\ verdict' = IF bypass' THEN "FAIL"
                      ELSE IF folded = "PASS" /\ ReadRaises THEN "raised"
                      ELSE folded
  BY DEF Conclude
<1> DEFINE folded == worst_verdict(contributing')
<1>2. /\ contributing' = contributing \cup {capital, scope}
      /\ bypass' = (folded = "PASS" /\ stop_is_engaged)
      /\ verdict' = IF bypass' THEN "FAIL"
                    ELSE IF folded = "PASS" /\ ReadRaises THEN "raised"
                    ELSE folded
  BY <1>1
<1>3. /\ UNCHANGED <<stopFile, writable, evidence, pack, before, outcomes,
                     seen, held>>
      /\ pc = "conclude" /\ pc' = "idle"
  BY DEF Conclude, history
<1>4. folded \in Verdict
  BY FoldValue
<1>5. TypeOK'
  <2>1. contributing' \subseteq Verdict
    BY <1>2, DetectorValues DEF IInv, TypeOK
  <2>2. verdict' \in Verdict \cup {"none", "raised"} /\ bypass' \in BOOLEAN
    BY <1>2, <1>4 DEF Verdict
  <2>3. QED
    BY <1>3, <2>1, <2>2 DEF IInv, TypeOK
<1>6. Undecided' /\ HeldIsEngaged' /\ Screened' /\ ClearWasRead'
  BY <1>3 DEF IInv, Undecided, HeldIsEngaged, Screened, ClearWasRead, Looking
<1>7. verdict' = "PASS" => /\ ~stop_is_engaged
                           /\ "FAIL" \notin contributing' /\ "UNKNOWN" \notin contributing'
  BY <1>2, FoldPass
<1>8. HeldStopDenies'
  BY <1>3, <1>7 DEF IInv, HeldIsEngaged, HeldStopDenies, stop_is_engaged
<1>9. PassSawClear'
  <2>1. Denied(contributing) => Denied(contributing')
    BY <1>2 DEF Denied
  <2>2. QED
    BY <1>3, <1>7, <2>1 DEF IInv, ClearWasRead, PassSawClear, Denied
<1>11. FailIsDemonstrated'
  <2>1. ~Refused(evidence)'
    BY <1>3 DEF IInv, Screened, Refused, Stops, Malformed
  <2>2. folded = "FAIL" <=> "FAIL" \in contributing'
    BY FoldFail
  <2>3. QED
    BY <1>2, <2>1, <2>2 DEF FailIsDemonstrated
<1>12. QED
  BY <1>5, <1>6, <1>8, <1>9, <1>11 DEF IInv, Decisions

-----------------------------------------------------------------------------

LEMMA NextKeepsInv == IInv /\ [Next]_vars => IInv'
<1> SUFFICES ASSUME IInv, [Next]_vars PROVE IInv'
  OBVIOUS
<1>1. CASE OperatorWrites
  BY <1>1, OperatorKeepsInv
<1>2. CASE Begin
  BY <1>2, BeginKeepsInv
<1>3. CASE Evaluate
  BY <1>3, RefuseKeepsInv, ScreenKeepsInv, DigestKeepsInv, ChecksKeepInv,
     RaiseKeepsInv, DrillKeepsInv, ConcludeKeepsInv DEF Evaluate
<1>4. CASE UNCHANGED vars
  <2>1. UNCHANGED <<stopFile, writable, pc, evidence, pack, contributing, before,
                    outcomes, verdict, bypass, seen, held>>
    BY <1>4 DEF vars, evaluation, result, history
  <2>2. TypeOK' /\ Undecided' /\ HeldIsEngaged' /\ Screened' /\ ClearWasRead'
    BY <2>1 DEF IInv, TypeOK, Undecided, HeldIsEngaged, Screened, ClearWasRead,
                Refused, Stops, Malformed
  <2>3. Decisions'
    BY <2>1 DEF IInv, Decisions, HeldStopDenies, PassSawClear, FailIsDemonstrated,
                Refused, Stops, Malformed
  <2>4. QED
    BY <2>2, <2>3 DEF IInv
<1>5. QED
  BY <1>1, <1>2, <1>3, <1>4 DEF Next

LEMMA Invariance == Spec => []IInv
  BY InitInv, NextKeepsInv, PTL DEF Spec

(* The values of the evaluation's state.                                   *)
THEOREM TypeCorrect == Spec => []TypeOK
  BY Invariance, PTL DEF IInv

(* A stop engaged before the verdict and left engaged denies, at whatever  *)
(* point of gates.py:227-369 it was engaged.                               *)
THEOREM HeldStopAlwaysDenies == Spec => []HeldStopDenies
  BY Invariance, PTL DEF IInv, Decisions

(* No PASS over a kill-switch pack unless the stop file held CLEAR.        *)
THEOREM PassNeedsClear == Spec => []PassSawClear
  BY Invariance, PTL DEF IInv, Decisions

(* FAIL is reported exactly when a violation was demonstrated.             *)
THEOREM FailuresAreDemonstrated == Spec => []FailIsDemonstrated
  BY Invariance, PTL DEF IInv, Decisions

-----------------------------------------------------------------------------
(* What a PASS says of the artifact                                        *)

(* A reason against the artifact is a FAIL in the fold until the verdict,  *)
(* and an artifact that passed had none and was not refused.               *)
Reasoned ==
  pc \in Looking \cup {"conclude"} /\ GateReasons(evidence) => "FAIL" \in contributing

Vetted == verdict = "PASS" => ~Refused(evidence) /\ ~GateReasons(evidence)

LEMMA ArtifactStays ==
  UNCHANGED evidence =>
    /\ GateReasons(evidence)' <=> GateReasons(evidence)
    /\ Refused(evidence)' <=> Refused(evidence)
  BY DEF GateReasons, Adversarial, count_findings, EffectiveSeverity,
         NormalSeverity, Refused, Stops, Malformed

LEMMA EvaluationVets ==
  IInv /\ Reasoned /\ Vetted /\ [Next]_vars => Reasoned' /\ Vetted'
<1> SUFFICES ASSUME IInv, Reasoned, Vetted, [Next]_vars PROVE Reasoned' /\ Vetted'
  OBVIOUS
<1>1. CASE OperatorWrites
  BY <1>1, ArtifactStays DEF OperatorWrites, evaluation, result, Reasoned, Vetted
<1>2. CASE Begin
  BY <1>2 DEF Begin, Reasoned, Vetted, Looking
<1>3. CASE Refuse
  BY <1>3 DEF Refuse, Reasoned, Vetted, Looking
<1>4. CASE Screen
  <2>1. UNCHANGED <<evidence, verdict>> /\ (GateReasons(evidence) => "FAIL" \in contributing')
    BY <1>4 DEF Screen, result
  <2>2. QED
    BY <2>1, ArtifactStays DEF Reasoned, Vetted
<1>9. CASE KS_Raises
  BY <1>9, ArtifactStays DEF KS_Raises, evaluation, Reasoned, Vetted, Looking
<1>5. CASE DigestBefore \/ KS_P \/ KS_I1 \/ KS_I2 \/ KS_I3 \/ KS_I4
  <2>1. UNCHANGED <<evidence, verdict, contributing>> /\ pc \in Looking
    BY <1>5 DEF DigestBefore, KS_P, KS_I1, KS_I2, KS_I3, KS_I4, Outcome, result, Looking
  <2>2. QED
    BY <2>1, ArtifactStays DEF Reasoned, Vetted
<1>6. CASE KS_D
  <2>1. /\ UNCHANGED <<evidence, verdict>> /\ pc \in Looking
        /\ contributing \subseteq contributing'
    BY <1>6 DEF KS_D, result, Looking
  <2>2. QED
    BY <2>1, ArtifactStays DEF Reasoned, Vetted
<1>7. CASE Conclude
  <2>1. PICK capital \in run_validation_capital_detectors, scope \in run_scope_detector :
          LET folded == worst_verdict(contributing \cup {capital, scope}) IN
          /\ contributing' = contributing \cup {capital, scope}
          /\ bypass' = (folded = "PASS" /\ stop_is_engaged)
          /\ verdict' = IF bypass' THEN "FAIL"
                        ELSE IF folded = "PASS" /\ ReadRaises THEN "raised"
                        ELSE folded
    BY <1>7 DEF Conclude
  <2>2. pc = "conclude" /\ pc' = "idle" /\ UNCHANGED evidence
    BY <1>7 DEF Conclude
  <2>3. verdict' = "PASS" => "FAIL" \notin contributing
    BY <2>1, FoldPass
  <2>4. ~Refused(evidence)
    BY <2>2 DEF IInv, Screened
  <2>5. QED
    BY <2>2, <2>3, <2>4, ArtifactStays DEF Reasoned, Vetted, Looking
<1>8. CASE UNCHANGED vars
  BY <1>8, ArtifactStays DEF vars, evaluation, result, Reasoned, Vetted
<1>10. QED
  BY <1>1, <1>2, <1>3, <1>4, <1>5, <1>6, <1>7, <1>8, <1>9 DEF Next, Evaluate

LEMMA FourAreFinite == \A a, b, c, d : IsFiniteSet({a, b, c, d})
<1> TAKE a, b, c, d
<1>1. IsFiniteSet({a}) /\ IsFiniteSet({b}) /\ IsFiniteSet({c}) /\ IsFiniteSet({d})
  BY FS_Singleton
<1>2. IsFiniteSet({a} \cup {b}) /\ IsFiniteSet({c} \cup {d})
  BY <1>1, FS_Union
<1>3. IsFiniteSet(({a} \cup {b}) \cup ({c} \cup {d}))
  BY <1>2, FS_Union
<1>4. ({a} \cup {b}) \cup ({c} \cup {d}) = {a, b, c, d}
  OBVIOUS
<1>5. QED
  BY <1>3, <1>4

(* Counting says something of a set of findings because there are finitely *)
(* many.                                                                   *)
LEMMA FindingsFinite == IsFiniteSet(Findings)
<1> DEFINE Ids == {"V-CRIT", "V-HIGH", "plain"}
           Severities == {"CRITICAL", "HIGH", "LOW", "unheard-of"}
           Trues == {"none", "CRITICAL", "HIGH", "LOW"}
           Keys == ((Ids \X Severities) \X Trues) \X (BOOLEAN \X BOOLEAN)
           f == [k \in Keys |->
                  [id |-> k[1][1][1], severity |-> k[1][1][2], true_severity |-> k[1][2],
                   hidden |-> k[2][1], fixed |-> k[2][2]]]
<1>1. IsFiniteSet(Ids) /\ IsFiniteSet(Severities) /\ IsFiniteSet(Trues)
  <2>1. {"V-CRIT", "V-HIGH", "plain", "plain"} = Ids
    OBVIOUS
  <2>2. QED
    BY <2>1, FourAreFinite
<1>2. IsFiniteSet(BOOLEAN)
  <2>1. {TRUE, FALSE, TRUE, FALSE} = BOOLEAN
    OBVIOUS
  <2>2. QED
    BY <2>1, FourAreFinite
<1>3. IsFiniteSet(Keys)
  <2>1. IsFiniteSet(Ids \X Severities)
    BY <1>1, FS_Product
  <2>2. IsFiniteSet((Ids \X Severities) \X Trues)
    BY <1>1, <2>1, FS_Product
  <2>3. IsFiniteSet(BOOLEAN \X BOOLEAN)
    BY <1>2, FS_Product
  <2>4. QED
    BY <2>2, <2>3, FS_Product
<1>4. f \in Surjection(Keys, Findings)
  <2>1. f \in [Keys -> Findings]
    BY DEF Findings
  <2>2. ASSUME NEW finding \in Findings PROVE \E k \in Keys : f[k] = finding
    <3> DEFINE key == <<<<<<finding.id, finding.severity>>, finding.true_severity>>,
                        <<finding.hidden, finding.fixed>>>>
    <3>1. key \in Keys
      BY DEF Findings
    <3>2. f[key] = finding
      BY <3>1 DEF Findings
    <3>3. QED
      BY <3>1, <3>2
  <2>3. QED
    BY <2>1, <2>2 DEF Surjection
<1>5. QED
  BY <1>3, <1>4, FS_Surjection

LEMMA NoneCounted ==
  ASSUME NEW findings \in SUBSET Findings, NEW severity,
         ~(count_findings(findings, severity) > 0)
  PROVE  \A f \in findings : ~f.fixed => EffectiveSeverity(f) # severity
<1> DEFINE counted == {f \in findings : ~f.fixed /\ EffectiveSeverity(f) = severity}
<1>1. IsFiniteSet(counted)
  BY FindingsFinite, FS_Subset
<1>2. Cardinality(counted) = 0
  BY <1>1, FS_CardinalityType DEF count_findings
<1>3. counted = {}
  BY <1>1, <1>2, FS_EmptySet
<1>4. QED
  BY <1>3

(* With limits of zero an artifact that passed had nothing against it.     *)
LEMMA VettedIsEarned ==
  ASSUME CriticalMax = 0, HighMax = 0, IInv, Vetted
  PROVE  PassIsEarned
<1> SUFFICES ASSUME verdict = "PASS" PROVE PassIsEarned
  BY DEF PassIsEarned
<1>1. ~Refused(evidence) /\ ~GateReasons(evidence)
  BY DEF Vetted
<1>2. evidence \in AllEvidence
  BY GateAssumption DEF IInv, TypeOK
<1>3. evidence.findings \in SUBSET Findings
  BY <1>2 DEF AllEvidence
<1>4. \A f \in evidence.findings :
        /\ ~Adversarial(f)
        /\ ~f.fixed => EffectiveSeverity(f) \notin {"CRITICAL", "HIGH"}
  <2>1. /\ ~(count_findings(evidence.findings, "CRITICAL") > 0)
        /\ ~(count_findings(evidence.findings, "HIGH") > 0)
    BY <1>1 DEF GateReasons
  <2>2. \A f \in evidence.findings : ~f.fixed => EffectiveSeverity(f) # "CRITICAL"
    BY <1>3, <2>1, NoneCounted
  <2>3. \A f \in evidence.findings : ~f.fixed => EffectiveSeverity(f) # "HIGH"
    BY <1>3, <2>1, NoneCounted
  <2>4. QED
    BY <1>1, <2>2, <2>3 DEF GateReasons
<1>5. ASSUME NEW f \in evidence.findings
      PROVE  /\ ~(f.hidden /\ f.true_severity # "none")
             /\ f.id \in {"V-CRIT", "V-HIGH"} => f.severity \in {"CRITICAL", "HIGH"}
             /\ ~f.fixed =>
                  /\ f.id = "plain" /\ f.true_severity \notin {"CRITICAL", "HIGH"}
                  /\ f.true_severity = "none" => f.severity \notin {"CRITICAL", "HIGH"}
  BY <1>3, <1>4 DEF Adversarial, EffectiveSeverity, NormalSeverity, Findings
<1>6. /\ evidence.loads /\ evidence.live_false /\ evidence.structured
      /\ evidence.probes = "run"
      /\ evidence.claims_pass => evidence.digests
      /\ evidence.binding = "CURRENT"
  BY <1>1, <1>2 DEF Refused, Stops, Malformed, GateReasons, AllEvidence
<1>7. QED
  BY <1>5, <1>6 DEF PassIsEarned

(* With limits of zero, as in rules.json, a PASS is earned: nothing a      *)
(* detector says or the operator does lifts a reason against the artifact. *)
THEOREM PassesAreEarned ==
  ASSUME CriticalMax = 0, HighMax = 0
  PROVE  Spec => []PassIsEarned
<1>1. Init => Reasoned /\ Vetted
  BY DEF Init, Reasoned, Vetted, Looking
<1>2. Spec => [](Reasoned /\ Vetted)
  BY <1>1, Invariance, EvaluationVets, PTL DEF Spec
<1>3. IInv /\ Vetted => PassIsEarned
  BY VettedIsEarned
<1>4. QED
  BY <1>2, <1>3, Invariance, PTL

-----------------------------------------------------------------------------
(* The gate in the system                                                  *)

(* What the gate keeps, with what it owes to the artifact.                 *)
GateInv == IInv /\ Reasoned /\ Vetted

LEMMA IdleIsACall == Idle \in Calls
<1>1. \E call \in LoopCalls : TRUE
  BY SystemAssumption
<1>2. Idle \in LoopCalls
  BY <1>1 DEF Idle
<1>3. QED
  BY <1>2, SystemAssumption

LEMMA GateKeepsInv == GateInv /\ [Next]_vars => GateInv'
  BY NextKeepsInv, EvaluationVets DEF GateInv

(* When the frame of an evaluation goes, nothing is left that was decided. *)
LEMMA ForgettingKeepsInv ==
  GateInv /\ pc = "idle" /\ UNCHANGED <<stopFile, writable, pc>> /\ Forget => GateInv'
<1> SUFFICES ASSUME GateInv, pc = "idle", UNCHANGED <<stopFile, writable, pc>>, Forget
             PROVE  GateInv'
  OBVIOUS
<1>3. TypeOK'
  BY IdleIsACall DEF GateInv, IInv, TypeOK, Forget
<1>4. Undecided' /\ HeldIsEngaged' /\ Screened'
  BY DEF Forget, Undecided, HeldIsEngaged, Screened, Looking
<1>5. ClearWasRead'
  BY DEF Forget, ClearWasRead
<1>6. Decisions'
  BY DEF Forget, Decisions, HeldStopDenies, PassSawClear, FailIsDemonstrated
<1>7. Reasoned' /\ Vetted'
  BY DEF Forget, Reasoned, Vetted, Looking
<1>8. QED
  BY <1>3, <1>4, <1>5, <1>6, <1>7 DEF GateInv, IInv

(* Every step is a step of the gate or leaves it alone, save the two in    *)
(* which the loop takes its result or its exception.                       *)
LEMMA StepsOfTheGate ==
  ASSUME [SystemNext]_system_vars
  PROVE  [Next]_vars \/ GateIsApplied \/ GateHasRaised
  BY DEF SystemNext, system_vars, Command, Operator, LoopIsCalled, Calling, LoopRuns,
         GateIsAsked, GateIsEvaluated, Next

LEMMA SystemKeepsGate == GateInv /\ [SystemNext]_system_vars => GateInv'
<1> SUFFICES ASSUME GateInv, [SystemNext]_system_vars PROVE GateInv'
  OBVIOUS
<1>1. CASE [Next]_vars
  BY <1>1, GateKeepsInv
<1>2. CASE GateIsApplied
  BY <1>2, ForgettingKeepsInv DEF GateIsApplied
<1>3. CASE GateHasRaised
  <2>1. pc = "idle"
    BY <1>3 DEF GateHasRaised, GateInv, IInv, Undecided
  <2>2. QED
    BY <1>3, <2>1, ForgettingKeepsInv DEF GateHasRaised
<1>4. QED
  BY <1>1, <1>2, <1>3, StepsOfTheGate

(* What the gate promises one caller it promises both, whatever is called  *)
(* between two evaluations.                                                *)
LEMMA GateInvariance == SystemSpec => []GateInv
<1>1. SystemInit => GateInv
  BY InitInv DEF SystemInit, GateInv, Init, Reasoned, Vetted, Looking
<1>2. QED
  BY <1>1, SystemKeepsGate, PTL DEF SystemSpec

(* A stop held until the verdict, and a stop never seen clear, deny the    *)
(* command and the loop alike, and FAIL is said of either only for cause.  *)
THEOREM StopIsObeyed ==
  SystemSpec => [](HeldStopDenies /\ PassSawClear /\ FailIsDemonstrated)
<1>1. GateInv => HeldStopDenies /\ PassSawClear /\ FailIsDemonstrated
  BY DEF GateInv, IInv, Decisions
<1>2. QED
  BY <1>1, GateInvariance, PTL

(* With limits of zero, as in rules.json, a PASS is earned whoever asked.  *)
THEOREM EveryPassIsEarned ==
  ASSUME CriticalMax = 0, HighMax = 0
  PROVE  SystemSpec => []PassIsEarned
<1>1. GateInv => PassIsEarned
  BY VettedIsEarned DEF GateInv
<1>2. QED
  BY <1>1, GateInvariance, PTL

-----------------------------------------------------------------------------
(* The loop over this gate is the loop over any gate                       *)

(* What the gate returns is a GateResult.                                  *)
LEMMA ReturnedIsAGate ==
  ASSUME GateInv, verdict \in Verdict
  PROVE  Returned \in Loop!Gates
<1>1. verdict = "PASS" => ~Refused(evidence)
  BY DEF GateInv, Vetted
<1>2. Stops(evidence) => Refused(evidence)
  BY DEF Refused
<1>3. CASE Stops(evidence) /\ evidence.loads
  <2>1. Returned = [passed |-> FALSE, open |-> {}, stop |-> TRUE]
    BY <1>1, <1>2, <1>3 DEF Returned
  <2>2. QED
    BY <2>1 DEF Loop!Gates
<1>4. CASE ~(Stops(evidence) /\ evidence.loads)
  <2>1. Returned.stop = FALSE /\ Returned.passed \in BOOLEAN
    BY <1>4 DEF Returned
  <2>2. QED
    BY <1>4, <2>1 DEF Loop!Gates, Returned
<1>5. QED
  BY <1>3, <1>4

LEMMA LoopSteps ==
  GateInv /\ [SystemNext]_system_vars => [Loop!Next]_(Loop!vars)
<1> SUFFICES ASSUME GateInv, [SystemNext]_system_vars PROVE [Loop!Next]_(Loop!vars)
  OBVIOUS
<1>1. UNCHANGED loop_vars => UNCHANGED Loop!vars
  BY DEF loop_vars, Loop!vars, Loop!machine, Loop!gating, Loop!driver
<1>2. CASE Command \/ Operator \/ GateIsAsked \/ GateIsEvaluated
  BY <1>1, <1>2 DEF Command, Operator, GateIsAsked, GateIsEvaluated
<1>3. CASE LoopRuns \/ LoopIsCalled
  BY <1>3 DEF LoopRuns, LoopIsCalled, Loop!Next, Loop!Provider
<1>4. CASE GateIsApplied
  <2>1. Returned \in Loop!Gates
    BY <1>4, ReturnedIsAGate DEF GateIsApplied
  <2>2. Loop!GateReturns
    BY <1>4, <2>1 DEF GateIsApplied, Loop!GateReturns
  <2>3. QED
    BY <2>2 DEF Loop!Next, Loop!Provider
<1>5. CASE GateHasRaised
  BY <1>5 DEF GateHasRaised, Loop!Next, Loop!Provider
<1>6. CASE UNCHANGED system_vars
  BY <1>1, <1>6 DEF system_vars
<1>7. QED
  BY <1>2, <1>3, <1>4, <1>5, <1>6 DEF SystemNext, Calling

(* The loop with the gate in it implements the loop with any gate at all:  *)
(* what is proved of RunnerFSM holds of a machine driven by evaluate_gate. *)
THEOREM LoopImplementsRunnerFSM == SystemSpec => Loop!Spec
<1>1. SystemInit => Loop!Init
  BY DEF SystemInit
<1>2. QED
  BY <1>1, LoopSteps, GateInvariance, PTL DEF SystemSpec, Loop!Spec

-----------------------------------------------------------------------------
(* What the loop records                                                   *)

(* Only the gate's result records a wave, when nobody hands one in.        *)
LEMMA OnlyGatesRecord ==
  ASSUME "apply_gate" \notin OwnerCalls, [SystemNext]_system_vars,
         passed_waves' # passed_waves
  PROVE  GateIsApplied
<1>1. ~UNCHANGED passed_waves
  OBVIOUS
<1>2. ~Loop!Driver
  BY <1>1 DEF Loop!Driver, Loop!LoopReturns, Loop!Advance, Loop!AskSwarm,
              Loop!UnhandledState, Loop!machine
<1>3. ~Loop!SwarmReturns /\ ~Loop!ProviderStops
  BY <1>1 DEF Loop!SwarmReturns, Loop!ProviderStops, Loop!stop, Loop!machine
<1>6. ~Loop!Holder
  BY <1>1, <1>3 DEF Loop!Holder, Loop!HolderTransition, Loop!HolderPatches,
              Loop!HolderUnlocks, Loop!record_patch
<1>4. ~Loop!Owner
  BY <1>1 DEF Loop!Owner, Loop!run_until_terminal, Loop!OwnerGate, Loop!OwnerStop,
              Loop!stop, Loop!machine
<1>7. ~GateHasRaised
  BY <1>1 DEF GateHasRaised, Loop!ProviderRaises, Loop!machine
<1>5. QED
  BY <1>1, <1>2, <1>3, <1>4, <1>6, <1>7
     DEF SystemNext, Command, Operator, LoopIsCalled, Calling, LoopRuns, GateIsAsked,
         GateIsEvaluated, system_vars, loop_vars

LEMMA RecordedIsPass ==
  ASSUME GateInv, "apply_gate" \notin OwnerCalls, [SystemNext]_system_vars,
         passed_waves' # passed_waves
  PROVE  verdict = "PASS"
<1>1. GateIsApplied
  BY OnlyGatesRecord
<1>2. Loop!GatePassed(Returned, "accepted")
  <2>1. Loop!apply_gate(Returned, ledger, current_wave)
    BY <1>1 DEF GateIsApplied
  <2>2. PICK r : Loop!GatePassed(Returned, r)
    BY <2>1 DEF Loop!apply_gate, Loop!machine, Loop!record_patch
  <2>3. QED
    BY <2>2 DEF Loop!GatePassed
<1>3. QED
  BY <1>2 DEF Loop!GatePassed, Returned

(* With nobody but the driver to call apply_gate, a stop that is engaged   *)
(* before the verdict and left engaged keeps the wave open, on every       *)
(* attempt, and what is recorded has nothing against it.                   *)
THEOREM StopKeepsWaveOpen ==
  ASSUME "apply_gate" \notin OwnerCalls
  PROVE  SystemSpec => StoppedWaveStaysOpen
<1> DEFINE Clean == /\ ~(pack.present /\ pack.path /\ held)
                    /\ ~Refused(evidence) /\ ~GateReasons(evidence)
                    /\ pack.present => "CLEAR" \in seen
<1>1. GateInv /\ verdict = "PASS" => Clean
  BY DEF GateInv, IInv, Decisions, HeldStopDenies, PassSawClear, Vetted
<1>2. GateInv /\ [SystemNext]_system_vars
        => [passed_waves' # passed_waves => Clean]_system_vars
  BY <1>1, RecordedIsPass
<1>3. QED
  BY <1>2, GateInvariance, PTL DEF SystemSpec, StoppedWaveStaysOpen

=============================================================================
