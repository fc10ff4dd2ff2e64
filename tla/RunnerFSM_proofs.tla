---------------------------- MODULE RunnerFSM_proofs ----------------------------
(***************************************************************************)
(* Theorems about RunnerFSM for every number of waves and patch attempts.  *)
(***************************************************************************)
EXTENDS RunnerFSM, TLAPS

(* Driver steps already taken when a wave's attempt stands at state s.     *)
Position(s) ==
  CASE s = "DISCOVER"           -> -3
    [] s = "BASELINE"           -> -2
    [] s \in {"PLAN", "NEXT_WAVE"} -> -1
    [] s = "PARALLEL_DISPATCH"  -> 1
    [] s = "EXECUTION"          -> 2
    [] s = "COLLECT"            -> 3
    [] s = "VERIFY"             -> 4
    [] s = "ADVERSARIAL_VERIFY" -> 5
    [] s = "EVIDENCE"           -> 6
    [] OTHER                    -> 0

(* Attempts completed, counting a full budget for every earlier wave.      *)
Attempts == current_wave * (MaxPatch + 1) + patch_attempts[current_wave]

(* The driver has made no more steps than the attempts account for.        *)
StepsAccounted ==
  /\ at = "owner" => steps = 0
  /\ (at = "loop" /\ ~is_terminal) => steps <= 3 + 7 * Attempts + Position(state)
  /\ (at \in {"swarm", "gate"} /\ ~is_terminal) => steps <= 3 + 7 * Attempts + 7

IInv ==
  /\ TypeOK
  /\ WavesInOrder
  /\ BudgetSpentMeansReview
  /\ ControlAssertionsHold
  /\ StepsAccounted

-----------------------------------------------------------------------------
(* Facts about the transition table and about products                     *)

(* Only EVIDENCE leads to WAVE_GATE, and a terminal state leads nowhere.   *)
LEMMA GateFromEvidence ==
  ASSUME NEW s \in States
  PROVE  /\ "WAVE_GATE" \in AllowedTransitions[s] => s = "EVIDENCE"
         /\ s \in Terminal => AllowedTransitions[s] = {}
  BY DEF AllowedTransitions, Transitions, States, Terminal, Halt

(* Where the gate, and the calls made on the machine, may lead.            *)
LEMMA GateEdges ==
  {"EXIT", "NEXT_WAVE", "PATCH_LOOP", "HUMAN_REVIEW_REQUIRED"}
     \subseteq AllowedTransitions["WAVE_GATE"]
  BY DEF AllowedTransitions, Transitions, States, Terminal, Halt

LEMMA ReviewIsOpen ==
  ASSUME NEW s \in States, s \notin Terminal
  PROVE  "HUMAN_REVIEW_REQUIRED" \in AllowedTransitions[s]
  BY DEF AllowedTransitions, Transitions, States, Terminal, Halt

LEMMA EdgesLeadToStates ==
  ASSUME NEW s \in States
  PROVE  AllowedTransitions[s] \subseteq States
  BY DEF AllowedTransitions, Transitions, States, Terminal, Halt

(* At WAVE_GATE no transition of the two methods is refused.               *)
LEMMA RecordPassMoves ==
  ASSUME RecordPass
  PROVE  /\ passed_waves' = passed_waves \cup {current_wave}
         /\ IF current_wave >= MaxWave
              THEN /\ state' = "EXIT"
                   /\ UNCHANGED <<current_wave, unlocked_waves>>
              ELSE /\ current_wave' = current_wave + 1
                   /\ unlocked_waves' = unlocked_waves \cup {current_wave + 1}
                   /\ state' = "WAVE_READY"
         /\ UNCHANGED patch_attempts
  BY GateEdges DEF RecordPass, unlock_next_wave

LEMMA RecordPatchMoves ==
  ASSUME NEW c, record_patch("WAVE_GATE", c)
  PROVE  /\ patch_attempts' = [patch_attempts EXCEPT ![c] = @ + 1]
         /\ state' = IF patch_attempts[c] + 1 > MaxPatch
                       THEN "HUMAN_REVIEW_REQUIRED" ELSE "PATCH_LOOP"
         /\ UNCHANGED <<current_wave, unlocked_waves, passed_waves>>
  BY GateEdges DEF record_patch

(* The straight edges run through the positions one by one.                *)
LEMMA StraightEdges ==
  ASSUME NEW s \in States, Straight[s] # "none"
  PROVE  /\ s \notin Terminal /\ s \notin {"EVIDENCE", "WAVE_GATE"}
         /\ Straight[s] \in States \ Terminal
         /\ Position(Straight[s]) = Position(s) + 1
  <1>1. \/ s = "DISCOVER" /\ Straight[s] = "BASELINE"
        \/ s = "BASELINE" /\ Straight[s] = "PLAN"
        \/ s = "PLAN" /\ Straight[s] = "WAVE_READY"
        \/ s = "WAVE_READY" /\ Straight[s] = "PARALLEL_DISPATCH"
        \/ s = "PARALLEL_DISPATCH" /\ Straight[s] = "EXECUTION"
        \/ s = "EXECUTION" /\ Straight[s] = "COLLECT"
        \/ s = "COLLECT" /\ Straight[s] = "VERIFY"
        \/ s = "VERIFY" /\ Straight[s] = "ADVERSARIAL_VERIFY"
        \/ s = "ADVERSARIAL_VERIFY" /\ Straight[s] = "EVIDENCE"
        \/ s = "PATCH_LOOP" /\ Straight[s] = "PARALLEL_DISPATCH"
        \/ s = "NEXT_WAVE" /\ Straight[s] = "WAVE_READY"
    BY DEF Straight, StraightEdge
  <1>2. QED
    BY <1>1 DEF States, Terminal, Position

LEMMA PositionType ==
  ASSUME NEW s
  PROVE  Position(s) \in -3 .. 6
  BY DEF Position

(* Multiplication is monotone: a product of naturals, grown in one factor. *)
LEMMA ProductMonotone ==
  ASSUME NEW a \in Nat, NEW b \in Nat, NEW m \in Nat, a <= b
  PROVE  a * m <= b * m
  <1>1. PICK d \in Nat : b = a + d
    BY b - a \in Nat
  <1>2. b * m = a * m + d * m
    BY <1>1
  <1>3. a * m \in Nat /\ d * m \in Nat
    OBVIOUS
  <1>4. QED
    BY <1>2, <1>3

(* What a wave's full budget adds to the attempts before it.               *)
LEMMA NextWaveProduct ==
  ASSUME NEW a \in Nat, NEW m \in Nat
  PROVE  (a + 1) * m = a * m + m
  OBVIOUS

(* The waves before n, and n, are the waves up to n.                       *)
LEMMA IntervalGrows ==
  ASSUME NEW n \in Nat
  PROVE  (0 .. n - 1) \cup {n} = 0 .. n
  OBVIOUS

-----------------------------------------------------------------------------
(* The invariant, handler by handler                                       *)

LEMMA InitInv == Init => IInv
  <1> SUFFICES ASSUME Init PROVE IInv
    OBVIOUS
  <1> USE ConstantsAssumption DEF Init
  <1>1. TypeOK
    BY DEF TypeOK, States, Waves, Clusters, Gates, NoGate, NoCollect,
           Declarations, Ledgers, NoLedger
  <1>2. WavesInOrder /\ BudgetSpentMeansReview /\ ControlAssertionsHold
    BY DEF WavesInOrder, BudgetSpentMeansReview, ControlAssertionsHold, Clusters
  <1>3. StepsAccounted
    BY DEF StepsAccounted
  <1> QED
    BY <1>1, <1>2, <1>3 DEF IInv

(* The attempts of a wave in progress stay below its budget, and those of  *)
(* all waves below the step cap.                                           *)
LEMMA AttemptsBounded ==
  ASSUME IInv, ~is_terminal
  PROVE  /\ Attempts \in Nat
         /\ Attempts + 1 <= (current_wave + 1) * (MaxPatch + 1)
         /\ 3 + 7 * (Attempts + 1) <= StepCap
  <1> USE ConstantsAssumption
  <1>1. current_wave \in Nat /\ current_wave <= MaxWave /\ current_wave \in Clusters
    BY DEF IInv, TypeOK, Waves, Clusters
  <1>2. patch_attempts[current_wave] \in 0 .. MaxPatch
    BY <1>1 DEF IInv, TypeOK, BudgetSpentMeansReview
  <1>3. (current_wave + 1) * (MaxPatch + 1)
          = current_wave * (MaxPatch + 1) + (MaxPatch + 1)
    BY <1>1, NextWaveProduct, MaxPatch + 1 \in Nat
  <1>4. current_wave * (MaxPatch + 1) \in Nat
    BY <1>1
  <1>5. Attempts + 1 <= (current_wave + 1) * (MaxPatch + 1)
    BY <1>2, <1>3, <1>4 DEF Attempts
  <1>6. (current_wave + 1) * (MaxPatch + 1) <= (MaxWave + 1) * (MaxPatch + 1)
    BY <1>1, ProductMonotone, current_wave + 1 \in Nat, MaxWave + 1 \in Nat,
       MaxPatch + 1 \in Nat, current_wave + 1 <= MaxWave + 1
  <1>7. Attempts \in Nat
    BY <1>2, <1>4 DEF Attempts
  <1>8. (MaxWave + 1) * (MaxPatch + 1) \in Nat
    OBVIOUS
  <1>9. (current_wave + 1) * (MaxPatch + 1) \in Nat
    BY <1>1
  <1>10. 3 + 7 * (Attempts + 1) <= StepCap
    BY <1>5, <1>6, <1>7, <1>8, <1>9, StepCapAssumption
  <1> QED
    BY <1>5, <1>7, <1>10

(* A call that ends and leaves the five fields of the machine alone.       *)
LEMMA EndKeepsInv ==
  ASSUME IInv, UNCHANGED machine,
         last_gate' \in Gates, declaration' \in Declarations,
         last_collect' \in [wave: Waves \cup {-1}, passed: BOOLEAN],
         ledger' \in Ledgers,
         NEW e \in {"none", "illegal_transition", "unhandled_state", "provider",
                     "wave_skip"},
         e = "wave_skip" => skipped # {},
         Ends(e), UNCHANGED skipped
  PROVE  IInv'
  <1> USE DEF IInv, Ends, machine
  <1>1. TypeOK'
    BY ConstantsAssumption DEF TypeOK
  <1>2. WavesInOrder' /\ BudgetSpentMeansReview' /\ ControlAssertionsHold'
    BY DEF WavesInOrder, BudgetSpentMeansReview, ControlAssertionsHold, is_terminal
  <1>3. StepsAccounted'
    BY DEF StepsAccounted
  <1> QED
    BY <1>1, <1>2, <1>3

(* Recording a pass moves the machine to the next wave, or to EXIT.        *)
LEMMA RecordPassKeepsInv ==
  ASSUME IInv, state = "EVIDENCE", at \in {"owner", "gate"},
         RecordPass, Resumes, UNCHANGED skipped,
         last_gate' \in Gates, declaration' \in Declarations,
         last_collect' \in [wave: Waves \cup {-1}, passed: BOOLEAN],
         ledger' \in Ledgers
  PROVE  IInv'
  <1> USE ConstantsAssumption
  <1>0. ~is_terminal
    BY DEF is_terminal, Terminal
  <1>1. current_wave \in Nat /\ current_wave <= MaxWave
    BY DEF IInv, TypeOK, Waves
  <1>2. state' \in {"EXIT", "WAVE_READY"} /\ patch_attempts' = patch_attempts
    BY RecordPassMoves
  <1>3. TypeOK'
    <2>1. /\ current_wave' \in Waves /\ unlocked_waves' \in SUBSET Waves
          /\ passed_waves' \in SUBSET Waves
      <3>1. current_wave \in Waves
        BY DEF IInv, TypeOK
      <3>2. current_wave < MaxWave => current_wave + 1 \in Waves
        BY <1>1 DEF Waves
      <3>3. unlocked_waves \subseteq Waves /\ passed_waves \subseteq Waves
        BY DEF IInv, TypeOK
      <3>4. CASE current_wave >= MaxWave
        BY <3>1, <3>3, <3>4, RecordPassMoves
      <3>5. CASE current_wave < MaxWave
        BY <1>1, <3>1, <3>2, <3>3, <3>5, RecordPassMoves
      <3> QED
        BY <1>1, <3>4, <3>5
    <2>2. /\ at' \in {"owner", "loop", "swarm", "gate"} /\ steps' \in 0 .. StepCap
          /\ error' \in {"none", "illegal_transition", "wave_skip", "step_cap",
                         "unhandled_state", "collect", "provider"}
      BY DEF IInv, TypeOK, Resumes, Returns, Ends
    <2> QED
      BY <1>2, <2>1, <2>2 DEF IInv, TypeOK, States, Terminal
  <1>4. WavesInOrder'
    <2>1. /\ unlocked_waves = 0 .. current_wave /\ MaxWave \notin passed_waves
          /\ passed_waves \cup skipped = 0 .. current_wave - 1
          /\ passed_waves \cap skipped = {}
      BY DEF IInv, WavesInOrder
    <2>0. current_wave \notin skipped /\ skipped' = skipped
      BY <1>1, <2>1
    <2>2. CASE current_wave >= MaxWave
      <3>1. current_wave = MaxWave
        BY <1>1, <2>2
      <3>2. passed_waves' = passed_waves \cup {MaxWave}
        BY <3>1, RecordPassMoves
      <3>3. passed_waves' \cup skipped' = 0 .. MaxWave
        BY <1>1, <2>0, <2>1, <3>1, <3>2, IntervalGrows
      <3>4. passed_waves' \cap skipped' = {}
        BY <2>0, <2>1, <3>1, <3>2
      <3>5. /\ state' = "EXIT" /\ current_wave' = current_wave
            /\ unlocked_waves' = unlocked_waves
        BY <2>2, RecordPassMoves
      <3> QED
        BY <2>1, <3>1, <3>2, <3>3, <3>4, <3>5 DEF WavesInOrder, Waves
    <2>3. CASE ~(current_wave >= MaxWave)
      <3>1. current_wave' = current_wave + 1 /\ state' = "WAVE_READY"
        BY <2>3, RecordPassMoves
      <3>2. passed_waves' = passed_waves \cup {current_wave}
        BY RecordPassMoves
      <3>5. passed_waves' \cup skipped' = 0 .. current_wave
        BY <1>1, <2>0, <2>1, <3>2, IntervalGrows
      <3>6. passed_waves' \cap skipped' = {} /\ MaxWave \notin passed_waves'
        BY <1>1, <2>0, <2>1, <2>3, <3>2
      <3>3. unlocked_waves' = 0 .. current_wave + 1
        <4>1. current_wave + 1 \in Nat /\ (current_wave + 1) - 1 = current_wave
          BY <1>1
        <4>2. (0 .. current_wave) \cup {current_wave + 1} = 0 .. current_wave + 1
          BY <4>1, IntervalGrows
        <4> QED
          BY <2>1, <2>3, <4>2, RecordPassMoves
      <3>4. (current_wave + 1) - 1 = current_wave
        BY <1>1
      <3> QED
        BY <3>1, <3>3, <3>4, <3>5, <3>6 DEF WavesInOrder
    <2> QED
      BY <2>2, <2>3
  <1>5. BudgetSpentMeansReview' /\ ControlAssertionsHold'
    BY <1>0, <1>2 DEF IInv, BudgetSpentMeansReview, ControlAssertionsHold,
                      Resumes, Returns, Ends
  <1>6. StepsAccounted'
    <2>1. CASE at = "owner"
      BY <2>1 DEF Resumes, Returns, Ends, StepsAccounted
    <2>2. CASE at = "gate" /\ current_wave >= MaxWave
      BY <2>2, RecordPassMoves DEF Resumes, StepsAccounted, is_terminal, Terminal
    <2>3. CASE at = "gate" /\ ~(current_wave >= MaxWave)
      <3>1. /\ state' = "WAVE_READY" /\ current_wave' = current_wave + 1
            /\ steps' = steps /\ at' = "loop"
        BY <2>3, RecordPassMoves DEF Resumes
      <3>2. steps <= 3 + 7 * Attempts + 7 /\ steps \in Nat
        BY <1>0, <2>3 DEF IInv, StepsAccounted, TypeOK
      <3>3. current_wave + 1 \in Clusters
        BY <1>1, <2>3 DEF Clusters
      <3>4. patch_attempts[current_wave + 1] \in Nat
        BY <3>3 DEF IInv, TypeOK
      <3>5. /\ Attempts \in Nat
            /\ Attempts + 1 <= (current_wave + 1) * (MaxPatch + 1)
        BY <1>0, AttemptsBounded
      <3>6. (current_wave + 1) * (MaxPatch + 1) \in Nat
        BY <1>1
      <3>7. Attempts' = (current_wave + 1) * (MaxPatch + 1)
                          + patch_attempts[current_wave + 1]
        BY <1>2, <3>1 DEF Attempts
      <3>8. Attempts' \in Nat /\ Attempts + 1 <= Attempts'
        BY <3>4, <3>5, <3>6, <3>7
      <3>9. Position(state') = 0
        BY <3>1 DEF Position
      <3> QED
        BY <3>1, <3>2, <3>5, <3>8, <3>9 DEF StepsAccounted
    <2> QED
      BY <2>1, <2>2, <2>3
  <1> QED
    BY <1>3, <1>4, <1>5, <1>6 DEF IInv

(* A failed gate spends one attempt; the last one leads to review.  Only   *)
(* the driver's own cluster is told apart by the count of its steps.       *)
LEMMA RecordPatchKeepsInv ==
  ASSUME IInv, state = "EVIDENCE", at \in {"owner", "gate"},
         NEW c \in Clusters, at = "gate" => c = current_wave,
         record_patch("WAVE_GATE", c), Resumes, UNCHANGED skipped,
         last_gate' \in Gates, declaration' \in Declarations,
         last_collect' \in [wave: Waves \cup {-1}, passed: BOOLEAN],
         ledger' \in Ledgers
  PROVE  IInv'
  <1> USE ConstantsAssumption
  <1>0. ~is_terminal
    BY DEF is_terminal, Terminal
  <1>1. \A x \in Clusters : patch_attempts[x] \in 0 .. MaxPatch
    BY <1>0 DEF IInv, TypeOK, BudgetSpentMeansReview
  <1>2. /\ patch_attempts' = [patch_attempts EXCEPT ![c] = @ + 1]
        /\ patch_attempts \in [Clusters -> 0 .. MaxPatch + 1]
        /\ state' = IF patch_attempts[c] + 1 > MaxPatch
                      THEN "HUMAN_REVIEW_REQUIRED" ELSE "PATCH_LOOP"
        /\ UNCHANGED <<current_wave, unlocked_waves, passed_waves>>
    BY RecordPatchMoves DEF IInv, TypeOK
  <1>3. TypeOK'
    BY <1>1, <1>2 DEF IInv, TypeOK, Resumes, Returns, Ends, States, Terminal
  <1>4. WavesInOrder'
    BY <1>2 DEF IInv, WavesInOrder
  <1>5. BudgetSpentMeansReview'
    BY <1>1, <1>2 DEF BudgetSpentMeansReview, is_terminal, Terminal
  <1>6. ControlAssertionsHold'
    BY <1>2 DEF IInv, ControlAssertionsHold, Resumes, Returns, Ends
  <1>7. StepsAccounted'
    <2>1. CASE at = "owner"
      BY <2>1 DEF Resumes, Returns, Ends, StepsAccounted
    <2>2. CASE at = "gate"
      <3>1. at' = "loop" /\ steps' = steps /\ steps \in Nat /\ c = current_wave
        BY <2>2 DEF Resumes, IInv, TypeOK
      <3>2. steps <= 3 + 7 * Attempts + 7
        BY <1>0, <2>2 DEF IInv, StepsAccounted
      <3>3. patch_attempts'[current_wave] = patch_attempts[current_wave] + 1
        BY <1>2, <3>1
      <3>4. current_wave * (MaxPatch + 1) \in Nat
        BY DEF IInv, TypeOK, Waves
      <3>5. Attempts' = Attempts + 1 /\ Attempts \in Nat
        BY <1>1, <1>2, <3>1, <3>3, <3>4 DEF Attempts
      <3>6. Position(state') = 0
        BY <1>2 DEF Position
      <3> QED
        BY <3>1, <3>2, <3>5, <3>6 DEF StepsAccounted
    <2> QED
      BY <2>1, <2>2
  <1> QED
    BY <1>3, <1>4, <1>5, <1>6, <1>7 DEF IInv

(* apply_gate, in all its outcomes.                                        *)
LEMMA ApplyGateKeepsInv ==
  ASSUME IInv, at \in {"owner", "gate"},
         NEW g \in Gates, NEW l \in Ledgers, NEW c \in Clusters,
         at = "gate" => c = current_wave,
         apply_gate(g, l, c)
  PROVE  IInv'
  <1>1. last_gate' \in Gates /\ ledger' \in Ledgers /\ skipped' = skipped
    BY DEF apply_gate
  <1>2. NoCollect \in [wave: Waves \cup {-1}, passed: BOOLEAN]
    BY DEF NoCollect
  <1>3. CASE "WAVE_GATE" \notin AllowedTransitions[state]
    <2>1. /\ last_collect' = NoCollect /\ Ends("illegal_transition")
          /\ UNCHANGED machine /\ declaration' = declaration
      BY <1>3 DEF apply_gate
    <2>2. declaration' \in Declarations
      BY <2>1 DEF IInv, TypeOK
    <2> QED
      BY <1>1, <1>2, <2>1, <2>2, EndKeepsInv
  <1>4. CASE "WAVE_GATE" \in AllowedTransitions[state]
    <2>1. state = "EVIDENCE"
      BY <1>4, GateFromEvidence DEF IInv, TypeOK
    <2>2. PICK d \in Declarations, o \in CollectOutcomes :
            LET r == CollectResult(current_wave, l, d, o) IN
            /\ declaration' = d
            /\ last_collect' =
                 IF r \in {"accepted", "rejected"}
                   THEN [wave |-> current_wave, passed |-> r = "accepted"]
                   ELSE NoCollect
            /\ \/ /\ r = "raises"
                  /\ state' = "WAVE_GATE"
                  /\ Ends("collect")
                  /\ UNCHANGED <<current_wave, patch_attempts,
                                 unlocked_waves, passed_waves>>
               \/ r # "raises" /\ GatePassed(g, r) /\ RecordPass /\ Resumes
               \/ r # "raises" /\ ~GatePassed(g, r)
                  /\ record_patch("WAVE_GATE", c) /\ Resumes
      BY <1>4 DEF apply_gate
    <2> DEFINE r == CollectResult(current_wave, l, d, o)
    <2>3. declaration' \in Declarations
      BY <2>2
    <2>4. last_collect' \in [wave: Waves \cup {-1}, passed: BOOLEAN]
      <3>1. current_wave \in Waves
        BY DEF IInv, TypeOK
      <3>2. [wave |-> current_wave, passed |-> r = "accepted"]
              \in [wave: Waves \cup {-1}, passed: BOOLEAN]
        BY <3>1
      <3> QED
        BY <1>2, <2>2, <3>2
    <2>5. CASE RecordPass /\ Resumes
      BY <1>1, <2>1, <2>3, <2>4, <2>5, RecordPassKeepsInv
    <2>6. CASE record_patch("WAVE_GATE", c) /\ Resumes
      BY <1>1, <2>1, <2>3, <2>4, <2>6, RecordPatchKeepsInv
    <2>7. CASE /\ state' = "WAVE_GATE" /\ Ends("collect")
               /\ UNCHANGED <<current_wave, patch_attempts,
                              unlocked_waves, passed_waves>>
      <3>1. TypeOK'
        BY <1>1, <2>3, <2>4, <2>7, ConstantsAssumption DEF IInv, TypeOK, Ends, States
      <3>2. WavesInOrder' /\ ControlAssertionsHold'
        BY <1>1, <2>1, <2>7 DEF IInv, WavesInOrder, ControlAssertionsHold, Ends
      <3>3. BudgetSpentMeansReview' /\ StepsAccounted'
        BY <2>1, <2>7 DEF IInv, BudgetSpentMeansReview, StepsAccounted, Ends,
                          is_terminal, Terminal
      <3> QED
        BY <3>1, <3>2, <3>3 DEF IInv
    <2> QED
      BY <2>2, <2>5, <2>6, <2>7
  <1> QED
    BY <1>3, <1>4

(* stop, from the owner or from inside a callback.                         *)
LEMMA StopKeepsInv ==
  ASSUME IInv, stop, at \in {"owner", "swarm", "gate"}
  PROVE  IInv'
  <1>1. state' = "STOPPED" /\ state \notin Terminal
    BY DEF stop, transition, is_terminal
  <1>2. UNCHANGED <<current_wave, patch_attempts, unlocked_waves, passed_waves>>
    BY DEF stop
  <1>3. UNCHANGED <<last_gate, last_collect, declaration, ledger, at, steps, error, skipped>>
    BY DEF stop, gating, driver
  <1>4. TypeOK' /\ ControlAssertionsHold'
    BY <1>1, <1>2, <1>3 DEF IInv, TypeOK, ControlAssertionsHold, States, Terminal
  <1>5. WavesInOrder' /\ BudgetSpentMeansReview'
    BY <1>1, <1>2, <1>3 DEF IInv, WavesInOrder, BudgetSpentMeansReview, Terminal,
                            is_terminal
  <1>6. StepsAccounted'
    BY <1>1, <1>2, <1>3 DEF IInv, StepsAccounted, is_terminal, Terminal
  <1> QED
    BY <1>4, <1>5, <1>6 DEF IInv

(* There are steps left for this turn, and the wave check fails only where *)
(* the wave before was left behind.                                        *)
LEMMA OnlySkipsRaise ==
  ASSUME IInv, LoopTurns
  PROVE  /\ steps < StepCap /\ Raised \in {"none", "wave_skip"}
         /\ Raised = "wave_skip" => state \in {"PLAN", "WAVE_READY"} /\ skipped # {}
  <1> USE ConstantsAssumption
  <1>1. steps < StepCap
    <2>1. steps <= 3 + 7 * Attempts + Position(state)
      BY DEF IInv, StepsAccounted, LoopTurns
    <2>2. Attempts \in Nat /\ 3 + 7 * (Attempts + 1) <= StepCap
      BY AttemptsBounded DEF LoopTurns
    <2>3. Position(state) \in -3 .. 6
      BY PositionType
    <2>4. steps \in 0 .. StepCap
      BY DEF IInv, TypeOK
    <2> QED
      BY <2>1, <2>2, <2>3, <2>4
  <1>2. steps \in 0 .. StepCap
    BY DEF IInv, TypeOK
  <1>3. ASSUME state \in {"PLAN", "WAVE_READY"}, ~WaveUnlocked(current_wave)
        PROVE  skipped # {}
    <2>1. /\ MaxWave \notin passed_waves
          /\ unlocked_waves = 0 .. current_wave
          /\ passed_waves \cup skipped = 0 .. current_wave - 1
      BY <1>3 DEF IInv, WavesInOrder
    <2>2. current_wave \in Nat
      BY DEF IInv, TypeOK, Waves
    <2>3. current_wave > 0 /\ current_wave - 1 \notin passed_waves
      BY <1>3, <2>1, <2>2 DEF WaveUnlocked
    <2> QED
      BY <2>1, <2>2, <2>3
  <1> QED
    BY <1>1, <1>2, <1>3 DEF Raised

(* A turn of the driver loop.                                              *)
LEMMA DriverKeepsInv ==
  ASSUME IInv, Driver
  PROVE  IInv'
  <1> USE ConstantsAssumption
  <1>0. /\ last_gate \in Gates /\ declaration \in Declarations
        /\ last_collect \in [wave: Waves \cup {-1}, passed: BOOLEAN]
        /\ ledger \in Ledgers /\ state \in States /\ steps \in 0 .. StepCap
    BY DEF IInv, TypeOK
  <1>1. CASE LoopReturns
    BY <1>0, <1>1, EndKeepsInv DEF LoopReturns, Returns, gating
  <1>2. LoopTurns =>
          /\ steps < StepCap /\ Raised \in {"none", "wave_skip"}
          /\ Raised = "wave_skip" => state \in {"PLAN", "WAVE_READY"} /\ skipped # {}
    BY OnlySkipsRaise
  <1>6. CASE Advance /\ Raised # "none"
    BY <1>0, <1>2, <1>6, EndKeepsInv DEF Advance, gating
  <1>3. CASE Advance /\ Raised = "none"
    <2>1. /\ at = "loop" /\ at' = "loop" /\ ~is_terminal /\ steps < StepCap
          /\ Straight[state] # "none" /\ state' = Straight[state]
          /\ steps' = steps + 1 /\ error' = error
          /\ UNCHANGED <<current_wave, patch_attempts, unlocked_waves, passed_waves>>
          /\ UNCHANGED <<last_gate, last_collect, declaration, ledger, skipped>>
      BY <1>2, <1>3 DEF Advance, LoopTurns, transition, gating
    <2>2. /\ state' \in States \ Terminal
          /\ state \notin Terminal
          /\ Position(state') = Position(state) + 1
      BY <1>0, <2>1, StraightEdges
    <2>3. TypeOK'
      BY <1>0, <2>1, <2>2 DEF IInv, TypeOK
    <2>4. WavesInOrder' /\ BudgetSpentMeansReview' /\ ControlAssertionsHold'
      BY <2>1, <2>2 DEF IInv, WavesInOrder, BudgetSpentMeansReview,
                        ControlAssertionsHold, Terminal, is_terminal
    <2>6. StepsAccounted'
      <3>1. steps <= 3 + 7 * Attempts + Position(state)
        BY <2>1 DEF IInv, StepsAccounted
      <3>2. Attempts' = Attempts
        BY <2>1 DEF Attempts
      <3>3. Attempts \in Nat
        BY <2>1, AttemptsBounded
      <3>4. Position(state) \in -3 .. 6
        BY PositionType
      <3> QED
        BY <1>0, <2>1, <2>2, <3>1, <3>2, <3>3, <3>4 DEF StepsAccounted
    <2> QED
      BY <2>3, <2>4, <2>6 DEF IInv
  <1>4. CASE AskSwarm
    <2>1. /\ at = "loop" /\ at' = "swarm" /\ ~is_terminal /\ steps < StepCap
          /\ state = "EVIDENCE" /\ state' = state /\ steps' = steps + 1
          /\ ledger' = NoLedger
          /\ UNCHANGED <<current_wave, patch_attempts, unlocked_waves, passed_waves>>
          /\ UNCHANGED <<last_gate, last_collect, declaration, error, skipped>>
      BY <1>2, <1>4 DEF AskSwarm, LoopTurns, machine, gating
    <2>2. TypeOK'
      BY <1>0, <2>1 DEF IInv, TypeOK, Ledgers
    <2>3. WavesInOrder' /\ BudgetSpentMeansReview' /\ ControlAssertionsHold'
      BY <2>1 DEF IInv, WavesInOrder, BudgetSpentMeansReview, ControlAssertionsHold,
                  is_terminal
    <2>5. StepsAccounted'
      <3>1. steps <= 3 + 7 * Attempts + 6
        BY <2>1 DEF IInv, StepsAccounted, Position
      <3>2. Attempts' = Attempts /\ Attempts \in Nat
        BY <2>1, AttemptsBounded DEF Attempts
      <3> QED
        BY <1>0, <2>1, <3>1, <3>2 DEF StepsAccounted
    <2> QED
      BY <2>2, <2>3, <2>5 DEF IInv
  <1>5. CASE UnhandledState
    <2>1. state \notin {"PLAN", "WAVE_READY"}
      BY <1>5 DEF UnhandledState, Straight, StraightEdge, States
    <2>2. Raised = "none"
      BY <1>2, <1>5, <2>1 DEF UnhandledState
    <2> QED
      BY <1>0, <1>5, <2>2, EndKeepsInv DEF UnhandledState, gating
  <1> QED
    BY <1>1, <1>3, <1>4, <1>5, <1>6 DEF Driver

LEMMA ProviderKeepsInv ==
  ASSUME IInv, Provider
  PROVE  IInv'
  <1>0. /\ last_gate \in Gates /\ declaration \in Declarations
        /\ last_collect \in [wave: Waves \cup {-1}, passed: BOOLEAN]
        /\ ledger \in Ledgers /\ current_wave \in Clusters
    BY DEF IInv, TypeOK, Waves, Clusters
  <1>1. CASE SwarmReturns
    <2>1. /\ at = "swarm" /\ at' = "gate" /\ ledger' \in Ledgers
          /\ UNCHANGED <<state, current_wave, patch_attempts, unlocked_waves,
                         passed_waves, last_gate, last_collect, declaration,
                         steps, error, skipped>>
      BY <1>1 DEF SwarmReturns, machine, gating
    <2>2. TypeOK'
      BY <2>1 DEF IInv, TypeOK
    <2>3. WavesInOrder' /\ BudgetSpentMeansReview' /\ ControlAssertionsHold'
      BY <2>1 DEF IInv, WavesInOrder, BudgetSpentMeansReview, ControlAssertionsHold,
                  is_terminal
    <2>4. StepsAccounted'
      BY <2>1 DEF IInv, StepsAccounted, Attempts, is_terminal
    <2> QED
      BY <2>2, <2>3, <2>4 DEF IInv
  <1>2. CASE GateReturns
    BY <1>0, <1>2, ApplyGateKeepsInv DEF GateReturns
  <1>3. CASE ProviderRaises
    BY <1>0, <1>3, EndKeepsInv DEF ProviderRaises, gating
  <1> QED
    BY <1>1, <1>2, <1>3 DEF Provider

(* A call on a live machine that only makes its attempts grow keeps the    *)
(* account of the steps: the driver makes none meanwhile.                  *)
LEMMA CallKeepsSteps ==
  ASSUME IInv, at \in {"owner", "swarm", "gate"}, is_terminal => is_terminal',
         NEW m, Called(m),
         ~is_terminal => Attempts' \in Nat /\ Attempts <= Attempts'
  PROVE  StepsAccounted' /\ steps' \in 0 .. StepCap
  <1>1. CASE at = "owner"
    <2>1. steps = 0 /\ steps' = 0 /\ at' = "owner"
      BY <1>1 DEF IInv, StepsAccounted, Called, Ends, driver
    <2> QED
      BY <2>1, ConstantsAssumption DEF StepsAccounted
  <1>2. CASE at \in {"swarm", "gate"}
    <2>1. at' = at /\ steps' = steps /\ steps \in 0 .. StepCap
      BY <1>2 DEF Called, driver, IInv, TypeOK
    <2>2. ASSUME ~is_terminal'
          PROVE  steps' <= 3 + 7 * Attempts' + 7
      <3>1. steps <= 3 + 7 * Attempts + 7
        BY <1>2, <2>2 DEF IInv, StepsAccounted
      <3>2. Attempts \in Nat /\ Attempts' \in Nat /\ Attempts <= Attempts'
        BY <2>2, AttemptsBounded
      <3>3. steps \in Nat
        BY <2>1, ConstantsAssumption
      <3>4. \A a, b, n \in Nat : a <= b /\ n <= 3 + 7 * a + 7 => n <= 3 + 7 * b + 7
        OBVIOUS
      <3>5. steps <= 3 + 7 * Attempts' + 7
        BY <3>1, <3>2, <3>3, <3>4
      <3> QED
        BY <2>1, <3>5
    <2> QED
      BY <1>2, <2>1, <2>2 DEF StepsAccounted
  <1> QED
    BY <1>1, <1>2

(* What any call of the other methods leaves of type and error.            *)
LEMMA CalledLeaves ==
  ASSUME IInv, NEW m, Called(m), skipped \subseteq skipped'
  PROVE  /\ at \in {"owner", "swarm", "gate"} /\ at' = at
         /\ UNCHANGED <<last_gate, last_collect, declaration, ledger>>
         /\ error' \in {error, "illegal_transition"}
         /\ ControlAssertionsHold'
  BY DEF Called, Ends, driver, gating, IInv, TypeOK, ControlAssertionsHold

LEMMA TransitionKeepsInv ==
  ASSUME IInv, HolderTransition
  PROVE  IInv'
  <1>1. PICK s \in States :
          state' = IF s \in AllowedTransitions[state] THEN s ELSE state
    BY DEF HolderTransition
  <1>2. state' \in States /\ (is_terminal => state' = state)
    BY <1>1, GateFromEvidence DEF IInv, TypeOK, is_terminal
  <1>3. /\ UNCHANGED <<current_wave, patch_attempts, unlocked_waves, passed_waves, skipped>>
        /\ Called("transition")
    BY DEF HolderTransition
  <1>4. /\ at \in {"owner", "swarm", "gate"} /\ at' = at
        /\ UNCHANGED <<last_gate, last_collect, declaration, ledger>>
        /\ error' \in {error, "illegal_transition"}
        /\ ControlAssertionsHold'
    BY <1>3, CalledLeaves
  <1>5. Attempts' = Attempts /\ (is_terminal => is_terminal')
    BY <1>2, <1>3 DEF Attempts, is_terminal
  <1>6. StepsAccounted' /\ steps' \in 0 .. StepCap
    BY <1>3, <1>4, <1>5, AttemptsBounded, CallKeepsSteps
  <1>7. TypeOK'
    BY <1>2, <1>3, <1>4, <1>6 DEF IInv, TypeOK
  <1>8. WavesInOrder' /\ BudgetSpentMeansReview'
    BY <1>2, <1>3 DEF IInv, WavesInOrder, BudgetSpentMeansReview, is_terminal, Terminal
  <1> QED
    BY <1>4, <1>6, <1>7, <1>8 DEF IInv

(* record_patch counts first; when the count leaves the budget no state    *)
(* that is still open refuses the transition to review.                    *)
LEMMA PatchesKeepInv ==
  ASSUME IInv, HolderPatches
  PROVE  IInv'
  <1> USE ConstantsAssumption
  <1>1. PICK c \in Clusters : patch_attempts[c] <= MaxPatch /\ record_patch(state, c)
    BY DEF HolderPatches
  <1> DEFINE target == IF patch_attempts[c] + 1 > MaxPatch
                         THEN "HUMAN_REVIEW_REQUIRED" ELSE "PATCH_LOOP"
  <1>2. /\ patch_attempts' = [patch_attempts EXCEPT ![c] = @ + 1]
        /\ patch_attempts \in [Clusters -> 0 .. MaxPatch + 1]
        /\ state' = IF target \in AllowedTransitions[state] THEN target ELSE state
        /\ UNCHANGED <<current_wave, unlocked_waves, passed_waves, skipped>>
        /\ Called("record_patch")
    BY <1>1 DEF HolderPatches, record_patch, IInv, TypeOK
  <1>3. state' \in States /\ (is_terminal => state' = state)
    BY <1>2, GateFromEvidence DEF IInv, TypeOK, is_terminal, States, Terminal
  <1>4. /\ at \in {"owner", "swarm", "gate"} /\ at' = at
        /\ UNCHANGED <<last_gate, last_collect, declaration, ledger>>
        /\ error' \in {error, "illegal_transition"}
        /\ ControlAssertionsHold'
    BY <1>2, CalledLeaves
  <1>5. patch_attempts' \in [Clusters -> 0 .. MaxPatch + 1]
    BY <1>1, <1>2
  <1>6. BudgetSpentMeansReview'
    <2>1. CASE is_terminal
      BY <1>3, <2>1 DEF BudgetSpentMeansReview, is_terminal
    <2>2. CASE ~is_terminal
      <3>1. \A x \in Clusters : patch_attempts[x] \in 0 .. MaxPatch
        BY <1>2, <2>2 DEF IInv, BudgetSpentMeansReview
      <3>2. CASE patch_attempts[c] + 1 > MaxPatch
        <4>1. state' = "HUMAN_REVIEW_REQUIRED"
          BY <1>2, <2>2, <3>2, ReviewIsOpen DEF IInv, TypeOK, is_terminal
        <4> QED
          BY <4>1 DEF BudgetSpentMeansReview, is_terminal, Terminal
      <3>3. CASE ~(patch_attempts[c] + 1 > MaxPatch)
        BY <1>2, <3>1, <3>3 DEF BudgetSpentMeansReview
      <3> QED
        BY <3>2, <3>3
    <2> QED
      BY <2>1, <2>2
  <1>7. ~is_terminal => Attempts' \in Nat /\ Attempts <= Attempts'
    <2>1. current_wave \in Clusters /\ current_wave \in Nat
      BY DEF IInv, TypeOK, Waves, Clusters
    <2>2. /\ patch_attempts[current_wave] \in Nat /\ patch_attempts'[current_wave] \in Nat
          /\ patch_attempts[current_wave] <= patch_attempts'[current_wave]
      BY <1>1, <1>2, <2>1
    <2>3. current_wave * (MaxPatch + 1) \in Nat
      BY <2>1
    <2> QED
      BY <1>2, <2>2, <2>3 DEF Attempts
  <1>8. StepsAccounted' /\ steps' \in 0 .. StepCap
    BY <1>2, <1>3, <1>4, <1>7, CallKeepsSteps DEF is_terminal
  <1>9. TypeOK'
    BY <1>2, <1>3, <1>4, <1>5, <1>8 DEF IInv, TypeOK
  <1>10. WavesInOrder'
    BY <1>2, <1>3 DEF IInv, WavesInOrder, is_terminal, Terminal
  <1> QED
    BY <1>4, <1>6, <1>8, <1>9, <1>10 DEF IInv

(* unlock_next_wave from outside leaves a wave behind, in whatever state.  *)
LEMMA UnlocksKeepInv ==
  ASSUME IInv, HolderUnlocks
  PROVE  IInv'
  <1> USE ConstantsAssumption
  <1>1. current_wave \in Nat /\ current_wave <= MaxWave /\ state \in States
    BY DEF IInv, TypeOK, Waves
  <1>2. /\ state' \in States /\ (is_terminal => state' = state)
        /\ state = "EXIT" => state' = "EXIT"
    BY <1>1, GateFromEvidence
       DEF HolderUnlocks, unlock_next_wave, is_terminal, States, Terminal
  <1>3. /\ UNCHANGED <<patch_attempts, passed_waves>>
        /\ Called("unlock_next_wave") /\ skipped \subseteq skipped'
    BY DEF HolderUnlocks, unlock_next_wave
  <1>4. /\ at \in {"owner", "swarm", "gate"} /\ at' = at
        /\ UNCHANGED <<last_gate, last_collect, declaration, ledger>>
        /\ error' \in {error, "illegal_transition"}
        /\ ControlAssertionsHold'
    BY <1>3, CalledLeaves
  <1>5. CASE current_wave >= MaxWave
    <2>1. UNCHANGED <<current_wave, unlocked_waves, skipped>>
      BY <1>1, <1>5 DEF HolderUnlocks, unlock_next_wave
    <2>2. Attempts' = Attempts /\ (is_terminal => is_terminal')
      BY <1>2, <1>3, <2>1 DEF Attempts, is_terminal
    <2>3. StepsAccounted' /\ steps' \in 0 .. StepCap
      BY <1>3, <1>4, <2>2, AttemptsBounded, CallKeepsSteps
    <2>4. TypeOK'
      BY <1>2, <1>3, <1>4, <2>1, <2>3 DEF IInv, TypeOK
    <2>5. WavesInOrder' /\ BudgetSpentMeansReview'
      BY <1>2, <1>3, <2>1 DEF IInv, WavesInOrder, BudgetSpentMeansReview, is_terminal
    <2> QED
      BY <1>4, <2>3, <2>4, <2>5 DEF IInv
  <1>6. CASE current_wave < MaxWave
    <2>1. /\ current_wave' = current_wave + 1
          /\ unlocked_waves' = unlocked_waves \cup {current_wave + 1}
          /\ skipped' = skipped \cup {current_wave}
      BY <1>1, <1>6 DEF HolderUnlocks, unlock_next_wave
    <2>2. /\ MaxWave \notin passed_waves /\ unlocked_waves = 0 .. current_wave
          /\ passed_waves \cup skipped = 0 .. current_wave - 1
          /\ passed_waves \cap skipped = {}
      BY <1>1, <1>6 DEF IInv, WavesInOrder
    <2>3. WavesInOrder'
      <3>1. current_wave + 1 \in Nat /\ (current_wave + 1) - 1 = current_wave
        BY <1>1
      <3>2. /\ (0 .. current_wave) \cup {current_wave + 1} = 0 .. current_wave + 1
            /\ (0 .. current_wave - 1) \cup {current_wave} = 0 .. current_wave
        BY <1>1, <3>1, IntervalGrows
      <3>3. current_wave \notin passed_waves
        BY <1>1, <2>2
      <3> QED
        BY <1>3, <2>1, <2>2, <3>1, <3>2, <3>3 DEF WavesInOrder
    <2>4. ~is_terminal => Attempts' \in Nat /\ Attempts <= Attempts'
      <3> SUFFICES ASSUME ~is_terminal
                   PROVE  Attempts' \in Nat /\ Attempts <= Attempts'
        OBVIOUS
      <3>1. /\ Attempts \in Nat
            /\ Attempts + 1 <= (current_wave + 1) * (MaxPatch + 1)
        BY AttemptsBounded
      <3>2. current_wave + 1 \in Clusters
        BY <1>1, <1>6 DEF Clusters
      <3>3. patch_attempts[current_wave + 1] \in Nat
        BY <3>2 DEF IInv, TypeOK
      <3>4. (current_wave + 1) * (MaxPatch + 1) \in Nat
        BY <1>1
      <3>5. Attempts' = (current_wave + 1) * (MaxPatch + 1)
                          + patch_attempts[current_wave + 1]
        BY <1>3, <2>1 DEF Attempts
      <3> QED
        BY <3>1, <3>3, <3>4, <3>5
    <2>5. StepsAccounted' /\ steps' \in 0 .. StepCap
      BY <1>2, <1>3, <1>4, <2>4, CallKeepsSteps DEF is_terminal
    <2>6. current_wave' \in Waves /\ unlocked_waves' \in SUBSET Waves /\ skipped' \in SUBSET Waves
      BY <1>1, <1>6, <2>1 DEF IInv, TypeOK, Waves
    <2>7. TypeOK'
      BY <1>2, <1>3, <1>4, <2>5, <2>6 DEF IInv, TypeOK
    <2>8. BudgetSpentMeansReview'
      BY <1>2, <1>3 DEF IInv, BudgetSpentMeansReview, is_terminal
    <2> QED
      BY <1>4, <2>3, <2>5, <2>7, <2>8 DEF IInv
  <1> QED
    BY <1>1, <1>5, <1>6

LEMMA HolderKeepsInv ==
  ASSUME IInv, Holder
  PROVE  IInv'
  BY StopKeepsInv, TransitionKeepsInv, PatchesKeepInv, UnlocksKeepInv
     DEF Holder, ProviderStops

LEMMA OwnerKeepsInv ==
  ASSUME IInv, Owner
  PROVE  IInv'
  <1>1. CASE run_until_terminal
    <2>1. /\ at = "owner" /\ at' = "loop" /\ error' = "none" /\ steps = 0
          /\ UNCHANGED <<state, current_wave, patch_attempts, unlocked_waves,
                         passed_waves, last_gate, last_collect, declaration,
                         ledger, steps, skipped>>
      BY <1>1 DEF run_until_terminal, machine, gating, IInv, StepsAccounted
    <2>2. TypeOK' /\ ControlAssertionsHold'
      BY <2>1 DEF IInv, TypeOK, ControlAssertionsHold
    <2>3. WavesInOrder' /\ BudgetSpentMeansReview'
      BY <2>1 DEF IInv, WavesInOrder, BudgetSpentMeansReview, is_terminal
    <2>4. StepsAccounted'
      <3>1. ASSUME ~is_terminal
            PROVE  0 <= 3 + 7 * Attempts + Position(state)
        <4>1. Attempts \in Nat
          BY <3>1, AttemptsBounded
        <4>2. Position(state) \in -3 .. 6
          BY PositionType
        <4> QED
          BY <4>1, <4>2
      <3> QED
        BY <2>1, <3>1 DEF StepsAccounted, Attempts, is_terminal
    <2> QED
      BY <2>2, <2>3, <2>4 DEF IInv
  <1>2. CASE OwnerGate
    BY <1>2, ApplyGateKeepsInv DEF OwnerGate
  <1>3. CASE OwnerStop
    BY <1>3, StopKeepsInv DEF OwnerStop
  <1> QED
    BY <1>1, <1>2, <1>3 DEF Owner

LEMMA StutterKeepsInv == IInv /\ UNCHANGED vars => IInv'
  <1> SUFFICES ASSUME IInv, UNCHANGED vars PROVE IInv'
    OBVIOUS
  <1> USE DEF vars, machine, gating, driver
  <1>1. TypeOK' /\ WavesInOrder'
    BY DEF IInv, TypeOK, WavesInOrder
  <1>2. BudgetSpentMeansReview' /\ ControlAssertionsHold'
    BY DEF IInv, BudgetSpentMeansReview, ControlAssertionsHold, is_terminal
  <1>3. StepsAccounted'
    BY DEF IInv, StepsAccounted, Attempts, is_terminal
  <1> QED
    BY <1>1, <1>2, <1>3 DEF IInv

LEMMA NextKeepsInv == IInv /\ [Next]_vars => IInv'
  BY DriverKeepsInv, ProviderKeepsInv, OwnerKeepsInv, HolderKeepsInv,
     StutterKeepsInv DEF Next

LEMMA Invariance == Spec => []IInv
  BY InitInv, NextKeepsInv, PTL DEF Spec

-----------------------------------------------------------------------------
(* The theorems                                                            *)

(* The object and the driver's locals keep their types.                    *)
THEOREM TypeCorrect == Spec => []TypeOK
  <1>1. IInv => TypeOK
    BY DEF IInv
  <1> QED
    BY <1>1, Invariance, PTL

(* No interleaving of runs, calls of any method, stops and exceptions      *)
(* passes over a wave, but for the waves an outside unlock_next_wave left  *)
(* behind: for any number of waves.                                        *)
THEOREM WavesNeverSkipped == Spec => []WavesInOrder
  <1>1. IInv => WavesInOrder
    BY DEF IInv
  <1> QED
    BY <1>1, Invariance, PTL

(* A cluster whose budget is spent leaves no live machine, whoever calls   *)
(* record_patch and in whatever state.                                     *)
THEOREM BudgetLeadsToReview == Spec => []BudgetSpentMeansReview
  <1>1. IInv => BudgetSpentMeansReview
    BY DEF IInv
  <1> QED
    BY <1>1, Invariance, PTL

(* A step cap of 3 + 7 * waves * attempts is enough, however callbacks move*)
(* the machine about: the driver never trips over it, and over its own     *)
(* wave-skip check only after a wave was left behind from outside.         *)
THEOREM StepCapSuffices == Spec => []ControlAssertionsHold
  <1>1. IInv => ControlAssertionsHold
    BY DEF IInv
  <1> QED
    BY <1>1, Invariance, PTL

-----------------------------------------------------------------------------
(* What a step may do to the record                                        *)

(* Earned(g, l, d, lc): gate g, ledger l, yaml d and collect result lc     *)
(* together earn the record of the current wave.                           *)
Earned(g, l, d, lc) ==
  /\ g.passed /\ g.open = {} /\ ~g.stop
  /\ d.kind = "list"
  /\ (d.names # {} \/ l.bound) =>
        lc = [wave |-> current_wave, passed |-> TRUE] /\ l.wave = current_wave
  /\ d.names # {} => l.agents = d.names

(* A collect result that lets a gate pass comes from a readable yaml and   *)
(* from the ledger it asks for.                                            *)
LEMMA CollectResultEarned ==
  ASSUME NEW g \in Gates, NEW l \in Ledgers, NEW d \in Declarations,
         NEW o \in CollectOutcomes, NEW lc,
         GatePassed(g, CollectResult(current_wave, l, d, o)),
         CollectResult(current_wave, l, d, o) = "accepted" =>
           lc = [wave |-> current_wave, passed |-> TRUE]
  PROVE  Earned(g, l, d, lc)
  <1> DEFINE r == CollectResult(current_wave, l, d, o)
  <1>1. g.passed /\ g.open = {} /\ ~g.stop
    BY DEF GatePassed, Gates
  <1>2. r \in {"accepted", "skipped"}
    BY DEF GatePassed
  <1>3. d.kind \in {"list", "unreadable", "declaration"}
    BY DEF Declarations
  <1>4. d.kind # "declaration"
    BY <1>2 DEF CollectResult
  <1>5. CASE ~l.bound
    <2>1. ~ListsAgents(d)
      BY <1>2, <1>4, <1>5 DEF CollectResult, CollectDenied
    <2> QED
      BY <1>1, <1>3, <1>4, <1>5, <2>1 DEF ListsAgents, Earned
  <1>6. CASE l.bound
    <2>1. ~LedgerMismatch(l, d) /\ l.wave = current_wave /\ r = o
      BY <1>2, <1>4, <1>6 DEF CollectResult, CollectDenied
    <2>2. r = "accepted"
      BY <1>2, <2>1 DEF CollectOutcomes
    <2> QED
      BY <1>1, <1>3, <1>4, <2>1, <2>2 DEF LedgerMismatch, Earned
  <1> QED
    BY <1>5, <1>6

(* Within apply_gate, the record changes only by RecordPass, when earned.  *)
LEMMA GateRecords ==
  ASSUME IInv, NEW g \in Gates, NEW l \in Ledgers, NEW c \in Clusters,
         apply_gate(g, l, c), passed_waves' # passed_waves
  PROVE  /\ state = "EVIDENCE" /\ RecordPass
         /\ Earned(last_gate', ledger', declaration', last_collect')
  <1>1. "WAVE_GATE" \in AllowedTransitions[state]
    BY DEF apply_gate, machine
  <1>2. state = "EVIDENCE"
    BY <1>1, GateFromEvidence DEF IInv, TypeOK
  <1>3. PICK d \in Declarations, o \in CollectOutcomes :
          LET r == CollectResult(current_wave, l, d, o) IN
          /\ declaration' = d
          /\ last_collect' =
               IF r \in {"accepted", "rejected"}
                 THEN [wave |-> current_wave, passed |-> r = "accepted"]
                 ELSE NoCollect
          /\ r # "raises" /\ GatePassed(g, r) /\ RecordPass
    BY <1>1 DEF apply_gate, record_patch
  <1> DEFINE r == CollectResult(current_wave, l, d, o)
  <1>4. r = "accepted" => last_collect' = [wave |-> current_wave, passed |-> TRUE]
    BY <1>3
  <1>5. Earned(g, l, d, last_collect')
    BY <1>3, <1>4, CollectResultEarned
  <1>6. last_gate' = g /\ ledger' = l /\ declaration' = d
    BY <1>3 DEF apply_gate
  <1> QED
    BY <1>2, <1>3, <1>5, <1>6

(* So does any step of the machine.                                        *)
LEMMA StepRecords ==
  ASSUME IInv, [Next]_vars, passed_waves' # passed_waves
  PROVE  /\ state = "EVIDENCE" /\ RecordPass
         /\ Earned(last_gate', ledger', declaration', last_collect')
  <1>1. ~Driver
    BY DEF Driver, LoopReturns, Advance, AskSwarm, UnhandledState, machine
  <1>2. ~(SwarmReturns \/ ProviderRaises \/ Holder)
    BY DEF SwarmReturns, ProviderRaises, Holder, ProviderStops, stop, machine,
           HolderTransition, HolderPatches, HolderUnlocks, record_patch
  <1>3. ~(run_until_terminal \/ OwnerStop)
    BY DEF run_until_terminal, OwnerStop, stop, machine
  <1>4. GateReturns \/ OwnerGate
    BY <1>1, <1>2, <1>3 DEF Next, Provider, Owner, vars, machine
  <1>5. current_wave \in Clusters /\ ledger \in Ledgers
    BY DEF IInv, TypeOK, Waves, Clusters
  <1>6. PICK g \in Gates, l \in Ledgers, c \in Clusters : apply_gate(g, l, c)
    BY <1>4, <1>5 DEF GateReturns, OwnerGate
  <1> QED
    BY <1>6, GateRecords

(* A wave enters the record only by a clean gate and, where its yaml names *)
(* agents or a ledger is bound, by a collect of its own ledger.            *)
THEOREM RecordsAreEarned == Spec => RecordedOnlyWhenEarned
  <1>1. ASSUME IInv, [Next]_vars, passed_waves' # passed_waves
        PROVE  /\ passed_waves' = passed_waves \cup {current_wave}
               /\ last_gate'.passed /\ last_gate'.open = {} /\ ~last_gate'.stop
               /\ declaration'.kind = "list"
               /\ (declaration'.names # {} \/ ledger'.bound) =>
                    /\ last_collect' = [wave |-> current_wave, passed |-> TRUE]
                    /\ ledger'.wave = current_wave
               /\ declaration'.names # {} => ledger'.agents = declaration'.names
    BY <1>1, StepRecords, RecordPassMoves DEF Earned
  <1> QED
    BY <1>1, Invariance, PTL DEF Spec, RecordedOnlyWhenEarned

(* No step moves or records anything once the machine is terminal.         *)
LEMMA TerminalStep ==
  ASSUME IInv, [Next]_vars, is_terminal
  PROVE  UNCHANGED <<state, passed_waves>>
  <1> USE DEF machine
  <1>1. AllowedTransitions[state] = {}
    BY GateFromEvidence DEF is_terminal, IInv, TypeOK
  <1>2. ASSUME NEW g, NEW l, NEW c, apply_gate(g, l, c)
        PROVE  UNCHANGED <<state, passed_waves>>
    BY <1>1, <1>2 DEF apply_gate
  <1>3. ~stop
    BY DEF stop
  <1>4. Driver => UNCHANGED <<state, passed_waves>>
    BY DEF Driver, LoopReturns, LoopTurns, Advance, AskSwarm, UnhandledState
  <1>5. Provider => UNCHANGED <<state, passed_waves>>
    BY <1>2 DEF Provider, SwarmReturns, GateReturns, ProviderRaises
  <1>6. Owner => UNCHANGED <<state, passed_waves>>
    BY <1>2, <1>3 DEF Owner, run_until_terminal, OwnerGate, OwnerStop
  <1>7. Holder => UNCHANGED <<state, passed_waves>>
    BY <1>1, <1>3 DEF Holder, ProviderStops, HolderTransition, HolderPatches,
                      HolderUnlocks, record_patch, unlock_next_wave
  <1> QED
    BY <1>4, <1>5, <1>6, <1>7 DEF Next, vars

(* A terminal machine is final: a gate result that arrives after a stop is *)
(* refused whole.                                                          *)
THEOREM TerminalStaysTerminal == Spec => TerminalIsFinal
  BY TerminalStep, Invariance, PTL DEF Spec, TerminalIsFinal

(* The waves left behind grow only by unlock_next_wave called from outside.*)
LEMMA OnlyUnlockSkips ==
  ASSUME IInv, [Next]_vars, skipped' # skipped
  PROVE  /\ current_wave < MaxWave /\ skipped' = skipped \cup {current_wave}
         /\ current_wave' = current_wave + 1 /\ UNCHANGED passed_waves
         /\ state' = state \/ (state \notin Terminal /\ state' \notin Terminal)
  <1>1. ~Driver /\ ~Provider /\ ~Owner
    BY DEF Driver, LoopReturns, Advance, AskSwarm, UnhandledState, Provider,
           SwarmReturns, GateReturns, ProviderRaises, apply_gate, Owner,
           run_until_terminal, OwnerGate, OwnerStop, stop
  <1>2. HolderUnlocks
    BY <1>1 DEF Next, vars, Holder, ProviderStops, stop, HolderTransition, HolderPatches
  <1>3. current_wave < MaxWave /\ ~(current_wave >= MaxWave)
    BY <1>2, ConstantsAssumption DEF HolderUnlocks, IInv, TypeOK, Waves
  <1>4. "NEXT_WAVE" \in AllowedTransitions[state] => state \notin Terminal
    BY GateFromEvidence DEF IInv, TypeOK
  <1> QED
    BY <1>2, <1>3, <1>4 DEF HolderUnlocks, unlock_next_wave, Terminal

(* The machine implements WaveOrder: every step records the next wave in   *)
(* order, passes over it, halts, or leaves record and outcome alone.       *)
THEOREM RefinesWaveOrder == Spec => ImplementsWaveOrder
  <1>1. Init => Order!Init
    BY DEF Init, Order!Init, Outcome, Terminal, is_terminal
  <1>2. IInv /\ IInv' /\ [Next]_vars => [Order!Next]_(Order!waveVars)
    <2> SUFFICES ASSUME IInv, IInv', [Next]_vars
                 PROVE  [Order!Next]_(Order!waveVars)
      OBVIOUS
    <2>0. current_wave \in Nat /\ current_wave <= MaxWave /\ current_wave \in 0 .. MaxWave
      BY ConstantsAssumption DEF IInv, TypeOK, Waves
    <2>1. CASE passed_waves' # passed_waves
      <3>1. state = "EVIDENCE" /\ RecordPass
        BY <2>1, StepRecords
      <3>2. /\ passed_waves \cup skipped = 0 .. current_wave - 1
            /\ MaxWave \notin passed_waves
        BY <3>1 DEF IInv, WavesInOrder
      <3>3. skipped' = skipped
        BY <2>1, OnlyUnlockSkips
      <3>4. Outcome = "open"
        BY <3>1, <3>2 DEF Outcome, Terminal, is_terminal
      <3>5. passed_waves' = passed_waves \cup {current_wave}
        BY <3>1 DEF RecordPass
      <3>6. Outcome' = IF current_wave = MaxWave THEN "complete" ELSE "open"
        <4>1. CASE current_wave = MaxWave
          BY <3>5, <4>1 DEF Outcome
        <4>2. CASE current_wave # MaxWave
          <5>1. state' = "WAVE_READY" /\ MaxWave \notin passed_waves'
            BY <2>0, <3>1, <3>2, <3>5, <4>2, RecordPassMoves, ConstantsAssumption
          <5> QED
            BY <4>2, <5>1 DEF Outcome, Terminal, is_terminal
        <4> QED
          BY <4>1, <4>2
      <3>7. Order!Record(current_wave)
        BY <3>2, <3>3, <3>4, <3>5, <3>6 DEF Order!Record, Order!IsAt
      <3> QED
        BY <2>0, <3>7 DEF Order!Next
    <2>2. CASE passed_waves' = passed_waves /\ skipped' # skipped
      <3>1. /\ current_wave < MaxWave /\ skipped' = skipped \cup {current_wave}
            /\ state' = state \/ (state \notin Terminal /\ state' \notin Terminal)
        BY <2>2, OnlyUnlockSkips
      <3>2. passed_waves \cup skipped = 0 .. current_wave - 1
        BY <2>0, <3>1 DEF IInv, WavesInOrder
      <3>3. Outcome' = Outcome
        BY <2>2, <3>1 DEF Outcome, is_terminal
      <3>4. Order!Skip(current_wave)
        BY <2>2, <3>1, <3>2, <3>3 DEF Order!Skip, Order!IsAt
      <3> QED
        BY <2>0, <3>4 DEF Order!Next
    <2>3. CASE passed_waves' = passed_waves /\ skipped' = skipped /\ Outcome' # Outcome
      <3>1. state' # state
        BY <2>3 DEF Outcome, is_terminal
      <3>2. ~is_terminal
        BY <3>1, TerminalStep
      <3>3. MaxWave \notin passed_waves
        BY <3>2 DEF IInv, WavesInOrder, is_terminal, Terminal
      <3>4. Outcome = "open" /\ Outcome' = "halted"
        BY <2>3, <3>2, <3>3 DEF Outcome
      <3> QED
        BY <2>3, <3>4 DEF Order!Next, Order!Halt
    <2>4. CASE passed_waves' = passed_waves /\ skipped' = skipped /\ Outcome' = Outcome
      BY <2>4 DEF Order!waveVars
    <2> QED
      BY <2>1, <2>2, <2>3, <2>4
  <1> QED
    BY <1>1, <1>2, Invariance, PTL DEF Spec, ImplementsWaveOrder, Order!Spec

(* From WAVE_GATE, where an exception or a call leaves it, no verdict moves*)
(* the machine, the driver hands it back, and nothing is recorded.         *)
THEOREM ParkedGateIsStuck == Spec => ParkedGateTakesNoVerdict
  <1>1. ASSUME IInv, [Next]_vars, state = "WAVE_GATE"
        PROVE  [ /\ UNCHANGED passed_waves
                 /\ last_gate' # last_gate => UNCHANGED machine
                 /\ at = "loop" =>
                      UNCHANGED machine /\ error' = "unhandled_state" ]_vars
    <2>0. SUFFICES ASSUME Next
                   PROVE  /\ UNCHANGED passed_waves
                          /\ last_gate' # last_gate => UNCHANGED machine
                          /\ at = "loop" =>
                               UNCHANGED machine /\ error' = "unhandled_state"
      BY <1>1
    <2>1. "WAVE_GATE" \notin AllowedTransitions[state] /\ Straight[state] = "none"
      BY <1>1, GateFromEvidence, StraightEdges DEF IInv, TypeOK
    <2>2. ASSUME NEW g, NEW l, NEW c, apply_gate(g, l, c)
          PROVE  UNCHANGED machine
      BY <2>1, <2>2 DEF apply_gate
    <2>3. UNCHANGED passed_waves
      BY <1>1, StepRecords
    <2>4. Provider \/ OwnerGate => UNCHANGED machine
      BY <2>2 DEF Provider, SwarmReturns, GateReturns, ProviderRaises, OwnerGate
    <2>5. Driver \/ run_until_terminal \/ OwnerStop \/ Holder => UNCHANGED last_gate
      BY DEF Driver, LoopReturns, Advance, AskSwarm, UnhandledState,
             run_until_terminal, OwnerStop, Holder, ProviderStops, stop,
             HolderTransition, HolderPatches, HolderUnlocks, Called, gating
    <2>6. ASSUME at = "loop"
          PROVE  UNCHANGED machine /\ error' = "unhandled_state"
      <3>1. CASE UnhandledState
        <4>1. Raised = "none"
          BY <1>1, <3>1, OnlySkipsRaise DEF UnhandledState
        <4> QED
          BY <3>1, <4>1 DEF UnhandledState, Ends
      <3>2. ~LoopReturns /\ ~Advance /\ ~AskSwarm
        BY <1>1, <2>1 DEF LoopReturns, Advance, AskSwarm, is_terminal, Terminal
      <3>3. ~Provider /\ ~Owner /\ ~Holder
        BY <2>6 DEF Provider, SwarmReturns, GateReturns, ProviderRaises, Owner,
                    run_until_terminal, OwnerGate, OwnerStop, Holder, ProviderStops,
                    HolderTransition, HolderPatches, HolderUnlocks, Called
      <3> QED
        BY <2>0, <3>1, <3>2, <3>3 DEF Next, Driver
    <2>7. last_gate' # last_gate => UNCHANGED machine
      BY <2>0, <2>4, <2>5 DEF Next, Owner
    <2> QED
      BY <2>3, <2>6, <2>7
  <1> QED
    BY <1>1, Invariance, PTL DEF Spec, ParkedGateTakesNoVerdict

=============================================================================
