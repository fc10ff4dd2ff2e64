-------------------------------- MODULE Verdicts --------------------------------
(***************************************************************************)
(* Verdicts, how several are folded into one, and what a verdict permits   *)
(* (runner/verdict.py and the fold in runner/detectors/fabrication.py).    *)
(***************************************************************************)

Verdict == {"PASS", "FAIL", "UNKNOWN"}

(* Mutant: UNKNOWN dominates FAIL.                                         *)
worst_verdict_UnknownFirst(seen) ==
  IF "UNKNOWN" \in seen \/ seen = {} THEN "UNKNOWN"
  ELSE IF "FAIL" \in seen THEN "FAIL" ELSE "PASS"

(* FAIL dominates UNKNOWN dominates PASS; an empty set is not proof.       *)
worst_verdict(seen) ==
  IF "FAIL" \in seen THEN "FAIL"
  ELSE IF "UNKNOWN" \in seen \/ seen = {} THEN "UNKNOWN" ELSE "PASS"

(* PASS when a property holds, FAIL when not, UNKNOWN when a parameter it  *)
(* needs is undeclared.                                                    *)
(* Mutant: a property that holds anyway needs no declaration.              *)
WhenDeclared_HoldsAnyway(absent, needs, holds) ==
  IF holds THEN "PASS" ELSE IF needs \cap absent # {} THEN "UNKNOWN" ELSE "FAIL"

WhenDeclared(absent, needs, holds) ==
  IF needs \cap absent # {} THEN "UNKNOWN" ELSE IF holds THEN "PASS" ELSE "FAIL"

(* PASS allows; everything else, recognised or not, denies.                *)
resolve(v) == IF v = "PASS" THEN "ALLOW" ELSE "DENY"

=============================================================================
