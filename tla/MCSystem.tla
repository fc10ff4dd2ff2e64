-------------------------------- MODULE MCSystem --------------------------------
(* System for TLC.  A clean artifact carries one of three packs, an artifact*)
(* with something against it carries none.                                  *)
EXTENDS System
Clean ==
  [loads |-> TRUE, live_false |-> TRUE, claims_pass |-> TRUE, probes |-> "run",
   structured |-> TRUE, binding |-> "CURRENT", digests |-> TRUE, findings |-> {}]

(* One thing wrong with the artifact, or no claim of PASS behind it.       *)
Flawed ==
  {[Clean EXCEPT !.loads = FALSE], [Clean EXCEPT !.live_false = FALSE],
   [Clean EXCEPT !.probes = "none"], [Clean EXCEPT !.probes = "skipped"],
   [Clean EXCEPT !.structured = FALSE],
   [Clean EXCEPT !.binding = "STALE"], [Clean EXCEPT !.binding = "UNKNOWN"],
   [Clean EXCEPT !.digests = FALSE],
   [Clean EXCEPT !.claims_pass = FALSE, !.digests = FALSE]}

Finding(id, severity, true_severity, hidden, fixed) ==
  [id |-> id, severity |-> severity, true_severity |-> true_severity,
   hidden |-> hidden, fixed |-> fixed]

(* Findings that are plain, disguised by id or by severity, or harmless.   *)
Reported ==
  {Finding(id, severity, "none", FALSE, fixed) :
     id \in {"V-CRIT", "V-HIGH", "plain"}, severity \in {"CRITICAL", "HIGH", "LOW"},
     fixed \in BOOLEAN}
  \cup {Finding("plain", "LOW", true_severity, hidden, FALSE) :
         true_severity \in {"CRITICAL", "HIGH", "LOW"}, hidden \in BOOLEAN}
  \cup {Finding("plain", "CRITICAL", "LOW", FALSE, FALSE),
         Finding("plain", "unheard-of", "none", FALSE, FALSE)}

GoodPack == [present |-> TRUE, path |-> TRUE, owner |-> TRUE,
             runner_writable |-> "false"]

(* A pack whose checks may all pass, one that names no file, and one that  *)
(* admits the runner may write it.                                         *)
MCCalls ==
  (Flawed \X {NoPack})
  \cup {<<[Clean EXCEPT !.findings = {f}], NoPack>> : f \in Reported}
  \cup ({Clean} \X
         {NoPack, GoodPack, [GoodPack EXCEPT !.path = FALSE],
          [GoodPack EXCEPT !.runner_writable = "true"]})

(* What the loop's waves leave behind: an artifact that passes unless it is *)
(* stopped, one that is a stop condition, and one with an open finding.     *)
MCLoopCalls ==
  {<<Clean, GoodPack>>, <<[Clean EXCEPT !.live_false = FALSE], NoPack>>,
   <<[Clean EXCEPT !.findings = {Finding("V-HIGH", "HIGH", "none", FALSE, FALSE)}], NoPack>>}

=============================================================================
