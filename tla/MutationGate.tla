------------------------------ MODULE MutationGate ------------------------------
(***************************************************************************)
(* runner/mutation_gate.py: every guard is broken on purpose, in the       *)
(* working tree, and the tests named for it must go red.                   *)
(*                                                                         *)
(* The tree outlives the process.  The process may be killed between any   *)
(* two of its steps or in the midst of a write, the suite, a read and a    *)
(* write may raise, and the gate is then run again on whatever tree is     *)
(* there.                                                                  *)
(***************************************************************************)
EXTENDS Integers, Sequences, FiniteSets

CONSTANTS
  Cases,      \* MUTATIONS, a sequence of [path, sentinels]
  Tests,
  Hides,      \* <<j, i>>: case j, or Cut, takes the anchor of case i away
  Faults      \* what may go wrong

Paths == {Cases[i].path : i \in 1 .. Len(Cases)}

ASSUME CasesAssumption ==
  /\ Cases \in Seq([path: Paths, sentinels: SUBSET Tests])
  /\ Hides \subseteq Int \X Int
  /\ Faults \subseteq {"kill", "suite", "read", "write", "restore"}

Indices == 1 .. Len(Cases)

(* A text somebody stopped writing: the suite fails on a broken one, and   *)
(* stays green on one that was cut where nothing tests it.                 *)
Broken == 0
Cut == -1

VARIABLES
  tree,     \* path -> the mutations its text carries, and whether it is torn
  catches,  \* case -> the tests that go red while it is applied
  stale,    \* cases whose anchor the code no longer has
  pc, current,
  found,    \* history: the tree as the gate found it
  original, \* bytes of the target, as applied() read them
  failing,  \* tests that failed in the last run of the suite
  results,  \* case -> whether its MutationResult is ok, as far as there is one
  verdict,  \* of the last gate: ok, failed, refused (baseline red) or raised
  fault     \* history: what went wrong in the last gate

vars == <<tree, catches, stale, pc, current, found, original,
          failing, results, verdict, fault>>

Target == Cases[current].path

Clean == [p \in Paths |-> {}]

Init ==
  /\ tree = Clean
  /\ catches \in [Indices -> SUBSET Tests]
  /\ stale \in SUBSET Indices
  /\ pc = "idle"
  /\ current = 1
  /\ found = Clean
  /\ original = {}
  /\ failing = {}
  /\ results = <<>>
  /\ verdict = "none"
  /\ fault = "none"

-----------------------------------------------------------------------------

(* The suite on a tree: the tests every mutation in it turns red.          *)
Red(t) == UNION {catches[i] : i \in {j \in Indices : j \in t[Cases[j].path]}}

SuiteIsRed(t) == Red(t) # {} \/ \E p \in Paths : Broken \in t[p]

(* The anchor of a case is gone from a stale file, and from one in which a *)
(* mutation replaced it: most hide their own, some contain it.             *)
AnchorIn(t, i) == i \notin stale /\ \A j \in t[Cases[i].path] : <<j, i>> \notin Hides

RunGate ==
  /\ pc = "idle"
  /\ pc' = "baseline"
  /\ current' = 1
  /\ found' = tree
  /\ results' = <<>>
  /\ verdict' = "none" /\ fault' = "none"
  /\ UNCHANGED <<tree, catches, stale, original, failing>>

(* The gate refuses a suite that is red before any mutation.               *)
Baseline ==
  /\ pc = "baseline"
  /\ IF SuiteIsRed(tree) THEN pc' = "idle" /\ verdict' = "refused"
                         ELSE pc' = "read" /\ UNCHANGED verdict
  /\ UNCHANGED <<tree, catches, stale, current, original, failing, results, found, fault>>

(* Mutant: the exception of a missing anchor is not caught.                *)
ReadTarget_Escapes ==
  /\ pc = "read" /\ current <= Len(Cases)
  /\ original' = tree[Target]
  /\ IF AnchorIn(tree, current)
       THEN pc' = "write" /\ UNCHANGED verdict
       ELSE pc' = "idle" /\ verdict' = "raised"
  /\ UNCHANGED <<tree, catches, stale, current, failing, results, found, fault>>

(* applied() reads the target; a missing anchor is a result, not a skip.   *)
ReadTarget ==
  /\ pc = "read" /\ current <= Len(Cases)
  /\ original' = tree[Target]
  /\ IF AnchorIn(tree, current)
       THEN pc' = "write" /\ UNCHANGED <<results, current>>
       ELSE /\ results' = Append(results, FALSE)
            /\ current' = current + 1
            /\ UNCHANGED pc
  /\ UNCHANGED <<tree, catches, stale, failing, verdict, found, fault>>

Mutated == [tree EXCEPT ![Target] = @ \cup {current}]

WriteMutation ==
  /\ pc = "write"
  /\ tree' = Mutated
  /\ pc' = "suite"
  /\ UNCHANGED <<catches, stale, current, original, failing, results, verdict, found, fault>>

RunSuite ==
  /\ pc = "suite"
  /\ failing' = Red(tree)
  /\ pc' = "restore"
  /\ UNCHANGED <<tree, catches, stale, current, original, results, verdict, found, fault>>

(* Mutants: any red test will do; the finally is lost.                     *)
Caught_AnyTest(i) == failing # {}
Restored_Not == tree

(* The suite is red and every sentinel is among the failures.              *)
Caught(i) == failing # {} /\ Cases[i].sentinels \subseteq failing

(* The finally of applied().                                               *)
Restored == [tree EXCEPT ![Target] = original]

(* The restoration is read back before the case is judged.                 *)
RestoreTarget ==
  /\ pc = "restore"
  /\ tree' = Restored
  /\ results' = Append(results, Caught(current))
  /\ current' = current + 1
  /\ pc' = "read"
  /\ UNCHANGED <<catches, stale, original, failing, verdict, found, fault>>

(* all(r.ok for r in results) and bool(results)                            *)
AllOk == (\A i \in DOMAIN results : results[i]) /\ results # <<>>

Report ==
  /\ pc = "read" /\ current > Len(Cases)
  /\ pc' = "idle"
  /\ verdict' = IF AllOk THEN "ok" ELSE "failed"
  /\ UNCHANGED <<tree, catches, stale, current, original, failing, results, found, fault>>

-----------------------------------------------------------------------------
(* What goes wrong                                                         *)

(* A write that stops half-way leaves some of what either text carried.    *)
Torn ==
  {[tree EXCEPT ![Target] = kept \cup {tear}] :
     kept \in SUBSET (tree[Target] \cup {current}), tear \in {Broken, Cut}}

(* What the finally leaves: the restoring write may fail in its turn.      *)
Left == {Restored} \cup (IF "restore" \in Faults THEN {tree} \cup Torn ELSE {})

Escapes(what) ==
  /\ what \in Faults
  /\ pc' = "idle" /\ verdict' = "raised" /\ fault' = what
  /\ UNCHANGED <<catches, stale, current, original, failing, results, found>>

(* The target cannot be read, or is no text: nothing was written yet.      *)
ReadRaises == pc = "read" /\ current <= Len(Cases) /\ Escapes("read") /\ UNCHANGED tree

(* Exceptions of the mutating write and of the suite go through the finally*)
(* to the caller; so does one of the suite's first run, with no finally.   *)
WriteRaises == pc = "write" /\ Escapes("write") /\ tree' \in Left

SuiteRaises ==
  /\ Escapes("suite")
  /\ \/ pc = "suite" /\ tree' \in Left
     \/ pc = "baseline" /\ UNCHANGED tree

(* The restoring write fails, or does not read back: RuntimeError.         *)
RestoreFails == pc = "restore" /\ Escapes("restore") /\ tree' \in {tree} \cup Torn

(* The process is killed: nothing runs its finally.                        *)
Kill ==
  /\ pc # "idle" /\ "kill" \in Faults
  /\ tree' \in {tree} \cup (IF pc \in {"write", "restore"} THEN Torn ELSE {})
  /\ pc' = "idle" /\ verdict' = "killed" /\ fault' = "kill"
  /\ UNCHANGED <<catches, stale, current, original, failing, results, found>>

(* Somebody checks the tree out again.                                     *)
Checkout ==
  /\ pc = "idle" /\ tree # Clean
  /\ tree' = Clean
  /\ verdict' = "none"
  /\ UNCHANGED <<catches, stale, pc, current, original, failing, results, found, fault>>

Gate ==
  \/ Baseline \/ ReadTarget \/ WriteMutation \/ RunSuite \/ RestoreTarget \/ Report

Fault == ReadRaises \/ WriteRaises \/ SuiteRaises \/ RestoreFails \/ Kill

Next == RunGate \/ Gate \/ Fault \/ Checkout

Spec == Init /\ [][Next]_vars

-----------------------------------------------------------------------------
(* Properties                                                              *)

(* The tree, the results so far and where the gate is.                     *)
TypeOK ==
  /\ tree \in [Paths -> SUBSET (Indices \cup {Broken, Cut})]
  /\ found \in [Paths -> SUBSET (Indices \cup {Broken, Cut})]
  /\ catches \in [Indices -> SUBSET Tests]
  /\ stale \subseteq Indices
  /\ pc \in {"idle", "baseline", "read", "write", "suite", "restore"}
  /\ current \in 1 .. Len(Cases) + 1
  /\ original \subseteq Indices \cup {Broken, Cut}
  /\ failing \subseteq Tests
  /\ results \in Seq(BOOLEAN)
  /\ verdict \in {"none", "ok", "failed", "refused", "raised", "killed"}
  /\ fault \in {"none", "kill", "suite", "read", "write", "restore"}

(* What a case deserves, judged alone on a tree on which the suite is green*)
Earned(t, i) ==
  /\ AnchorIn(t, i)
  /\ catches[i] # {} /\ Cases[i].sentinels \subseteq catches[i]

(* "The only way to tell them apart": a gate is ok only when every case was*)
(* applied and every one of its sentinels is a test that catches it by     *)
(* itself.  A mutation an earlier, killed gate left in the tree can vouch  *)
(* for no other, nor for itself where it contains its own anchor: it turns *)
(* the baseline red, or is not caught.                                     *)
OkMeansLoadBearing ==
  verdict = "ok" =>
    /\ \A i \in Indices : Earned(Clean, i)
    /\ \A p \in Paths : tree[p] \subseteq {Cut}

(* While the suite judges a case the tree is the one the gate found with   *)
(* that case in it and no other; a gate that reports, or refuses, leaves   *)
(* the tree it found.                                                      *)
OneMutationAtATime ==
  /\ pc \in {"suite", "restore"} =>
       tree = [found EXCEPT ![Target] = @ \cup {current}]
  /\ pc \in {"baseline", "read", "write"} => tree = found
  /\ verdict \in {"ok", "failed", "refused"} => tree = found

(* An anchor the code no longer has is a result against its case and no    *)
(* more: a gate that reports has judged every case, each as it would be    *)
(* judged alone on the tree that was found, and one that raised met a fault*)
(* of the machine it runs on.                                              *)
StaleIsReported ==
  /\ verdict \in {"ok", "failed"} =>
       DOMAIN results = Indices /\ \A i \in Indices : results[i] <=> Earned(found, i)
  /\ verdict = "raised" => fault \in Faults \ {"kill"}

(* mutation_gate.py:26-28: "a crash mid-case cannot leave a mutated tree   *)
(* behind".                                                                *)
CrashLeavesTreeClean == pc = "idle" => tree = Clean

(* The same: a tree on which the gate is ok is the one that was committed. *)
OkMeansTreeClean == verdict = "ok" => tree = Clean

=============================================================================
