--------------------------- MODULE MutationGate_proofs ---------------------------
(***************************************************************************)
(* For any table of mutations, any suite and any of the faults at any of   *)
(* the steps: the gate has one mutation in the tree at a time, and says ok *)
(* only of sentinels that catch their mutation by themselves.              *)
(***************************************************************************)
EXTENDS MutationGate, TLAPS

(* A mutation is found in the file of its case and in no other.            *)
AtHome(t) == \A p \in Paths : \A i \in t[p] \cap Indices : Cases[i].path = p

(* The case in hand, once its anchor was found.                            *)
CaseHeld ==
  pc \in {"write", "suite", "restore"} =>
    /\ current \in Indices
    /\ original = found[Target]
    /\ AnchorIn(found, current)

(* What the suite was red of is what the mutation turns red: the baseline  *)
(* was green.                                                              *)
BaselineGreen ==
  pc \in {"read", "write", "suite", "restore"} => ~SuiteIsRed(found)

FailuresAreOurs == pc = "restore" => failing = Red(tree)

(* There is a result for every case before the one in hand: what the case  *)
(* earned on the tree that was found.                                      *)
ResultsSoFar ==
  pc \in {"read", "write", "suite", "restore"} =>
    /\ Len(results) = current - 1
    /\ \A i \in DOMAIN results : results[i] <=> Earned(found, i)

(* A gate that has just been started has judged nothing yet.               *)
FreshStart == pc = "baseline" => results = <<>> /\ current = 1

Ended == verdict # "none" => pc = "idle"

IInv ==
  /\ TypeOK /\ AtHome(tree) /\ AtHome(found)
  /\ CaseHeld /\ BaselineGreen /\ FailuresAreOurs /\ ResultsSoFar
  /\ FreshStart /\ Ended
  /\ OneMutationAtATime /\ OkMeansLoadBearing /\ StaleIsReported

-----------------------------------------------------------------------------

LEMMA CasesAreNotTears == Broken \notin Indices /\ Cut \notin Indices
  BY CasesAssumption DEF Indices, Broken, Cut

LEMMA CasePaths == \A i \in Indices : Cases[i].path \in Paths
  BY DEF Indices, Paths

LEMMA LenIsNat == Len(Cases) \in Nat
  BY CasesAssumption

(* The finally puts back what was found.                                   *)
LEMMA RestoredIsFound ==
  ASSUME TypeOK, CaseHeld, OneMutationAtATime, pc \in {"write", "suite", "restore"}
  PROVE  Restored = found
<1>1. /\ current \in Indices /\ original = found[Target]
      /\ tree = found \/ tree = [found EXCEPT ![Target] = @ \cup {current}]
      /\ found \in [Paths -> SUBSET (Indices \cup {Broken, Cut})]
  BY DEF CaseHeld, OneMutationAtATime, TypeOK
<1>2. Target \in Paths
  BY <1>1, CasePaths DEF Target
<1>3. QED
  BY <1>1, <1>2 DEF Restored

(* Over a green baseline one mutation turns red what it turns red alone.   *)
LEMMA RedAlone ==
  ASSUME TypeOK, current \in Indices, Red(found) = {},
         tree = [found EXCEPT ![Target] = @ \cup {current}]
  PROVE  Red(tree) = catches[current]
<1>1. Target \in Paths /\ found \in [Paths -> SUBSET (Indices \cup {Broken, Cut})]
  BY CasePaths DEF Target, TypeOK
<1>2. \A p \in Paths : tree[p] = IF p = Target THEN found[p] \cup {current} ELSE found[p]
  BY <1>1
<1>3. \A j \in Indices : j \in tree[Cases[j].path]
                           <=> j = current \/ j \in found[Cases[j].path]
  <2> SUFFICES ASSUME NEW j \in Indices
               PROVE  j \in tree[Cases[j].path] <=> j = current \/ j \in found[Cases[j].path]
    OBVIOUS
  <2>1. Cases[j].path \in Paths
    BY CasePaths
  <2>2. QED
    BY <1>2, <2>1 DEF Target
<1>4. \A j \in Indices : j \in found[Cases[j].path] => catches[j] = {}
  BY DEF Red
<1>5. QED
  BY <1>3, <1>4 DEF Red

(* So the judgement is what the case earns by itself.                      *)
LEMMA CaughtIsEarned ==
  ASSUME IInv, pc = "restore"
  PROVE  Caught(current) <=> Earned(found, current)
<1>1. /\ current \in Indices /\ AnchorIn(found, current)
      /\ tree = [found EXCEPT ![Target] = @ \cup {current}]
      /\ Red(found) = {} /\ failing = Red(tree)
  BY DEF IInv, CaseHeld, BaselineGreen, FailuresAreOurs, OneMutationAtATime, SuiteIsRed
<1>2. failing = catches[current]
  BY <1>1, RedAlone DEF IInv
<1>3. QED
  BY <1>1, <1>2 DEF Caught, Earned

-----------------------------------------------------------------------------

LEMMA InitInv == Init => IInv
<1> SUFFICES ASSUME Init PROVE IInv
  OBVIOUS
<1>1. TypeOK
  BY LenIsNat DEF Init, TypeOK, Clean
<1>2. AtHome(tree) /\ AtHome(found)
  BY DEF Init, AtHome, Clean
<1>3. QED
  BY <1>1, <1>2 DEF Init, IInv, CaseHeld, BaselineGreen, FailuresAreOurs, ResultsSoFar,
                    FreshStart, Ended, OneMutationAtATime, OkMeansLoadBearing, StaleIsReported

LEMMA RunKeepsInv == IInv /\ RunGate => IInv'
<1> SUFFICES ASSUME IInv, RunGate PROVE IInv'
  OBVIOUS
<1>1. TypeOK'
  BY LenIsNat DEF IInv, TypeOK, RunGate
<1>2. AtHome(tree)' /\ AtHome(found)'
  BY DEF IInv, RunGate, AtHome
<1>3. QED
  BY <1>1, <1>2 DEF RunGate, IInv, CaseHeld, BaselineGreen, FailuresAreOurs, ResultsSoFar,
                    FreshStart, Ended, OneMutationAtATime, OkMeansLoadBearing, StaleIsReported

(* What no step but RunGate changes.                                       *)
LEMMA JudgementStands ==
  ASSUME UNCHANGED <<catches, stale, found>>
  PROVE  /\ SuiteIsRed(found)' <=> SuiteIsRed(found)
         /\ \A i \in Indices : AnchorIn(found, i)' <=> AnchorIn(found, i)
         /\ \A i \in Indices : Earned(found, i)' <=> Earned(found, i)
         /\ \A i \in Indices : Earned(Clean, i)' <=> Earned(Clean, i)
  BY DEF SuiteIsRed, Red, Earned, AnchorIn, Clean

LEMMA BaselineKeepsInv == IInv /\ Baseline => IInv'
<1> SUFFICES ASSUME IInv, Baseline PROVE IInv'
  OBVIOUS
<1>1. TypeOK'
  BY DEF IInv, TypeOK, Baseline
<1>2. AtHome(tree)' /\ AtHome(found)'
  BY DEF IInv, Baseline, AtHome
<1>3. SuiteIsRed(found)' <=> SuiteIsRed(found)
  BY JudgementStands DEF Baseline
<1>4. tree = found /\ verdict = "none"
  BY DEF Baseline, IInv, OneMutationAtATime, Ended
<1>5. results = <<>> /\ current = 1
  BY DEF Baseline, IInv, FreshStart
<1>6. QED
  BY <1>1, <1>2, <1>3, <1>4, <1>5
     DEF Baseline, IInv, CaseHeld, BaselineGreen, FailuresAreOurs, ResultsSoFar, FreshStart,
         Ended, OneMutationAtATime, OkMeansLoadBearing, StaleIsReported

(* A result more, of the case in hand.                                     *)
LEMMA OneMoreResult ==
  ASSUME TypeOK, ResultsSoFar, pc \in {"read", "restore"}, current \in Indices,
         NEW ok \in BOOLEAN, ok <=> Earned(found, current)
  PROVE  /\ Append(results, ok) \in Seq(BOOLEAN)
         /\ Len(Append(results, ok)) = current
         /\ \A i \in DOMAIN Append(results, ok) : Append(results, ok)[i] <=> Earned(found, i)
<1>1. results \in Seq(BOOLEAN) /\ Len(results) = current - 1 /\ current \in Nat
  BY LenIsNat DEF TypeOK, ResultsSoFar, Indices
<1>2. \A i \in DOMAIN results : results[i] <=> Earned(found, i)
  BY DEF ResultsSoFar
<1>3. /\ Len(Append(results, ok)) = current
      /\ DOMAIN Append(results, ok) = 1 .. current
      /\ Append(results, ok)[current] = ok
      /\ \A i \in 1 .. current - 1 : Append(results, ok)[i] = results[i] /\ i \in DOMAIN results
  BY <1>1
<1>4. \A i \in 1 .. current : i = current \/ i \in 1 .. current - 1
  BY <1>1
<1>5. Append(results, ok) \in Seq(BOOLEAN)
  BY <1>1
<1>6. QED
  BY <1>2, <1>3, <1>4, <1>5

LEMMA ReadKeepsInv == IInv /\ ReadTarget => IInv'
<1> SUFFICES ASSUME IInv, ReadTarget PROVE IInv'
  OBVIOUS
<1>1. current \in Indices /\ tree = found /\ verdict = "none" /\ ~SuiteIsRed(found)
  BY LenIsNat DEF ReadTarget, IInv, TypeOK, Indices, OneMutationAtATime, Ended, BaselineGreen
<1>2. Target \in Paths
  BY <1>1, CasePaths DEF Target
<1>3. /\ UNCHANGED <<tree, catches, stale, failing, verdict, found, fault>>
      /\ original' = found[Target]
  BY <1>1 DEF ReadTarget
<1>4. AtHome(tree)' /\ AtHome(found)'
  BY <1>3 DEF IInv, AtHome
<1>5. CASE AnchorIn(tree, current)
  <2>1. pc' = "write" /\ UNCHANGED <<results, current>>
    BY <1>5 DEF ReadTarget
  <2>2. TypeOK'
    BY <1>1, <1>2, <1>3, <2>1 DEF IInv, TypeOK
  <2>3. CaseHeld'
    BY <1>1, <1>3, <1>5, <2>1 DEF CaseHeld, Target, AnchorIn
  <2>4. ResultsSoFar'
    BY <1>3, <2>1 DEF IInv, ResultsSoFar, ReadTarget, Earned, AnchorIn
  <2>5. QED
    BY <1>1, <1>3, <1>4, <2>1, <2>2, <2>3, <2>4, JudgementStands
       DEF IInv, BaselineGreen, FailuresAreOurs, FreshStart, Ended, OneMutationAtATime,
           OkMeansLoadBearing, StaleIsReported
<1>6. CASE ~AnchorIn(tree, current)
  <2>1. pc = "read" /\ pc' = pc /\ results' = Append(results, FALSE) /\ current' = current + 1
    BY <1>6 DEF ReadTarget
  <2>2. /\ results' \in Seq(BOOLEAN) /\ Len(results') = current
        /\ \A i \in DOMAIN results' : results'[i] <=> Earned(found, i)
    BY <1>1, <1>6, <2>1, OneMoreResult DEF IInv, Earned
  <2>3. TypeOK'
    BY <1>1, <1>2, <1>3, <2>1, <2>2, LenIsNat DEF IInv, TypeOK, Indices
  <2>4. ResultsSoFar'
    BY <1>1, <1>3, <2>1, <2>2, LenIsNat DEF ResultsSoFar, Earned, AnchorIn, Indices
  <2>5. QED
    BY <1>1, <1>3, <1>4, <2>1, <2>3, <2>4, JudgementStands
       DEF IInv, CaseHeld, BaselineGreen, FailuresAreOurs, FreshStart, Ended,
           OneMutationAtATime, OkMeansLoadBearing, StaleIsReported
<1>7. QED
  BY <1>5, <1>6

LEMMA WriteKeepsInv == IInv /\ WriteMutation => IInv'
<1> SUFFICES ASSUME IInv, WriteMutation PROVE IInv'
  OBVIOUS
<1>1. /\ current \in Indices /\ tree = found /\ verdict = "none" /\ ~SuiteIsRed(found)
      /\ pc = "write" /\ pc' = "suite" /\ tree' = [tree EXCEPT ![Target] = @ \cup {current}]
      /\ UNCHANGED <<catches, stale, current, original, failing, results, verdict, found, fault>>
  BY DEF WriteMutation, Mutated, IInv, CaseHeld, OneMutationAtATime, Ended, BaselineGreen
<1>2. Target \in Paths /\ Target' = Target /\ Cases[current].path = Target
  BY <1>1, CasePaths DEF Target
<1>3. TypeOK'
  BY <1>1, <1>2 DEF IInv, TypeOK
<1>4. AtHome(tree)' /\ AtHome(found)'
  BY <1>1, <1>2 DEF IInv, TypeOK, AtHome
<1>5. CaseHeld' /\ ResultsSoFar'
  BY <1>1, <1>2 DEF IInv, CaseHeld, ResultsSoFar, Earned, AnchorIn
<1>6. QED
  BY <1>1, <1>2, <1>3, <1>4, <1>5, JudgementStands
     DEF IInv, BaselineGreen, FailuresAreOurs, FreshStart, Ended, OneMutationAtATime,
         OkMeansLoadBearing, StaleIsReported

LEMMA SuiteKeepsInv == IInv /\ RunSuite => IInv'
<1> SUFFICES ASSUME IInv, RunSuite PROVE IInv'
  OBVIOUS
<1>1. /\ pc = "suite" /\ pc' = "restore" /\ failing' = Red(tree) /\ verdict = "none"
      /\ UNCHANGED <<tree, catches, stale, current, original, results, verdict, found, fault>>
  BY DEF RunSuite, IInv, Ended
<1>2. Red(tree) \subseteq Tests /\ Red(tree)' = Red(tree)
  BY <1>1 DEF IInv, TypeOK, Red
<1>3. TypeOK'
  BY <1>1, <1>2 DEF IInv, TypeOK
<1>4. AtHome(tree)' /\ AtHome(found)' /\ CaseHeld' /\ ResultsSoFar'
  BY <1>1 DEF IInv, AtHome, CaseHeld, ResultsSoFar, Target, AnchorIn, Earned
<1>5. QED
  BY <1>1, <1>2, <1>3, <1>4, JudgementStands
     DEF IInv, BaselineGreen, FailuresAreOurs, FreshStart, Ended, OneMutationAtATime,
         OkMeansLoadBearing, StaleIsReported, Target

LEMMA RestoreKeepsInv == IInv /\ RestoreTarget => IInv'
<1> SUFFICES ASSUME IInv, RestoreTarget PROVE IInv'
  OBVIOUS
<1>1. /\ pc = "restore" /\ pc' = "read" /\ current' = current + 1 /\ verdict = "none"
      /\ results' = Append(results, Caught(current))
      /\ UNCHANGED <<catches, stale, original, failing, verdict, found, fault>>
      /\ current \in Indices /\ ~SuiteIsRed(found)
  BY DEF RestoreTarget, IInv, Ended, CaseHeld, BaselineGreen
<1>2. tree' = found /\ found \in [Paths -> SUBSET (Indices \cup {Broken, Cut})]
  BY <1>1, RestoredIsFound DEF RestoreTarget, IInv, TypeOK
<1>3. Caught(current) \in BOOLEAN /\ (Caught(current) <=> Earned(found, current))
  BY <1>1, CaughtIsEarned DEF Caught
<1>4. /\ results' \in Seq(BOOLEAN) /\ Len(results') = current
      /\ \A i \in DOMAIN results' : results'[i] <=> Earned(found, i)
  BY <1>1, <1>3, OneMoreResult DEF IInv
<1>5. TypeOK'
  BY <1>1, <1>2, <1>4, LenIsNat DEF IInv, TypeOK, Indices
<1>6. AtHome(tree)' /\ AtHome(found)'
  BY <1>1, <1>2 DEF IInv, AtHome
<1>7. ResultsSoFar'
  BY <1>1, <1>4, LenIsNat DEF ResultsSoFar, Earned, AnchorIn, Indices
<1>8. QED
  BY <1>1, <1>2, <1>5, <1>6, <1>7, JudgementStands
     DEF IInv, CaseHeld, BaselineGreen, FailuresAreOurs, FreshStart, Ended,
         OneMutationAtATime, OkMeansLoadBearing, StaleIsReported

(* What is in a tree on which every case earned its result: no mutation, as*)
(* each of them is caught and the suite was green.                         *)
LEMMA NothingLeft ==
  ASSUME TypeOK, AtHome(found), ~SuiteIsRed(found), \A i \in Indices : Earned(found, i)
  PROVE  /\ \A p \in Paths : found[p] \subseteq {Cut}
         /\ \A i \in Indices : Earned(Clean, i)
<1>1. \A i \in Indices : i \notin found[Cases[i].path]
  BY DEF SuiteIsRed, Red, Earned
<1>2. \A p \in Paths : found[p] \cap Indices = {} /\ Broken \notin found[p]
  BY <1>1 DEF AtHome, SuiteIsRed
<1>3. \A p \in Paths : found[p] \subseteq {Cut}
  BY <1>2 DEF TypeOK
<1>4. \A i \in Indices : Earned(Clean, i)
  BY CasePaths DEF Earned, AnchorIn, Clean
<1>5. QED
  BY <1>3, <1>4

(* A report is of every case.                                              *)
LEMMA ReportKeepsInv == IInv /\ Report => IInv'
<1> SUFFICES ASSUME IInv, Report PROVE IInv'
  OBVIOUS
<1>1. /\ pc = "read" /\ current > Len(Cases) /\ pc' = "idle"
      /\ verdict' = IF AllOk THEN "ok" ELSE "failed"
      /\ UNCHANGED <<tree, catches, stale, current, original, failing, results, found, fault>>
      /\ tree = found /\ ~SuiteIsRed(found)
  BY DEF Report, IInv, OneMutationAtATime, BaselineGreen
<1>2. TypeOK'
  BY <1>1 DEF IInv, TypeOK
<1>3. DOMAIN results = Indices /\ \A i \in Indices : results[i] <=> Earned(found, i)
  BY <1>1, LenIsNat DEF IInv, TypeOK, ResultsSoFar, Indices
<1>4. AllOk => OkMeansLoadBearing'
  <2> SUFFICES ASSUME AllOk PROVE OkMeansLoadBearing'
    OBVIOUS
  <2>1. \A i \in Indices : Earned(found, i)
    BY <1>3 DEF AllOk
  <2>2. /\ \A p \in Paths : found[p] \subseteq {Cut}
        /\ \A i \in Indices : Earned(Clean, i)
    BY <1>1, <2>1, NothingLeft DEF IInv
  <2>3. QED
    BY <1>1, <2>2, JudgementStands DEF OkMeansLoadBearing
<1>5. ~AllOk => OkMeansLoadBearing'
  BY <1>1 DEF OkMeansLoadBearing
<1>6. StaleIsReported'
  BY <1>1, <1>3, JudgementStands DEF StaleIsReported
<1>7. QED
  BY <1>1, <1>2, <1>4, <1>5, <1>6
     DEF IInv, AtHome, CaseHeld, BaselineGreen, FailuresAreOurs, ResultsSoFar, FreshStart,
         Ended, OneMutationAtATime

(* A torn text carries nothing that was not in the file or on its way.     *)
LEMMA TornTrees ==
  ASSUME IInv, current \in Indices, NEW t \in {tree} \cup Torn
  PROVE  t \in [Paths -> SUBSET (Indices \cup {Broken, Cut})] /\ AtHome(t)
<1>1. CASE t = tree
  BY <1>1 DEF IInv, TypeOK
<1>2. CASE t \in Torn
  <2>1. PICK kept \in SUBSET (tree[Target] \cup {current}), tear \in {Broken, Cut} :
          t = [tree EXCEPT ![Target] = kept \cup {tear}]
    BY <1>2 DEF Torn
  <2>2. Target \in Paths /\ Cases[current].path = Target
    BY CasePaths DEF Target
  <2>3. tree \in [Paths -> SUBSET (Indices \cup {Broken, Cut})] /\ AtHome(tree)
    BY DEF IInv, TypeOK
  <2>4. t \in [Paths -> SUBSET (Indices \cup {Broken, Cut})]
    BY <2>1, <2>2, <2>3
  <2>5. \A p \in Paths : t[p] = IF p = Target THEN kept \cup {tear} ELSE tree[p]
    BY <2>1, <2>2, <2>3
  <2>6. AtHome(t)
    BY <2>1, <2>2, <2>3, <2>5, CasesAreNotTears DEF AtHome
  <2>7. QED
    BY <2>4, <2>6
<1>3. QED
  BY <1>1, <1>2

(* Whatever goes wrong ends the gate, and nobody was told ok.              *)
LEMMA FaultsKeepInv == IInv /\ Fault => IInv'
<1> SUFFICES ASSUME IInv, Fault PROVE IInv'
  OBVIOUS
<1>1. /\ pc' = "idle" /\ verdict' \in {"raised", "killed"}
      /\ fault' \in Faults /\ (verdict' = "raised" => fault' # "kill")
      /\ UNCHANGED <<catches, stale, current, original, failing, results, found>>
  BY DEF Fault, ReadRaises, WriteRaises, SuiteRaises, RestoreFails, Kill, Escapes
<1>2. tree' \in [Paths -> SUBSET (Indices \cup {Broken, Cut})] /\ AtHome(tree')
  <2>1. CASE tree' = tree
    BY <2>1 DEF IInv, TypeOK
  <2>2. CASE tree' # tree
    <3>1. pc \in {"write", "suite", "restore"} /\ tree' \in {Restored, tree} \cup Torn
      BY <2>2 DEF Fault, ReadRaises, WriteRaises, SuiteRaises, RestoreFails, Kill, Left
    <3>2. current \in Indices /\ Restored = found
      BY <3>1, RestoredIsFound DEF IInv, CaseHeld
    <3>3. QED
      BY <3>1, <3>2, TornTrees DEF IInv, TypeOK
  <2>3. QED
    BY <2>1, <2>2
<1>3. TypeOK'
  BY <1>1, <1>2, CasesAssumption DEF IInv, TypeOK
<1>4. AtHome(tree)' /\ AtHome(found)'
  BY <1>1, <1>2 DEF IInv, AtHome
<1>5. QED
  BY <1>1, <1>3, <1>4
     DEF IInv, CaseHeld, BaselineGreen, FailuresAreOurs, ResultsSoFar, FreshStart,
         Ended, OneMutationAtATime, OkMeansLoadBearing, StaleIsReported

LEMMA CheckoutKeepsInv == IInv /\ Checkout => IInv'
<1> SUFFICES ASSUME IInv, Checkout PROVE IInv'
  OBVIOUS
<1>1. TypeOK'
  BY DEF IInv, TypeOK, Checkout, Clean
<1>2. AtHome(tree)' /\ AtHome(found)'
  BY DEF IInv, Checkout, AtHome, Clean
<1>3. QED
  BY <1>1, <1>2
     DEF Checkout, IInv, CaseHeld, BaselineGreen, FailuresAreOurs, ResultsSoFar, FreshStart,
         Ended, OneMutationAtATime, OkMeansLoadBearing, StaleIsReported

LEMMA StutterKeepsInv == IInv /\ UNCHANGED vars => IInv'
<1> SUFFICES ASSUME IInv, UNCHANGED vars PROVE IInv'
  OBVIOUS
<1>1. TypeOK' /\ AtHome(tree)' /\ AtHome(found)' /\ FailuresAreOurs' /\ FreshStart' /\ Ended'
  BY DEF vars, IInv, TypeOK, AtHome, FailuresAreOurs, Red, FreshStart, Ended
<1>2. CaseHeld' /\ OneMutationAtATime'
  BY DEF vars, IInv, CaseHeld, OneMutationAtATime, Target, AnchorIn
<1>3. BaselineGreen' /\ ResultsSoFar'
  BY DEF vars, IInv, BaselineGreen, ResultsSoFar, SuiteIsRed, Red, Earned, AnchorIn
<1>4. OkMeansLoadBearing' /\ StaleIsReported'
  BY JudgementStands DEF vars, IInv, OkMeansLoadBearing, StaleIsReported
<1>5. QED
  BY <1>1, <1>2, <1>3, <1>4 DEF IInv

LEMMA NextKeepsInv == IInv /\ [Next]_vars => IInv'
  BY RunKeepsInv, BaselineKeepsInv, ReadKeepsInv, WriteKeepsInv, SuiteKeepsInv,
     RestoreKeepsInv, ReportKeepsInv, FaultsKeepInv, CheckoutKeepsInv, StutterKeepsInv
     DEF Next, Gate

LEMMA Invariance == Spec => []IInv
<1>1. Init => IInv
  BY InitInv
<1>2. IInv /\ [Next]_vars => IInv'
  BY NextKeepsInv
<1>3. QED
  BY <1>1, <1>2, PTL DEF Spec

-----------------------------------------------------------------------------

(* While the suite judges a case the tree differs from the one the gate    *)
(* found by that case alone, and a gate that reports or refuses leaves the *)
(* tree it found (mutation_gate.py applied, run_gate), wherever earlier    *)
(* gates were killed.                                                      *)
THEOREM OneAtATime == Spec => []OneMutationAtATime
<1>1. IInv => OneMutationAtATime
  BY DEF IInv
<1>2. QED
  BY <1>1, Invariance, PTL

(* A gate that says ok has applied every case, each to a tree with no other*)
(* in it, and every sentinel is a test that catches its case by itself     *)
(* (run_gate), wherever earlier gates were killed, also in the midst of a  *)
(* write, and whatever they left behind.                                   *)
THEOREM OkIsLoadBearing == Spec => []OkMeansLoadBearing
<1>1. IInv => OkMeansLoadBearing
  BY DEF IInv
<1>2. QED
  BY <1>1, Invariance, PTL

(* A gate that reports has judged every case as it would be judged alone on*)
(* the tree that was found, a stale anchor among them, and only a fault of *)
(* the machine makes it raise (run_gate's except MutationError).           *)
THEOREM EveryCaseIsReported == Spec => []StaleIsReported
<1>1. IInv => StaleIsReported
  BY DEF IInv
<1>2. QED
  BY <1>1, Invariance, PTL

=============================================================================
