---------------------------- MODULE KillSwitchDrill ----------------------------
(***************************************************************************)
(* kill_switch_drill_valid (runner/detectors/kill_switch.py:204-373): when *)
(* the record of a drill still counts.  The operator drills, redeploys,    *)
(* moves the stop file and attests; days pass; the gate judges the record. *)
(* Whoever writes a date may write a later one, and whoever writes a record*)
(* or a declaration may leave some of it out.                              *)
(***************************************************************************)
EXTENDS Integers, Verdicts

CONSTANTS
  MaxDay,       \* bound: the days a behaviour lasts
  Deployments,  \* values the three environment refs may have together
  Paths,        \* stop paths
  Cadences,     \* kill_switch_drill_cadence_days the Founder may declare
  Ahead         \* bound: the days by which a date may lie ahead of its writing

ASSUME DrillAssumption ==
  /\ MaxDay \in Nat
  /\ Cadences \subseteq Nat \ {0}
  /\ Ahead \in Nat
  /\ "none" \notin Paths \cup Deployments

Days == 0 .. MaxDay
Never == -1

(* A record's path is "none" when it lacks the commit or the path, its     *)
(* environment when it lacks one of the refs.                              *)
NoDrill == [at |-> Never, path |-> "none", env |-> "none", shows |-> FALSE]

VARIABLES
  today,
  path, env,    \* the stop path and the deployment in force
  named,        \* whether stop_state declares every ref of that deployment
  changed_at,   \* environment.changed_at, Never when undeclared
  cadence,      \* 0 while the Founder has declared none
  drill,        \* the drill record in the evidence, NoDrill when there is none
  attested,     \* independence_attestation.at, Never without a date or a name
  deployed,     \* history: when the deployment in force was put there
  last          \* history: the last drill, as it was performed

vars ==
  <<today, path, env, named, changed_at, cadence, drill, attested, deployed, last>>

(* The dates somebody may write today, Never for one left out.             *)
Dates == {Never} \cup today .. today + Ahead

Init ==
  /\ today = 0
  /\ path \in Paths
  /\ env \in Deployments
  /\ named \in BOOLEAN
  /\ changed_at = Never
  /\ cadence = 0
  /\ drill = NoDrill
  /\ attested = Never
  /\ deployed = 0
  /\ last = NoDrill

-----------------------------------------------------------------------------
(* The checks                                                              *)

KS_D0 == IF drill = NoDrill THEN "UNKNOWN" ELSE "PASS"

KS_D1 == IF cadence = 0 THEN "UNKNOWN" ELSE "PASS"

(* Mutant: a record up to twice as old still counts.                       *)
KS_D2_Lenient ==
  IF cadence = 0 \/ drill.at = Never THEN "UNKNOWN"
  ELSE IF today - drill.at > 2 * cadence THEN "FAIL" ELSE "PASS"

KS_D2 ==
  IF cadence = 0 \/ drill.at = Never THEN "UNKNOWN"
  ELSE IF today - drill.at > cadence THEN "FAIL" ELSE "PASS"

(* A before/after transition from running to stopped, with artifacts.      *)
KS_D3 == IF drill.shows THEN "PASS" ELSE "FAIL"

KS_D4 == IF drill.path = path THEN "PASS" ELSE "UNKNOWN"

(* Mutant: the environment is not compared.                                *)
KS_D5_Unchecked == "PASS"

KS_D5 == IF named /\ drill.env = env THEN "PASS" ELSE "UNKNOWN"

KS_D6 ==
  IF \/ attested = Never \/ attested > today
     \/ changed_at # Never /\ attested < changed_at
    THEN "UNKNOWN" ELSE "PASS"

(* Without a record KS-D0 stands in for the six checks.                    *)
DrillVerdict ==
  IF KS_D0 # "PASS" THEN KS_D0
  ELSE worst_verdict({KS_D1, KS_D2, KS_D3, KS_D4, KS_D5, KS_D6})

-----------------------------------------------------------------------------
(* The operator                                                            *)

NextDay ==
  /\ today < MaxDay
  /\ today' = today + 1
  /\ UNCHANGED <<path, env, named, changed_at, cadence, drill, attested, deployed, last>>

(* A drill is performed and recorded; it may not have stopped anything, and*)
(* its record may lack something.                                          *)
PerformDrill ==
  /\ \E s \in BOOLEAN, d \in Dates, p \in {path, "none"}, e \in {env, "none"} :
       /\ drill' = [at |-> d, path |-> p, env |-> e, shows |-> s]
       /\ last' = [at |-> today, path |-> path, env |-> env, shows |-> s]
  /\ UNCHANGED <<today, path, env, named, changed_at, cadence, attested, deployed>>

Redeploy ==
  /\ env' \in Deployments \ {env}
  /\ named' \in BOOLEAN
  /\ changed_at' \in Dates
  /\ deployed' = today
  /\ UNCHANGED <<today, path, cadence, drill, attested, last>>

MoveStop ==
  /\ path' \in Paths \ {path}
  /\ UNCHANGED <<today, env, named, changed_at, cadence, drill, attested, deployed, last>>

Attest ==
  /\ attested' \in Dates
  /\ UNCHANGED <<today, path, env, named, changed_at, cadence, drill, deployed, last>>

DeclareCadence ==
  /\ cadence' \in Cadences
  /\ UNCHANGED <<today, path, env, named, changed_at, drill, attested, deployed, last>>

Next ==
  \/ NextDay \/ PerformDrill \/ Redeploy \/ MoveStop \/ Attest \/ DeclareCadence

Spec == Init /\ [][Next]_vars

-----------------------------------------------------------------------------
(* Properties                                                              *)

(* No date lies further ahead than one may be written, and a record is of  *)
(* a path and deployment as far as it says.                                *)
TypeOK ==
  /\ today \in Days /\ path \in Paths /\ env \in Deployments /\ named \in BOOLEAN
  /\ changed_at \in {Never} \cup 0 .. today + Ahead
  /\ cadence \in {0} \cup Cadences
  /\ drill \in [at: {Never} \cup 0 .. today + Ahead, path: Paths \cup {"none"},
                env: Deployments \cup {"none"}, shows: BOOLEAN]
  /\ attested \in {Never} \cup 0 .. today + Ahead
  /\ deployed \in 0 .. today
  /\ last \in {NoDrill} \cup
       [at: 0 .. today, path: Paths, env: Deployments, shows: BOOLEAN]

(* "An untested kill switch does not exist": while the record counts, the  *)
(* stop path in force really stopped a deployment equal to the one in      *)
(* force, no longer ago than the declared cadence and the days by which    *)
(* the record may be dated ahead: KS-D2 takes a date in the future for     *)
(* fresh, and the record lives that much longer.                           *)
PassMeansRecentStop ==
  DrillVerdict = "PASS" =>
    /\ cadence \in Cadences
    /\ last.shows /\ last.path = path /\ last.env = env
    /\ today - last.at <= cadence + Ahead

(* A deployment or path change never leaves a valid record valid, however  *)
(* recent the drill (kill_switch.py:52-56).                                *)
ChangeInvalidates ==
  [][ (DrillVerdict = "PASS" /\ (env' # env \/ path' # path))
        => DrillVerdict' # "PASS" ]_vars

(* kill_switch.py:229-235: a drill older than the cadence does not count.  *)
CadenceBoundsAge ==
  DrillVerdict = "PASS" => today - last.at <= cadence

(* kill_switch.py:342-345: KS-D6 checks that the attestation is not older  *)
(* than the deployment it purports to describe.                            *)
AttestationCoversDeployment == DrillVerdict = "PASS" => attested >= deployed

(* kill_switch.py:52-54: a change to the environment invalidates the drill *)
(* at once: what counts is a drill since the last change.                  *)
NoChangeSinceDrill == DrillVerdict = "PASS" => drill.at >= deployed

=============================================================================
