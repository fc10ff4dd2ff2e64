---------------------------- MODULE Detectors_proofs ----------------------------
(***************************************************************************)
(* What a PASS of the two detectors means that judge a submission against  *)
(* records people keep.  The kill switch detector: a drill record that     *)
(* still counts is of a stop that really happened, recently, on the path   *)
(* and deployment in force, for every cadence and any number of days.  The *)
(* capital side of a gate: with numbers that are numbers, whatever an agent*)
(* submits and however the rules change in between, a PASS stays within a  *)
(* tranche somebody set.                                                   *)
(***************************************************************************)
EXTENDS KillSwitchDrill, ValidationCapital, TLAPS

(***************************************************************************)
(* The drill                                                               *)
(***************************************************************************)

(* A record says nothing of the drill that was performed that is not so,   *)
(* save that its date may lie ahead.                                       *)
RecordIsHistory ==
  drill # NoDrill =>
    /\ last.at \in 0 .. today
    /\ drill.at = Never \/ drill.at <= last.at + Ahead
    /\ drill.shows = last.shows
    /\ drill.path \in {last.path, "none"} /\ drill.env \in {last.env, "none"}

IInv == TypeOK /\ RecordIsHistory

LEMMA InitInv == Init => IInv
  BY DrillAssumption DEF Init, IInv, TypeOK, RecordIsHistory, Days, NoDrill, Never

LEMMA DayKeepsInv == IInv /\ NextDay => IInv'
<1> SUFFICES ASSUME IInv, NextDay PROVE IInv'
  OBVIOUS
<1>1. /\ UNCHANGED <<path, env, named, changed_at, cadence, drill, attested, deployed, last>>
      /\ today \in Nat /\ today' = today + 1 /\ today' \in Days /\ Ahead \in Nat
  BY DrillAssumption DEF NextDay, IInv, TypeOK, Days
<1>2. /\ 0 .. today \subseteq 0 .. today'
      /\ 0 .. today + Ahead \subseteq 0 .. today' + Ahead
  BY <1>1
<1>3. changed_at' \in {Never} \cup 0 .. today' + Ahead /\ deployed' \in 0 .. today'
  BY <1>1, <1>2 DEF IInv, TypeOK
<1>4. attested' \in {Never} \cup 0 .. today' + Ahead
  BY <1>1, <1>2 DEF IInv, TypeOK
<1>5. drill' \in [at: {Never} \cup 0 .. today' + Ahead, path: Paths \cup {"none"},
                 env: Deployments \cup {"none"}, shows: BOOLEAN]
  BY <1>1, <1>2 DEF IInv, TypeOK
<1>6. last' \in {NoDrill} \cup
        [at: 0 .. today', path: Paths, env: Deployments, shows: BOOLEAN]
  BY <1>1, <1>2 DEF IInv, TypeOK
<1>7. TypeOK'
  BY <1>1, <1>3, <1>4, <1>5, <1>6 DEF IInv, TypeOK
<1>8. RecordIsHistory'
  BY <1>1, <1>2 DEF IInv, RecordIsHistory
<1>9. QED
  BY <1>7, <1>8 DEF IInv

LEMMA PerformKeepsInv == IInv /\ PerformDrill => IInv'
<1> SUFFICES ASSUME IInv, PerformDrill PROVE IInv'
  OBVIOUS
<1>1. PICK s \in BOOLEAN, d \in Dates, p \in {path, "none"}, e \in {env, "none"} :
        /\ drill' = [at |-> d, path |-> p, env |-> e, shows |-> s]
        /\ last' = [at |-> today, path |-> path, env |-> env, shows |-> s]
  BY DEF PerformDrill
<1>2. /\ UNCHANGED <<today, path, env, named, changed_at, cadence, attested, deployed>>
      /\ today \in Nat /\ path \in Paths /\ env \in Deployments /\ Ahead \in Nat
  BY DrillAssumption DEF PerformDrill, IInv, TypeOK, Days
<1>3. d \in {Never} \cup 0 .. today + Ahead /\ (d = Never \/ d <= today + Ahead)
  BY <1>2 DEF Dates, Never
<1>4. drill' \in [at: {Never} \cup 0 .. today' + Ahead, path: Paths \cup {"none"},
                 env: Deployments \cup {"none"}, shows: BOOLEAN]
  BY <1>1, <1>2, <1>3
<1>5. last' \in [at: 0 .. today', path: Paths, env: Deployments, shows: BOOLEAN]
  BY <1>1, <1>2
<1>6. TypeOK'
  BY <1>2, <1>4, <1>5 DEF IInv, TypeOK
<1>7. RecordIsHistory'
  BY <1>1, <1>2, <1>3 DEF RecordIsHistory
<1>8. QED
  BY <1>6, <1>7 DEF IInv

LEMMA OtherKeepsInv ==
  IInv /\ (Redeploy \/ MoveStop \/ Attest \/ DeclareCadence) => IInv'
<1> SUFFICES ASSUME IInv, Redeploy \/ MoveStop \/ Attest \/ DeclareCadence
             PROVE  IInv'
  OBVIOUS
<1>1. UNCHANGED <<today, drill, last>>
  BY DEF Redeploy, MoveStop, Attest, DeclareCadence
<1>2. RecordIsHistory'
  BY <1>1 DEF IInv, RecordIsHistory
<1>3. today \in Nat /\ Dates \subseteq {Never} \cup 0 .. today + Ahead
  BY DrillAssumption DEF IInv, TypeOK, Days, Dates, Never
<1>4. CASE Redeploy
  <2>1. /\ env' \in Deployments /\ named' \in BOOLEAN /\ deployed' \in 0 .. today
        /\ changed_at' \in {Never} \cup 0 .. today + Ahead
        /\ UNCHANGED <<path, cadence, attested>>
    BY <1>3, <1>4 DEF Redeploy
  <2>2. QED
    BY <1>1, <1>2, <2>1 DEF IInv, TypeOK
<1>5. CASE MoveStop
  BY <1>1, <1>2, <1>5 DEF IInv, TypeOK, MoveStop
<1>6. CASE Attest
  <2>1. /\ attested' \in {Never} \cup 0 .. today + Ahead
        /\ UNCHANGED <<path, env, named, changed_at, cadence, deployed>>
    BY <1>3, <1>6 DEF Attest
  <2>2. QED
    BY <1>1, <1>2, <2>1 DEF IInv, TypeOK
<1>7. CASE DeclareCadence
  BY <1>1, <1>2, <1>7 DEF IInv, TypeOK, DeclareCadence
<1>8. QED
  BY <1>4, <1>5, <1>6, <1>7

LEMMA NextKeepsInv == IInv /\ [Next]_vars => IInv'
<1> SUFFICES ASSUME IInv, [Next]_vars PROVE IInv'
  OBVIOUS
<1>1. CASE NextDay
  BY <1>1, DayKeepsInv
<1>2. CASE PerformDrill
  BY <1>2, PerformKeepsInv
<1>3. CASE Redeploy \/ MoveStop \/ Attest \/ DeclareCadence
  BY <1>3, OtherKeepsInv
<1>4. CASE UNCHANGED vars
  BY <1>4 DEF vars, IInv, TypeOK, RecordIsHistory, Dates
<1>5. QED
  BY <1>1, <1>2, <1>3, <1>4 DEF Next

LEMMA Invariance == Spec => []IInv
  BY InitInv, NextKeepsInv, PTL DEF Spec

(* A fold that says PASS has only PASS in it.                              *)
LEMMA FoldPass ==
  ASSUME NEW seen, worst_verdict(seen) = "PASS"
  PROVE  "FAIL" \notin seen /\ "UNKNOWN" \notin seen
  BY DEF worst_verdict

LEMMA ChecksPass ==
  ASSUME DrillVerdict = "PASS"
  PROVE  /\ drill # NoDrill /\ drill.shows
         /\ cadence # 0 /\ drill.at # Never /\ ~(today - drill.at > cadence)
         /\ drill.path = path /\ drill.env = env
<1> DEFINE checks == {KS_D1, KS_D2, KS_D3, KS_D4, KS_D5, KS_D6}
<1>1. KS_D0 = "PASS" /\ worst_verdict(checks) = "PASS"
  BY DEF DrillVerdict
<1>2. "FAIL" \notin checks /\ "UNKNOWN" \notin checks
  BY <1>1, FoldPass
<1>3. drill # NoDrill
  BY <1>1 DEF KS_D0
<1>4. KS_D1 # "UNKNOWN" /\ KS_D2 # "UNKNOWN" /\ KS_D2 # "FAIL" /\ KS_D3 # "FAIL"
      /\ KS_D4 # "UNKNOWN" /\ KS_D5 # "UNKNOWN"
  BY <1>2
<1>5. drill.shows /\ cadence # 0 /\ drill.path = path /\ drill.env = env
  BY <1>4 DEF KS_D1, KS_D3, KS_D4, KS_D5
<1>6. drill.at # Never /\ ~(today - drill.at > cadence)
  BY <1>4 DEF KS_D2
<1>7. QED
  BY <1>3, <1>5, <1>6

(* While a record counts, the stop path in force stopped a deployment      *)
(* equal to the one in force, within the cadence and what dates lie ahead: *)
(* kill_switch.py:219-303.                                                 *)
THEOREM PassIsRecentStop == Spec => []PassMeansRecentStop
<1>1. IInv => PassMeansRecentStop
  <2> SUFFICES ASSUME IInv, DrillVerdict = "PASS"
               PROVE  /\ cadence \in Cadences
                      /\ last.shows /\ last.path = path /\ last.env = env
                      /\ today - last.at <= cadence + Ahead
    BY DEF PassMeansRecentStop
  <2>1. /\ drill # NoDrill /\ drill.shows /\ cadence # 0 /\ drill.at # Never
        /\ ~(today - drill.at > cadence) /\ drill.path = path /\ drill.env = env
    BY ChecksPass
  <2>2. cadence \in Cadences /\ cadence \in Nat /\ today \in Nat /\ Ahead \in Nat
    BY <2>1, DrillAssumption DEF IInv, TypeOK, Days
  <2>3. drill.at \in {Never} \cup 0 .. today + Ahead
    BY DEF IInv, TypeOK
  <2>4. drill.at \in Nat
    BY <2>1, <2>2, <2>3
  <2>5. /\ last.at \in 0 .. today /\ drill.at <= last.at + Ahead
        /\ drill.shows = last.shows
        /\ drill.path \in {last.path, "none"} /\ drill.env \in {last.env, "none"}
    BY <2>1 DEF IInv, RecordIsHistory
  <2>6. path # "none" /\ env # "none"
    BY DrillAssumption DEF IInv, TypeOK
  <2>7. last.shows /\ last.path = path /\ last.env = env
    BY <2>1, <2>5, <2>6
  <2>8. last.at \in Int /\ today - last.at <= cadence + Ahead
    BY <2>1, <2>2, <2>4, <2>5
  <2>9. QED
    BY <2>2, <2>7, <2>8
<1>2. QED
  BY <1>1, Invariance, PTL

(* A redeployment or a moved stop file at once ends a record that counted. *)
THEOREM ChangesInvalidate == Spec => ChangeInvalidates
<1>1. ASSUME IInv, [Next]_vars, DrillVerdict = "PASS", env' # env \/ path' # path
      PROVE  DrillVerdict' # "PASS"
  <2>1. drill.path = path /\ drill.env = env /\ drill # NoDrill
    BY <1>1, ChecksPass
  <2>2. drill' = drill
    BY <1>1 DEF Next, vars, NextDay, PerformDrill, Redeploy, MoveStop, Attest,
                DeclareCadence
  <2>3. KS_D4' = "UNKNOWN" \/ KS_D5' = "UNKNOWN"
    BY <1>1, <2>1, <2>2 DEF KS_D4, KS_D5
  <2>4. worst_verdict({KS_D1', KS_D2', KS_D3', KS_D4', KS_D5', KS_D6'}) # "PASS"
    BY <2>3 DEF worst_verdict
  <2>5. QED
    BY <2>4 DEF DrillVerdict
<1>2. IInv /\ [Next]_vars =>
        [ (DrillVerdict = "PASS" /\ (env' # env \/ path' # path))
            => DrillVerdict' # "PASS" ]_vars
  BY <1>1
<1>3. QED
  BY <1>2, Invariance, PTL DEF Spec, ChangeInvalidates

(***************************************************************************)
(* The capital                                                             *)
(***************************************************************************)

Packs ==
  [kind: {"pack"}, at_risk: Numbers, loss: Numbers, equity: Numbers,
   currency: {"none", "EUR"}, basis: {"none", "risk_to_stop", "notional"},
   pnl: Reports]

(* What is submitted, and against what.                                    *)
CapitalInv ==
  /\ bearing \in Answers /\ capital_gate \in Answers
  /\ pack = NoPack \/ pack \in Packs
  /\ live \in LiveSides /\ tranche \in Tranches

-----------------------------------------------------------------------------
(* Values                                                                  *)

LEMMA NumberKinds ==
  ASSUME WithNaN = FALSE, NEW x \in Numbers, Declared(x)
  PROVE  x.kind = "number" /\ x.n \in Nat
  <1>1. PICK n \in Amounts : x = Money(n)
    BY DEF Numbers, Declared, Undeclared
  <1> QED
    BY <1>1, CapitalAssumption DEF Money

LEMMA TrancheKinds ==
  ASSUME NEW t \in Tranches, Declared(t.amount)
  PROVE  t.amount.kind = "number" /\ t.amount.n \in Nat
  <1>1. PICK m \in Amounts : SomeAmount = Money(m)
    BY CapitalAssumption DEF SomeAmount
  <1>2. PICK n \in Amounts : t.amount = Money(n)
    BY <1>1 DEF Tranches, Tranche, Declared, Undeclared
  <1> QED
    BY <1>2, CapitalAssumption DEF Money

LEMMA PackIsNotNone ==
  ASSUME NEW p \in Packs
  PROVE  p # NoPack
  BY DEF Packs, NoPack

(* The pack Carry brings.                                                  *)
LEMMA EmptyPackIsPack == EmptyPack \in Packs
  <1>1. Undeclared \in Numbers
    BY DEF Numbers
  <1> QED
    BY <1>1, CapitalAssumption DEF EmptyPack, Packs

-----------------------------------------------------------------------------
(* The invariant                                                           *)

LEMMA CapitalBegins == CapitalInit => CapitalInv
  BY DEF CapitalInit, CapitalInv, Answers, LiveSides

LEMMA AmendedIsPack ==
  ASSUME NEW p \in Packs, NEW f \in DOMAIN Domains, NEW v \in Domains[f]
  PROVE  [p EXCEPT ![f] = v] \in Packs
  <1>1. CASE f = "at_risk"
    BY <1>1 DEF Domains, Packs
  <1>2. CASE f = "loss"
    BY <1>2 DEF Domains, Packs
  <1>3. CASE f = "equity"
    BY <1>3 DEF Domains, Packs
  <1>4. CASE f = "currency"
    BY <1>4 DEF Domains, Packs
  <1>5. CASE f = "basis"
    BY <1>5 DEF Domains, Packs
  <1>6. CASE f = "pnl"
    BY <1>6 DEF Domains, Packs
  <1> QED
    BY <1>1, <1>2, <1>3, <1>4, <1>5, <1>6 DEF Domains

LEMMA CapitalKeeps == CapitalInv /\ [CapitalNext]_capital_vars => CapitalInv'
  <1> SUFFICES ASSUME CapitalInv, [CapitalNext]_capital_vars PROVE CapitalInv'
    OBVIOUS
  <1>1. CASE Redeclare
    BY <1>1 DEF Redeclare, Submit, rules, CapitalInv
  <1>2. CASE Carry
    BY <1>2, EmptyPackIsPack DEF Carry, Submit, rules, declarations, CapitalInv
  <1>3. CASE AmendPack
    <2>1. PICK f \in DOMAIN Domains : \E v \in Domains[f] : pack' = [pack EXCEPT ![f] = v]
      BY <1>3 DEF AmendPack
    <2>2. pack \in Packs
      BY <1>3 DEF AmendPack, CapitalInv
    <2>3. pack' \in Packs
      BY <2>1, <2>2, AmendedIsPack
    <2> QED
      BY <1>3, <2>3 DEF AmendPack, Submit, rules, declarations, CapitalInv
  <1>4. CASE SetRules
    BY <1>4 DEF SetRules, declarations, CapitalInv
  <1>5. CASE UNCHANGED capital_vars
    BY <1>5 DEF capital_vars, CapitalInv
  <1>6. CASE Resubmit
    BY <1>6 DEF Resubmit, Submit, rules, declarations, CapitalInv
  <1> QED
    BY <1>1, <1>2, <1>3, <1>4, <1>5, <1>6 DEF CapitalNext, Submission

LEMMA CapitalInvariance == CapitalSpec => []CapitalInv
  BY CapitalBegins, CapitalKeeps, PTL DEF CapitalSpec

-----------------------------------------------------------------------------
(* What passes                                                             *)

(* No door by omission: a number the tranche binds is there and within.    *)
LEMMA AgainstPass ==
  ASSUME WithNaN = FALSE, NEW t \in Tranches, NEW x \in Numbers
  PROVE  /\ BindsExposure(t) /\ VC_I2(t, x) \notin {"FAIL", "UNKNOWN"} =>
              x.kind = "number" /\ x.n <= t.amount.n
         /\ BindsLoss(t) /\ VC_I3(t, x) \notin {"FAIL", "UNKNOWN"} =>
              x.kind = "number" /\ x.n <= t.amount.n
         /\ BindsLoss(t) /\ VC_I6(t, x) \notin {"FAIL", "UNKNOWN"} =>
              x.kind = "number" /\ x.n >= t.amount.n
  <1>1. CASE Declared(x) /\ Declared(t.amount)
    <2>1. /\ x.kind = "number" /\ x.n \in Nat
          /\ t.amount.kind = "number" /\ t.amount.n \in Nat
      BY <1>1, NumberKinds, TrancheKinds
    <2> QED
      BY <1>1, <2>1 DEF VC_I2, VC_I3, VC_I6, Against, Exceeds
  <1>2. CASE ~Declared(x) \/ ~Declared(t.amount)
    BY <1>2 DEF VC_I2, VC_I3, VC_I6, Against
  <1> QED
    BY <1>1, <1>2

(* The capital suite passes a pack only within the tranche.                *)
LEMMA CapitalPass ==
  ASSUME WithNaN = FALSE, NEW t \in Tranches, NEW p \in Packs,
         NEW g \in Answers, NEW r, NEW w,
         run_validation_capital_detectors(g, p, r, t, w) = "PASS"
  PROVE  g # "undeclared" /\ Within(t, p)
  <1> DEFINE f == Fields(p)
             bad == {"FAIL", "UNKNOWN"}
  <1>1. p # NoPack
    BY PackIsNotNone
  <1>2. /\ f.at_risk = p.at_risk /\ f.loss = p.loss /\ f.equity = p.equity
        /\ f.currency = p.currency /\ f.basis = p.basis
    BY <1>1 DEF Fields
  <1>3. /\ VC_P1(t) \notin bad /\ VC_P2(g) \notin bad
        /\ VC_I2(t, p.at_risk) \notin bad /\ VC_I3(t, p.loss) \notin bad
        /\ VC_I4(t, p.currency) \notin bad /\ VC_I5(t, p.basis) \notin bad
        /\ VC_I6(t, p.equity) \notin bad
    <2> DEFINE seen == {VC_P1(t), VC_P2(g), VC_I1(g, p), VC_I2(t, f.at_risk),
                        VC_I3(t, f.loss), VC_I4(t, f.currency), VC_I5(t, f.basis),
                        VC_I6(t, f.equity), VC_R1(r, w), VC_R2(r),
                        VC_R3(f.pnl)}
    <2>1. worst_verdict(seen) = "PASS"
      BY <1>1 DEF run_validation_capital_detectors
    <2>2. \A v \in seen : v \notin bad
      BY <2>1, FoldPass
    <2> QED
      BY <1>2, <2>2
  <1>4. t.amount.kind = "number" /\ t.applies_to \in (SUBSET Terms) \ {{}}
    BY <1>3, TrancheKinds DEF VC_P1
  <1>5. p.at_risk \in Numbers /\ p.loss \in Numbers /\ p.equity \in Numbers
    BY DEF Packs
  <1>6. /\ p.currency = t.currency /\ t.currency # "none"
        /\ BindsExposure(t) => p.basis = "risk_to_stop"
    BY <1>3 DEF VC_I4, VC_I5
  <1>7. BindsExposure(t) => p.at_risk.kind = "number" /\ p.at_risk.n <= t.amount.n
    BY <1>3, <1>5, AgainstPass
  <1>8. BindsLoss(t) => /\ p.loss.kind = "number" /\ p.loss.n <= t.amount.n
                        /\ p.equity.kind = "number" /\ p.equity.n >= t.amount.n
    BY <1>3, <1>5, AgainstPass
  <1>9. g # "undeclared"
    BY <1>3 DEF VC_P2
  <1> QED
    BY <1>4, <1>6, <1>7, <1>8, <1>9 DEF Within

(* The scope passes what says it bears no capital and carries none, or that*)
(* it does and carries it; and so for the live half.                       *)
LEMMA ScopePass ==
  ASSUME NEW b \in Answers, NEW l \in LiveSides, NEW p,
         run_scope_detector(b, p, l) = "PASS"
  PROVE  /\ \/ b = "no" /\ p = NoPack
            \/ b = "yes" /\ p # NoPack
         /\ <<l.bearing, l.packs>> \in {<<"no", "none">>, <<"yes", "both">>}
  <1>1. /\ SC_P1(b, l) \notin {"FAIL", "UNKNOWN"}
        /\ SC_I1(b, p) \notin {"FAIL", "UNKNOWN"}
        /\ SC_I2(l) \notin {"FAIL", "UNKNOWN"}
        /\ SC_I3(b, p, l) \notin {"FAIL", "UNKNOWN"}
    BY FoldPass DEF run_scope_detector
  <1>2. \/ b = "no" /\ p = NoPack
        \/ b = "yes" /\ p # NoPack
    BY <1>1 DEF SC_P1, SC_I1, SC_I3, Answers
  <1>3. <<l.bearing, l.packs>> \in {<<"no", "none">>, <<"yes", "both">>}
    BY <1>1 DEF SC_P1, SC_I2, SC_I3, LiveSides
  <1> QED
    BY <1>2, <1>3

(* A gate that needs capital declared passes no submission without it.     *)
LEMMA NoPackPass ==
  ASSUME NEW g, NEW r, NEW t, NEW w,
         run_validation_capital_detectors(g, NoPack, r, t, w) = "PASS"
  PROVE  g # "yes"
  <1> SUFFICES ASSUME g = "yes" PROVE FALSE
    OBVIOUS
  <1>1. VC_I1(g, NoPack) = "UNKNOWN"
    BY DEF VC_I1, IsEmpty, Fields
  <1> QED
    BY <1>1, FoldPass DEF run_validation_capital_detectors

-----------------------------------------------------------------------------
(* The theorem                                                             *)

(* UPTM-004 and UPTM-017 for measured numbers that are numbers: no order   *)
(* of amendments, and no change of the rules between them, passes a pack   *)
(* outside the tranche it is judged against.                               *)
THEOREM PassesStayWithin ==
  ASSUME WithNaN = FALSE
  PROVE  CapitalSpec => PassMeansWithin
  <1>1. ASSUME CapitalInv, CapitalInv', CapitalNext, UNCHANGED rules, verdict' = "PASS", ~UNCHANGED capital_vars
        PROVE  /\ \/ bearing' = "no" /\ pack' = NoPack /\ capital_gate' # "yes"
                  \/ /\ bearing' = "yes" /\ pack' # NoPack /\ capital_gate' # "undeclared"
                     /\ Within(tranche, pack')
               /\ <<live'.bearing, live'.packs>> \in {<<"no", "none">>, <<"yes", "both">>}
    <2>1. Submit
      BY <1>1 DEF CapitalNext, Submission, Redeclare, Carry, AmendPack, Resubmit, SetRules,
                  capital_vars, rules, declarations
    <2>2. /\ run_scope_detector(bearing', pack', live') = "PASS"
          /\ run_validation_capital_detectors(capital_gate', pack', returns', tranche', wave') = "PASS"
      <3>1. /\ run_scope_detector(bearing', pack', live') \notin {"FAIL", "UNKNOWN"}
            /\ run_validation_capital_detectors(capital_gate', pack', returns', tranche', wave')
                 \notin {"FAIL", "UNKNOWN"}
        BY <1>1, <2>1, FoldPass DEF Submit, Judged, Judge
      <3> QED
        BY <3>1 DEF run_scope_detector, run_validation_capital_detectors, worst_verdict
    <2>3. /\ bearing' \in Answers /\ capital_gate' \in Answers /\ live' \in LiveSides
          /\ pack' = NoPack \/ pack' \in Packs
          /\ tranche' \in Tranches
      BY <1>1 DEF CapitalInv
    <2>4. /\ \/ bearing' = "no" /\ pack' = NoPack
             \/ bearing' = "yes" /\ pack' # NoPack
          /\ <<live'.bearing, live'.packs>> \in {<<"no", "none">>, <<"yes", "both">>}
      BY <2>2, <2>3, ScopePass
    <2>5. pack' = NoPack => capital_gate' # "yes"
      BY <2>2, NoPackPass
    <2>6. pack' \in Packs => capital_gate' # "undeclared" /\ Within(tranche', pack')
      BY <2>2, <2>3, CapitalPass
    <2>7. tranche' = tranche
      BY <2>1 DEF Submit, rules
    <2> QED
      BY <2>3, <2>4, <2>5, <2>6, <2>7
  <1>2. CapitalInv /\ CapitalInv' /\ [CapitalNext]_capital_vars =>
          [UNCHANGED rules /\ verdict' = "PASS" =>
             /\ \/ bearing' = "no" /\ pack' = NoPack /\ capital_gate' # "yes"
                \/ /\ bearing' = "yes" /\ pack' # NoPack /\ capital_gate' # "undeclared"
                   /\ Within(tranche, pack')
             /\ <<live'.bearing, live'.packs>> \in {<<"no", "none">>, <<"yes", "both">>}]_capital_vars
    BY <1>1
  <1> QED
    BY <1>2, CapitalInvariance, PTL DEF CapitalSpec, PassMeansWithin

-----------------------------------------------------------------------------
(* What one amendment of a pack can do                                     *)

(* A step from a pack to another one, under the same rules, amends one     *)
(* field and judges the result; the other declarations stay.               *)
LEMMA KeptIsAmend ==
  ASSUME CapitalInv, [CapitalNext]_capital_vars, Kept, pack' # pack
  PROVE  /\ pack \in Packs /\ verdict' = Judged'
         /\ UNCHANGED <<bearing, capital_gate, live, returns, tranche, wave>>
         /\ \E f \in DOMAIN Domains : \E v \in Domains[f] : pack' = [pack EXCEPT ![f] = v]
  <1>1. AmendPack
    BY DEF CapitalNext, Submission, Redeclare, Carry, Resubmit, SetRules, capital_vars, Kept
  <1> QED
    BY <1>1 DEF AmendPack, Submit, rules, declarations, CapitalInv, Kept

(* The scope half reads of a pack only that it is there.                   *)
LEMMA ScopeIgnoresFields ==
  ASSUME NEW b, NEW l, NEW p \in Packs, NEW q \in Packs
  PROVE  run_scope_detector(b, p, l) = run_scope_detector(b, q, l)
  BY PackIsNotNone DEF run_scope_detector, SC_I1, SC_I3

(* The capital half of a pack, check by check.                             *)
CapitalSeen(g, p, r, t, w) ==
  {VC_P1(t), VC_P2(g), VC_I1(g, p), VC_I2(t, p.at_risk), VC_I3(t, p.loss),
   VC_I4(t, p.currency), VC_I5(t, p.basis), VC_I6(t, p.equity), VC_R1(r, w),
   VC_R2(r), VC_R3(p.pnl)}

LEMMA CapitalOfPack ==
  ASSUME NEW g, NEW p \in Packs, NEW r, NEW t, NEW w
  PROVE  run_validation_capital_detectors(g, p, r, t, w)
           = worst_verdict(CapitalSeen(g, p, r, t, w))
  <1> DEFINE f == Fields(p)
  <1>1. p # NoPack
    BY PackIsNotNone
  <1>2. /\ f.at_risk = p.at_risk /\ f.loss = p.loss /\ f.equity = p.equity
        /\ f.currency = p.currency /\ f.basis = p.basis /\ f.pnl = p.pnl
    BY <1>1 DEF Fields
  <1>3. run_validation_capital_detectors(g, p, r, t, w) =
          worst_verdict({VC_P1(t), VC_P2(g), VC_I1(g, p), VC_I2(t, f.at_risk),
                         VC_I3(t, f.loss), VC_I4(t, f.currency), VC_I5(t, f.basis),
                         VC_I6(t, f.equity), VC_R1(r, w), VC_R2(r),
                         VC_R3(f.pnl)})
    BY <1>1 DEF run_validation_capital_detectors
  <1> QED
    BY <1>2, <1>3 DEF CapitalSeen

(* P10: of two packs that declare something and differ in the profit they  *)
(* report, the gate says the same, for every value of every field.         *)
THEOREM ProfitNeverJudged == CapitalSpec => ProfitIsNotJudged
  <1>1. ASSUME CapitalInv, [CapitalNext]_capital_vars, Kept, pack'.pnl # pack.pnl, ~IsEmpty(pack), ~IsEmpty(pack')
        PROVE  verdict' = Judged
    <2>1. /\ pack \in Packs /\ verdict' = Judged'
          /\ UNCHANGED <<bearing, capital_gate, live, returns, tranche, wave>>
      BY <1>1, KeptIsAmend
    <2>2. PICK f \in DOMAIN Domains : \E v \in Domains[f] : pack' = [pack EXCEPT ![f] = v]
      BY <1>1, KeptIsAmend
    <2>3. f = "pnl"
      BY <1>1, <2>1, <2>2 DEF Domains, Packs
    <2>4. /\ pack' \in Packs
          /\ pack'.at_risk = pack.at_risk /\ pack'.loss = pack.loss
          /\ pack'.equity = pack.equity /\ pack'.currency = pack.currency
          /\ pack'.basis = pack.basis
      BY <2>1, <2>2, <2>3 DEF Domains, Packs
    <2>5. CapitalSeen(capital_gate, pack', returns, tranche, wave)
            = CapitalSeen(capital_gate, pack, returns, tranche, wave)
      BY <1>1, <2>4 DEF CapitalSeen, VC_I1, VC_R3
    <2>6. Judge(bearing, capital_gate, live, pack', returns, tranche, wave)
            = Judge(bearing, capital_gate, live, pack, returns, tranche, wave)
      BY <2>1, <2>4, <2>5, CapitalOfPack, ScopeIgnoresFields DEF Judge
    <2> QED
      BY <2>1, <2>6 DEF Judged
  <1> QED
    BY <1>1, CapitalInvariance, PTL DEF CapitalSpec, ProfitIsNotJudged

(* "Absence is never PASS": taking a declaration out of a pack makes no    *)
(* denied submission pass, measured NaN or not.                            *)
THEOREM WithholdingDenied == CapitalSpec => WithholdingNeverHelps
  <1>1. ASSUME CapitalInv, [CapitalNext]_capital_vars, verdict' = "PASS", Kept,
               NEW h \in DOMAIN pack, pack[h] # pack'[h], pack'[h] = EmptyPack[h]
        PROVE  Judged = "PASS"
    <2>1. /\ pack \in Packs /\ verdict' = Judged'
          /\ UNCHANGED <<bearing, capital_gate, live, returns, tranche, wave>>
      BY <1>1, KeptIsAmend
    <2>2. PICK f \in DOMAIN Domains : \E v \in Domains[f] : pack' = [pack EXCEPT ![f] = v]
      BY <1>1, KeptIsAmend
    <2>3. h = f /\ h \in DOMAIN EmptyPack \ {"kind"}
      BY <1>1, <2>1, <2>2 DEF Domains, Packs, EmptyPack
    <2>4. pack' = [pack EXCEPT ![h] = EmptyPack[h]] /\ pack[h] # EmptyPack[h]
      <3>1. PICK v : pack' = [pack EXCEPT ![h] = v]
        BY <2>2, <2>3
      <3>2. v = EmptyPack[h]
        BY <1>1, <3>1
      <3> QED
        BY <1>1, <3>1, <3>2
    <2>5. pack' \in Packs
      BY <2>1, <2>2, AmendedIsPack
    <2> DEFINE bad == {"FAIL", "UNKNOWN"}
               now == CapitalSeen(capital_gate, pack, returns, tranche, wave)
               then == CapitalSeen(capital_gate, pack', returns, tranche, wave)
    <2>6. /\ worst_verdict({run_scope_detector(bearing, pack', live), worst_verdict(then)}) = "PASS"
          /\ Judged = worst_verdict({run_scope_detector(bearing, pack', live), worst_verdict(now)})
      <3>1. Judged' = Judge(bearing, capital_gate, live, pack', returns, tranche, wave)
        BY <2>1 DEF Judged
      <3> QED
        BY <1>1, <2>1, <2>5, <3>1, CapitalOfPack, ScopeIgnoresFields DEF Judge, Judged
    <2>7. worst_verdict(then) = "PASS"
      <3>1. worst_verdict(then) \notin bad
        BY <2>6, FoldPass
      <3> HIDE DEF then
      <3> QED
        BY <3>1 DEF worst_verdict
    <2>8. \A v \in then : v \notin bad
      BY <2>7, FoldPass
    <2>9. \A v \in now : v = "PASS"
      <3>1. /\ VC_P1(tranche) = "PASS" /\ VC_P2(capital_gate) = "PASS"
            /\ VC_R1(returns, wave) = "PASS" /\ VC_R2(returns) = "PASS"
            /\ VC_R3(pack.pnl) = "PASS"
        BY <2>8 DEF CapitalSeen, VC_P1, VC_P2, VC_R1, VC_R2, VC_R3
      <3>2. VC_I1(capital_gate, pack) = "PASS"
        <4>1. Fields(pack) = pack
          BY <2>1, PackIsNotNone DEF Fields
        <4>2. ~IsEmpty(pack)
          BY <2>4, <4>1 DEF IsEmpty
        <4> QED
          BY <4>2 DEF VC_I1
      <3>3. /\ VC_I2(tranche, pack'.at_risk) \notin bad /\ VC_I3(tranche, pack'.loss) \notin bad
            /\ VC_I4(tranche, pack'.currency) \notin bad /\ VC_I5(tranche, pack'.basis) \notin bad
            /\ VC_I6(tranche, pack'.equity) \notin bad
        BY <2>8 DEF CapitalSeen
      <3>4. /\ VC_I2(tranche, pack.at_risk) = "PASS" /\ VC_I3(tranche, pack.loss) = "PASS"
            /\ VC_I6(tranche, pack.equity) = "PASS"
        <4>1. ~Declared(Undeclared)
          BY DEF Declared, Undeclared
        <4>2. /\ h = "at_risk" => pack'.at_risk = Undeclared
              /\ h # "at_risk" => pack'.at_risk = pack.at_risk
              /\ h = "loss" => pack'.loss = Undeclared
              /\ h # "loss" => pack'.loss = pack.loss
              /\ h = "equity" => pack'.equity = Undeclared
              /\ h # "equity" => pack'.equity = pack.equity
          BY <2>1, <2>4 DEF EmptyPack, Packs
        <4> QED
          BY <3>3, <4>1, <4>2 DEF VC_I2, VC_I3, VC_I6, Against
      <3>5. VC_I4(tranche, pack.currency) = "PASS" /\ VC_I5(tranche, pack.basis) = "PASS"
        <4>1. /\ h = "currency" => pack'.currency = "none"
              /\ h # "currency" => pack'.currency = pack.currency
              /\ h = "basis" => pack'.basis = "none"
              /\ h # "basis" => pack'.basis = pack.basis
          BY <2>1, <2>4 DEF EmptyPack, Packs
        <4> QED
          BY <3>3, <4>1 DEF VC_I4, VC_I5
      <3> QED
        BY <3>1, <3>2, <3>4, <3>5 DEF CapitalSeen
    <2>10. worst_verdict(now) = "PASS"
      <3>1. VC_P1(tranche) \in now
        BY DEF CapitalSeen
      <3> HIDE DEF now
      <3> QED
        BY <2>9, <3>1 DEF worst_verdict
    <2> QED
      BY <2>6, <2>7, <2>10
  <1>2. ASSUME CapitalInv, [CapitalNext]_capital_vars
        PROVE  verdict' = "PASS" /\ Kept
                 /\ (\E f \in DOMAIN pack : pack[f] # pack'[f] /\ pack'[f] = EmptyPack[f])
               => Judged = "PASS"
    BY <1>1, <1>2
  <1> QED
    BY <1>2, CapitalInvariance, PTL DEF CapitalSpec, WithholdingNeverHelps

=============================================================================
