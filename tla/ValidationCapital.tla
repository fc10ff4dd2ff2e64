--------------------------- MODULE ValidationCapital ---------------------------
(***************************************************************************)
(* The capital side of a gate (runner/detectors/validation_capital.py and  *)
(* scope.py, and their wiring in gates.py).  The scope a gate declares has *)
(* a LIVE half, judged with the capital half in one fold.                  *)
(*                                                                         *)
(* An agent amends its evidence a field at a time and submits it again; the*)
(* Founder amends the tranche and the wave file.  Every submission is      *)
(* judged from nothing, against the rules and the wave as they are then.   *)
(***************************************************************************)
EXTENDS Integers, Verdicts

CONSTANTS
  Amounts,     \* positive sums of money
  WithNaN,     \* whether a measured number may be NaN, which JSON lets through
  Reports,     \* what realised_pnl may say, "none" when it is not reported
  Waves        \* states of the wave file: its exit criteria name no return,
               \* name one, or name one in a file that cannot be read

ASSUME CapitalAssumption ==
  /\ Amounts \subseteq Nat /\ Amounts # {} /\ WithNaN \in BOOLEAN
  /\ Waves \subseteq {"clean", "return", "unreadable"} /\ "none" \in Reports

(* A declared number: none, NaN, or n.                                     *)
Undeclared == [kind |-> "none", n |-> 0]
NaN == [kind |-> "nan", n |-> 0]
Money(n) == [kind |-> "number", n |-> n]
Numbers == {Undeclared} \cup {Money(n) : n \in Amounts} \cup (IF WithNaN THEN {NaN} ELSE {})

NoPack == [kind |-> "none"]
Answers == {"undeclared", "yes", "no"}

(* scope.live_bearing, and how many of kill_switch and kill_switch_drill   *)
(* are there: fewer than both are missing, and one is carried.             *)
LiveSides ==
  {[bearing |-> "undeclared", packs |-> "none"],
   [bearing |-> "no", packs |-> "none"], [bearing |-> "no", packs |-> "one"],
   [bearing |-> "yes", packs |-> "one"], [bearing |-> "yes", packs |-> "both"]}

VARIABLES
  bearing, capital_gate,   \* scope.capital_bearing and capital_gate
  live,
  pack,
  returns,                 \* where the evidence names a return: among its
                           \* gate_criteria, or as the basis of a PASS claim
  tranche,                 \* of capital-rules.json
  wave,
  verdict

declarations == <<bearing, capital_gate, live, returns>>
rules == <<tranche, wave>>
capital_vars == <<bearing, capital_gate, live, pack, returns, tranche, wave, verdict>>

(* A submission is judged from nothing: TLC tells states apart without the *)
(* verdict of the last one (VIEW), which no step reads.                    *)
Judgeable == <<bearing, capital_gate, live, pack, returns, tranche, wave>>

(* per_position_at_risk is read as aggregate_open_exposure is.             *)
Terms == {"aggregate_open_exposure", "cumulative_realised_loss"}

(* A whole tranche, and one of which something is missing or unheard of.   *)
Tranche(amount, currency, applies_to) ==
  [amount |-> amount, currency |-> currency, applies_to |-> applies_to]
SomeAmount == Money(CHOOSE n \in Amounts : TRUE)
Tranches ==
  {Tranche(Money(n), "EUR", a) : n \in Amounts, a \in (SUBSET Terms) \ {{}}}
    \cup {Tranche(Undeclared, "EUR", Terms), Tranche(SomeAmount, "none", Terms),
          Tranche(SomeAmount, "EUR", {}), Tranche(SomeAmount, "EUR", Terms \cup {"unheard-of"})}

BindsExposure(t) == "aggregate_open_exposure" \in t.applies_to
BindsLoss(t) == "cumulative_realised_loss" \in t.applies_to

Declared(x) == x.kind # "none"

-----------------------------------------------------------------------------
(* The checks, each PASS, FAIL or UNKNOWN                                  *)

(* a > b as Python compares them: never, when either is NaN.               *)
Exceeds(a, b) == a.kind = "number" /\ b.kind = "number" /\ a.n > b.n

EmptyPack ==
  [kind |-> "pack", at_risk |-> Undeclared, loss |-> Undeclared, equity |-> Undeclared,
   currency |-> "none", basis |-> "none", pnl |-> "none"]

(* What a check reads of a pack: of no pack, what it reads of an empty one.*)
Fields(p) == IF p = NoPack THEN EmptyPack ELSE p

IsEmpty(p) == Fields(p) = EmptyPack

(* Both flags are to be booleans; without a scope neither is.              *)
SC_P1(b, l) == IF "undeclared" \in {b, l.bearing} THEN "UNKNOWN" ELSE "PASS"
SC_I1(b, p) == IF b = "yes" /\ p = NoPack THEN "UNKNOWN" ELSE "PASS"
SC_I2(l) == IF l.bearing = "yes" /\ l.packs # "both" THEN "UNKNOWN" ELSE "PASS"
SC_I3(b, p, l) ==
  IF (b = "no" /\ p # NoPack) \/ (l.bearing = "no" /\ l.packs # "none")
    THEN "FAIL" ELSE "PASS"

VC_P1(t) ==
  IF ~Declared(t.amount) \/ t.currency = "none" \/ t.applies_to = {} \/ ~(t.applies_to \subseteq Terms)
    THEN "UNKNOWN" ELSE "PASS"
VC_P2(g) == IF g = "undeclared" THEN "UNKNOWN" ELSE "PASS"
VC_I1(g, p) == IF g = "yes" /\ IsEmpty(p) THEN "UNKNOWN" ELSE "PASS"

(* A number against the tranche, where the tranche binds it.               *)
Against(binds, t, x, exceeded) ==
  IF ~binds THEN "PASS"
  ELSE IF ~Declared(t.amount) \/ ~Declared(x) THEN "UNKNOWN"
  ELSE IF exceeded THEN "FAIL" ELSE "PASS"

(* Mutant: a loss nobody declared is no loss.                              *)
VC_I3_Optional(t, x) ==
  IF BindsLoss(t) /\ Exceeds(x, t.amount) THEN "FAIL" ELSE "PASS"

VC_I2(t, x) == Against(BindsExposure(t), t, x, Exceeds(x, t.amount))
VC_I3(t, x) == Against(BindsLoss(t), t, x, Exceeds(x, t.amount))
VC_I6(t, x) == Against(BindsLoss(t), t, x, Exceeds(t.amount, x))

(* Mutant: a declared basis is enough.                                     *)
VC_I5_AnyUnit(t, basis) ==
  IF BindsExposure(t) /\ basis = "none" THEN "UNKNOWN" ELSE "PASS"

VC_I5(t, basis) ==
  IF ~BindsExposure(t) THEN "PASS"
  ELSE IF basis = "none" THEN "UNKNOWN"
  ELSE IF basis = "risk_to_stop" THEN "PASS" ELSE "FAIL"

(* Currencies are compared and never converted: any other than the         *)
(* tranche's is as good as none.                                           *)
VC_I4(t, currency) ==
  IF "none" \in {currency, t.currency} \/ currency # t.currency THEN "UNKNOWN" ELSE "PASS"

(* The criteria name a return.  A wave file that cannot be read contributes*)
(* none.                                                                   *)
wave_exit_criteria(r, w) == r = "criterion" \/ w = "return"

VC_R1(r, w) == IF wave_exit_criteria(r, w) THEN "FAIL" ELSE "PASS"
VC_R2(r) == IF r = "claim" THEN "FAIL" ELSE "PASS"

(* Reporting a profit or a loss is permitted, whatever else is judged.     *)
VC_R3(pnl) == "PASS"

-----------------------------------------------------------------------------
(* The two suites as the gate folds them                                   *)

run_scope_detector(b, p, l) ==
  worst_verdict({SC_P1(b, l), SC_I1(b, p), SC_I2(l), SC_I3(b, p, l)})

run_validation_capital_detectors(g, p, r, t, w) ==
  LET f == Fields(p)
  IN  IF p = NoPack /\ g # "yes" THEN "PASS"
      ELSE worst_verdict({VC_P1(t), VC_P2(g), VC_I1(g, p), VC_I2(t, f.at_risk),
                          VC_I3(t, f.loss), VC_I4(t, f.currency), VC_I5(t, f.basis),
                          VC_I6(t, f.equity), VC_R1(r, w), VC_R2(r),
                          VC_R3(f.pnl)})

Judge(b, g, l, p, r, t, w) ==
  worst_verdict({run_scope_detector(b, p, l),
                 run_validation_capital_detectors(g, p, r, t, w)})

Judged == Judge(bearing, capital_gate, live, pack, returns, tranche, wave)

-----------------------------------------------------------------------------

CapitalInit ==
  /\ bearing = "undeclared" /\ capital_gate = "undeclared"
  /\ pack = NoPack
  /\ live = [bearing |-> "undeclared", packs |-> "none"]
  /\ returns = "none"
  /\ tranche \in Tranches
  /\ wave \in Waves
  /\ verdict = "UNKNOWN"

Submit == UNCHANGED rules /\ verdict' = Judged'

(* The declarations outside the pack.                                      *)
Redeclare ==
  /\ \/ bearing' \in Answers \ {bearing} /\ UNCHANGED <<capital_gate, live, returns>>
     \/ capital_gate' \in Answers \ {capital_gate} /\ UNCHANGED <<bearing, live, returns>>
     \/ live' \in LiveSides \ {live} /\ UNCHANGED <<bearing, capital_gate, returns>>
     \/ returns' \in {"none", "criterion", "claim"} \ {returns} /\ UNCHANGED <<bearing, capital_gate, live>>
  /\ UNCHANGED pack
  /\ Submit

(* A pack is brought, empty, or taken away.                                *)
Carry ==
  /\ pack' = IF pack = NoPack THEN EmptyPack ELSE NoPack
  /\ UNCHANGED declarations
  /\ Submit

Domains ==
  [at_risk |-> Numbers, loss |-> Numbers, equity |-> Numbers,
   currency |-> {"none", "EUR"}, basis |-> {"none", "risk_to_stop", "notional"},
   pnl |-> Reports]

AmendPack ==
  /\ pack # NoPack
  /\ \E f \in DOMAIN Domains : \E v \in Domains[f] \ {pack[f]} : pack' = [pack EXCEPT ![f] = v]
  /\ UNCHANGED declarations
  /\ Submit

(* The Founder sets a tranche, or the wave file changes; nothing is judged *)
(* until the evidence is submitted again.                                  *)
SetRules ==
  /\ \/ tranche' \in Tranches \ {tranche} /\ UNCHANGED wave
     \/ wave' \in Waves \ {wave} /\ UNCHANGED tranche
  /\ UNCHANGED <<declarations, pack, verdict>>

(* The same evidence again, under rules that may have changed.             *)
Resubmit == UNCHANGED <<declarations, pack>> /\ Submit

Submission == Redeclare \/ Carry \/ AmendPack \/ Resubmit

CapitalNext == Submission \/ SetRules

CapitalSpec == CapitalInit /\ [][CapitalNext]_capital_vars

-----------------------------------------------------------------------------
(* Properties                                                              *)

(* What a tranche means for a pack, said without the checks.               *)
Within(t, p) ==
  /\ t.amount.kind = "number" /\ t.applies_to \in (SUBSET Terms) \ {{}}
  /\ p.currency = t.currency /\ t.currency # "none"
  /\ BindsExposure(t) =>
       p.basis = "risk_to_stop" /\ p.at_risk.kind = "number" /\ p.at_risk.n <= t.amount.n
  /\ BindsLoss(t) =>
       /\ p.loss.kind = "number" /\ p.loss.n <= t.amount.n
       /\ p.equity.kind = "number" /\ p.equity.n >= t.amount.n

(* UPTM-004 and UPTM-017: whatever an agent tries, field by field, a       *)
(* submission that passes bears no capital, or bears it declared as such   *)
(* and within a tranche somebody set; and it is not LIVE, or is LIVE and   *)
(* brings the stop and its drill.  No door is left by omission.            *)
PassMeansWithin ==
  [][UNCHANGED rules /\ verdict' = "PASS" =>
       /\ \/ bearing' = "no" /\ pack' = NoPack /\ capital_gate' # "yes"
          \/ /\ bearing' = "yes" /\ pack' # NoPack /\ capital_gate' # "undeclared"
             /\ Within(tranche, pack')
       /\ <<live'.bearing, live'.packs>> \in {<<"no", "none">>, <<"yes", "both">>}]_capital_vars

Kept == NoPack \notin {pack, pack'} /\ UNCHANGED rules

(* "Absence is never PASS": withholding a number or a declaration the      *)
(* pack had made never turns a denial into a PASS.                         *)
WithholdingNeverHelps ==
  [][verdict' = "PASS" /\ Kept
       /\ (\E f \in DOMAIN pack : pack[f] # pack'[f] /\ pack'[f] = EmptyPack[f])
     => Judged = "PASS"]_capital_vars

(* P10: return is not a criterion of any gate.  What a run earned never    *)
(* changes what the gate says of a pack that declares anything else.       *)
ProfitIsNotJudged ==
  [][Kept /\ pack'.pnl # pack.pnl /\ ~IsEmpty(pack) /\ ~IsEmpty(pack')
       => verdict' = Judged]_capital_vars

(* UPTM-004: "No preregistered exit criterion is keyed on realised profit" *)
(* and "Absence is never PASS": what passes is judged by no return.        *)
PassJudgesNoReturn ==
  [][UNCHANGED rules /\ verdict' = "PASS" /\ pack' # NoPack =>
       returns' = "none" /\ wave = "clean"]_capital_vars

=============================================================================
