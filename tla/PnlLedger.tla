-------------------------------- MODULE PnlLedger --------------------------------
(***************************************************************************)
(* The fabricated_pnl half of runner/detectors/fabrication.py: the pack in *)
(* which a trading run reports its PnL, and the five checks it is given.   *)
(*                                                                         *)
(* A desk trades while the mark moves, and its profit is kept the way a    *)
(* desk keeps it: every move of the mark is worth the position held, every *)
(* fill costs its distance from the mark, its fee and its slippage.  Then  *)
(* the run is reported, somebody may change the pack or leave things out,  *)
(* and the detector sees the pack only.                                    *)
(***************************************************************************)
EXTENDS Sequences, SequencesExt, Sums, Verdicts

CONSTANTS
  Quantities,   \* of a fill, signed
  Quotes,       \* of fills and marks
  Models,       \* execution models: [charges_fees, charges_slippage]
  Tolerances,   \* [absolute, relative], the relative one in tenths
  Conventions,  \* of the quantities a pack records
  LeftOut,      \* what packs may leave out, together
  MaxFills, MaxMoves,   \* bounds on a run
  MaxAlterations        \* bound on what is done to a pack

(* What can be left out: what some check asks for, and what is taken for 0,*)
(* or for no orders at all, when it is not there.                          *)
Asked ==
  {"pnl_tolerance", "accounting_boundary", "mark_price", "quantity_convention",
   "execution_model"}

Parameters == Asked \cup {"realized_pnl", "unrealized_pnl", "gated_order_ids"}

ASSUME PnlAssumption ==
  /\ Quantities \subseteq Int \ {0}
  /\ Quotes \subseteq Nat
  /\ Models \subseteq [charges_fees: BOOLEAN, charges_slippage: BOOLEAN]
  /\ Tolerances \subseteq [absolute: Nat, relative: 0 .. 9]
  /\ Conventions \subseteq {"signed_long_positive", "unsigned"}
  /\ LeftOut \subseteq SUBSET Parameters
  /\ MaxFills \in Nat /\ MaxMoves \in Nat /\ MaxAlterations \in Nat

(* The figures of a report.  One inside a fill is compared as the mark is. *)
Figures ==
  {"reported_pnl", "position_after", "mark_price", "opening_position", "opening_mark",
   "realized_pnl", "unrealized_pnl"}

VARIABLES
  stage,          \* trading, or reported
  moves,       \* bound
  pack,        \* the evidence; while trading, what is known of the run
  position, profit,   \* what the run holds and has earned in truth
  orphans,     \* a fill whose order passed no gate was made
  altered      \* how many numbers of the pack were changed

vars == <<stage, moves, pack, position, profit, orphans, altered>>

magnitude(n) == IF n < 0 THEN -n ELSE n

Init ==
  /\ stage = "trading"
  /\ moves = 0
  /\ \E opening \in {0, 1}, mark \in Quotes, m \in Models, tol \in Tolerances,
        convention \in Conventions :
       /\ position = opening
       /\ pack = [fills |-> <<>>, opening_position |-> opening, opening_mark |-> mark,
                  mark_price |-> mark, execution_model |-> m, pnl_tolerance |-> tol,
                  quantity_convention |-> convention, position_after |-> opening,
                  reported_pnl |-> 0, realized_pnl |-> 0, unrealized_pnl |-> 0,
                  nans |-> {}]
  /\ profit = 0
  /\ orphans = FALSE
  /\ altered = 0

-----------------------------------------------------------------------------
(* The desk                                                                *)

MarkMoves ==
  /\ stage = "trading" /\ moves < MaxMoves
  /\ moves' = moves + 1
  /\ \E mark \in Quotes \ {pack.mark_price} :
       /\ pack' = [pack EXCEPT !.mark_price = mark]
       /\ profit' = profit + position * (mark - pack.mark_price)
  /\ UNCHANGED <<stage, position, orphans, altered>>

(* A fill is charged what the execution model charges.                     *)
Fill ==
  /\ stage = "trading" /\ Len(pack.fills) < MaxFills
  /\ \E qty \in Quantities, price \in Quotes, gated \in BOOLEAN,
        fee \in IF pack.execution_model.charges_fees THEN {1} ELSE {0},
        slippage \in IF pack.execution_model.charges_slippage THEN {-1, 1} ELSE {0} :
       /\ pack' = [pack EXCEPT !.fills = Append(@,
                     [qty |-> qty, price |-> price, fee |-> fee,
                      slippage |-> slippage, gated |-> gated])]
       /\ position' = position + qty
       /\ profit' = profit + qty * (pack.mark_price - price) - fee - magnitude(slippage)
       /\ orphans' = (orphans \/ ~gated)
  /\ UNCHANGED <<stage, moves, altered>>

(* A convention without signs records a quantity's size.                   *)
Recorded(fill) ==
  IF pack.quantity_convention = "unsigned"
    THEN [fill EXCEPT !.qty = magnitude(@)] ELSE fill

(* The run is reported as it was; what it earned with nothing traded is    *)
(* unrealized.                                                             *)
Report ==
  /\ stage = "trading"
  /\ stage' = "reported"
  /\ pack' = [pack EXCEPT
                !.fills = [i \in DOMAIN @ |-> Recorded(@[i])],
                !.reported_pnl = profit,
                !.position_after = position,
                !.realized_pnl = IF pack.fills = <<>> THEN 0 ELSE profit,
                !.unrealized_pnl = IF pack.fills = <<>> THEN profit ELSE 0]
  /\ UNCHANGED <<moves, position, profit, orphans, altered>>

-----------------------------------------------------------------------------
(* What may happen to a pack                                               *)

Changed(fills, i) ==
  {[fills EXCEPT ![i].qty = @ + d] : d \in {-1, 1}}
  \cup {[fills EXCEPT ![i].price = @ + d] : d \in {-1, 1}}
  \cup {[fills EXCEPT ![i].fee = 1 - @], [fills EXCEPT ![i].slippage = @ - 1]}
  \cup {RemoveAt(fills, i), InsertAt(fills, i, fills[i])}

(* One number is changed, or becomes NaN, which JSON lets through, or one  *)
(* fill is lost or comes twice.                                            *)
Alter ==
  /\ stage = "reported" /\ altered < MaxAlterations
  /\ altered' = altered + 1
  /\ \/ \E d \in {-3, -1, 1}, f \in Figures : pack' = [pack EXCEPT ![f] = @ + d]
     \/ \E f \in Figures : pack' = [pack EXCEPT !.nans = @ \cup {f}]
     \/ \E i \in DOMAIN pack.fills : \E fills \in Changed(pack.fills, i) :
          pack' = [pack EXCEPT !.fills = fills]
  /\ UNCHANGED <<stage, moves, position, profit, orphans>>

-----------------------------------------------------------------------------
(* The checks.  The source's floats are integers here, or NaN, and its 1e-9*)
(* is zero.                                                                *)

Booked(p) == Sum([i \in DOMAIN p.fills |-> p.fills[i].qty])

(* Mutant: slippage is taken with its sign.                                *)
recomputed_SignedSlippage(p) ==
  Sum([i \in DOMAIN p.fills |-> LET f == p.fills[i] IN
         -(f.qty * f.price) - f.fee - f.slippage])
    + (p.opening_position + Booked(p)) * p.mark_price
    - p.opening_position * p.opening_mark

recomputed(p) ==
  Sum([i \in DOMAIN p.fills |-> LET f == p.fills[i] IN
         -(f.qty * f.price) - f.fee - magnitude(f.slippage)])
    + (p.opening_position + Booked(p)) * p.mark_price
    - p.opening_position * p.opening_mark

Within(tol, reported, expected) ==
  10 * magnitude(reported - expected)
    <= 10 * tol.absolute + tol.relative * magnitude(expected)

(* A difference with a NaN in it is NaN, and exceeds nothing.              *)
AnyNaN(p, figures) == p.nans \cap figures # {}

(* The tolerance, the boundary and the mark are asked for, not the         *)
(* convention: the sign of a quantity is taken as it stands.               *)
check_pl_a1_recomputation(p, absent) ==
  WhenDeclared(absent, {"pnl_tolerance", "accounting_boundary", "mark_price"},
    \/ AnyNaN(p, {"reported_pnl", "mark_price", "opening_position", "opening_mark"})
    \/ Within(p.pnl_tolerance, p.reported_pnl, recomputed(p)))

check_pl_a2_fill_lineage(p, absent) ==
  WhenDeclared({}, {},
    \A i \in DOMAIN p.fills : p.fills[i].gated /\ "gated_order_ids" \notin absent)

(* Mutant: nothing is conserved.                                           *)
check_pl_a3_position_conservation_Off(p, absent) ==
  WhenDeclared(absent, {"quantity_convention", "accounting_boundary"}, TRUE)

(* Of an empty ledger no sign is asked.                                    *)
check_pl_a3_position_conservation(p, absent) ==
  IF p.quantity_convention # "signed_long_positive" /\ p.fills # <<>>
    THEN "UNKNOWN"
    ELSE WhenDeclared(absent, {"quantity_convention", "accounting_boundary"},
           \/ AnyNaN(p, {"position_after", "opening_position"})
           \/ p.opening_position + Booked(p) = p.position_after)

(* With an empty ledger the mark is needed only for a position carried     *)
(* over that is said to have earned something.                             *)
check_pl_m1_pnl_without_fills(p, absent) ==
  IF "accounting_boundary" \in absent THEN "UNKNOWN"
  ELSE IF p.fills # <<>> THEN "PASS"
  ELSE IF p.realized_pnl # 0 /\ "realized_pnl" \notin absent \cup p.nans THEN "FAIL"
  ELSE IF \/ "unrealized_pnl" \in absent
          \/ p.unrealized_pnl = 0 /\ "unrealized_pnl" \notin p.nans THEN "PASS"
  ELSE IF p.opening_position = 0 /\ "opening_position" \notin p.nans THEN "FAIL"
  ELSE WhenDeclared(absent, {"mark_price"},
         \/ AnyNaN(p, {"unrealized_pnl", "mark_price", "opening_position", "opening_mark"})
         \/ p.unrealized_pnl = p.opening_position * (p.mark_price - p.opening_mark))

check_pl_m2_fees_and_slippage(p, absent) ==
  WhenDeclared(absent, {"execution_model"},
         \A i \in DOMAIN p.fills :
           /\ p.execution_model.charges_fees => p.fills[i].fee # 0
           /\ p.execution_model.charges_slippage => p.fills[i].slippage # 0)

detect_fabricated_pnl(p, absent) ==
  {check_pl_a1_recomputation(p, absent), check_pl_a2_fill_lineage(p, absent),
   check_pl_a3_position_conservation(p, absent),
   check_pl_m1_pnl_without_fills(p, absent), check_pl_m2_fees_and_slippage(p, absent)}

(* The verdict on the pack with some of its declarations left out.         *)
Suite(absent) == worst_verdict(detect_fabricated_pnl(pack, absent))

-----------------------------------------------------------------------------

Next == MarkMoves \/ Fill \/ Report \/ Alter

Spec == Init /\ [][Next]_vars

-----------------------------------------------------------------------------
(* Properties                                                              *)

Reported == stage = "reported"

Signed == pack.quantity_convention = "signed_long_positive"

(* What a desk that reports in the supported convention kept day by day is *)
(* what PL-A1 to PL-M2 recompute from the ledger: no such run is accused,  *)
(* whatever it traded at whatever marks and whatever that is asked for it  *)
(* left undeclared, and with everything declared it passes.  The one       *)
(* accusation is the one that is true: an orphan fill.                     *)
HonestNotAccused ==
  Reported /\ altered = 0 /\ Signed =>
    /\ \A absent \in LeftOut : absent \subseteq Asked => (Suite(absent) = "FAIL" <=> orphans)
    /\ ~orphans => Suite({}) = "PASS"

(* "PnL is derived, never trusted" (UPTM-002, section 4).  One change after*)
(* the fact, be it a number, a lost fill or a fill recorded twice, is      *)
(* caught, or the profit and the position the pack names are those earned, *)
(* within the tolerance, and held, and every fill had passed the gate.  One*)
(* that became NaN names none, and is not caught (NaNIsCaught).            *)
PassMeansTrue ==
  Reported /\ altered <= 1 /\ Signed /\ Suite({}) = "PASS" =>
    /\ "reported_pnl" \notin pack.nans => Within(pack.pnl_tolerance, pack.reported_pnl, profit)
    /\ "position_after" \notin pack.nans => pack.position_after = position
    /\ ~orphans

(* Leaving out what is asked for denies: no pack passes without it, be it  *)
(* true or changed.  And leaving out, of that or of what is taken for      *)
(* nothing, accuses in one way only: a run that traded and does not list   *)
(* the orders it gated.                                                    *)
LedgerWithheld ==
  Reported =>
    \A absent \in LeftOut :
      /\ absent \cap Asked # {} => Suite(absent) # "PASS"
      /\ Suite(absent) = "FAIL" =>
           \/ Suite({}) = "FAIL"
           \/ "gated_order_ids" \in absent /\ DOMAIN pack.fills # {}

(* "PnL is derived, never trusted" (UPTM-002, section 4): a report with a  *)
(* NaN in it does not pass.                                                *)
NaNIsCaught == Reported /\ altered = 1 /\ Suite({}) = "PASS" => pack.nans = {}

(* fabrication.py:51: what is not there "denies without accusing".         *)
OmissionNeverAccuses ==
  Reported => \A absent \in LeftOut : Suite(absent) = "FAIL" => Suite({}) = "FAIL"

(* fabrication.py:25-27: what is missing is "UNKNOWN, never a default".    *)
OmissionNeverHelps ==
  Reported => \A absent \in LeftOut : Suite(absent) = "PASS" => Suite({}) = "PASS"

(* fabrication.py:51: UNKNOWN "denies without accusing"; quantity_convention*)
(* is preregistered and one the detector does not support is UNKNOWN to    *)
(* PL-A3.  PL-A1 does not ask for it, and accuses such a run.              *)
UnsupportedConventionNotAccused ==
  Reported /\ altered = 0 /\ ~orphans => Suite({}) # "FAIL"

=============================================================================
