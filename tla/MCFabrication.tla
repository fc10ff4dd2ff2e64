------------------------------ MODULE MCFabrication ------------------------------
(* Fabrication for TLC.  The ledgers: a frictionless and a charging model,  *)
(* and a tolerance that is exact for small sums and wider for large ones.   *)
(* The series: two bars that differ in everything but their range, two that *)
(* no market makes, two that are not numbers, and a pack for each way a     *)
(* check can be declared.                                                   *)
EXTENDS Fabrication

MCQuantities == {-1, 2}
MCModels == {[charges_fees |-> c, charges_slippage |-> c] : c \in BOOLEAN}
MCTolerances == {[absolute |-> 0, relative |-> 3]}
MCLeftOut ==
  {{d} : d \in Parameters} \cup {Asked, {"mark_price", "unrealized_pnl"},
    {"realized_pnl", "unrealized_pnl"}, {"execution_model", "gated_order_ids"}}

Shape(o, h, l, c, v) ==
  [open |-> o, high |-> h, low |-> l, close |-> c, volume |-> v, closes_at |-> "number"]
ClosingAt(at) == [Shape(1, 1, 1, 1, 1) EXCEPT !.closes_at = at]

MCShapes == {Shape(1, 4, 1, 4, 1), Shape(4, 4, 1, 1, 1)}
MCMisprints == {Shape(2, 2, 1, 3, 1), Shape(1, 1, 1, 1, -1)}
MCUnreal == {ClosingAt(at) : at \in {"infinity", "nan"}}

Interval(first, last) == [first |-> first, last |-> last]
MCInvariants ==
  {[min_expected_variance |-> f, variance_window |-> w,
    duplicate_block_min_len |-> k, allows_repeated_bars |-> a, calendar_known |-> known,
    coverage |-> Interval(1, last), computation_interval |-> Interval(2, 6)] :
     <<f, w, k, a, known, last>> \in
       {<<0, 1, 2, FALSE, TRUE, 6>>, <<1, 3, 2, TRUE, TRUE, 6>>, <<0, 2, 3, FALSE, FALSE, 6>>,
        <<1, 2, 0, FALSE, TRUE, 6>>, <<0, 6, 1, TRUE, TRUE, 5>>}}

=============================================================================
