------------------------------ MODULE Market_proofs ------------------------------
(***************************************************************************)
(* What is proved of the market's records, for any prices, quantities and  *)
(* number of bars: of the fabrication detector, that an honest ledger is   *)
(* not accused, that a PASS is true, that withholding only denies and that *)
(* a series is accused of exactly what befell it; of the swing detector and*)
(* the continuous series, that neither revises what it has said.           *)
(***************************************************************************)
EXTENDS Series, Fabrication, WellFoundedInduction, TLAPS

-----------------------------------------------------------------------------
(* Counting                                                                *)

LEMMA SmallerIsWellFounded == IsWellFoundedOn({ss \in Nat \X Nat : ss[1] < ss[2]}, Nat)
<1>1. OpToRel(<, Nat) = {ss \in Nat \X Nat : ss[1] < ss[2]}
  BY Zenon DEF OpToRel
<1>2. QED
  BY NatLessThanWellFounded, Zenon DEF OpToRel

LEMMA Least ==
  ASSUME NEW T, T \subseteq Nat, T # {}
  PROVE  \E m \in T : \A k \in T : m <= k
<1> DEFINE R == {ss \in Nat \X Nat : ss[1] < ss[2]}
<1>1. \E x \in T : \A y \in T : <<y, x>> \notin R
  <2>1. IsWellFoundedOn(R, Nat)
    BY SmallerIsWellFounded
  <2> HIDE DEF R
  <2>2. QED
    BY <2>1, WFMin
<1>2. PICK m \in T : \A k \in T : <<k, m>> \notin R
  BY <1>1
<1>3. \A k \in T : ~(k < m)
  BY <1>2
<1>4. QED
  BY <1>3

(* Induction, over a set of numbers.                                       *)
LEMMA Counting ==
  ASSUME NEW T, 0 \in T, \A n \in Nat : n \in T => n + 1 \in T
  PROVE  Nat \subseteq T
<1> SUFFICES ASSUME Nat \ T # {} PROVE FALSE
  OBVIOUS
<1>1. PICK m \in Nat \ T : \A k \in Nat \ T : m <= k
  BY Least
<1>2. m # 0 /\ m - 1 \in Nat /\ m - 1 \notin Nat \ T
  BY <1>1
<1>3. QED
  BY <1>2

-----------------------------------------------------------------------------
(* Sums                                                                    *)

(* A sum is where its running totals end.                                  *)
LEMMA RunningTotals ==
  ASSUME NEW s \in Seq(Int)
  PROVE  \E t \in [0 .. Len(s) -> Int] :
           /\ t[0] = 0 /\ \A i \in 1 .. Len(s) : t[i] = t[i - 1] + s[i]
           /\ Sum(s) = t[Len(s)]
<1> DEFINE m == Len(s)
           total[n \in 0 .. m] == IF n = 0 THEN 0 ELSE total[n - 1] + s[n]
           Upto(k, f) == f = [n \in 0 .. k |-> IF n = 0 THEN 0 ELSE f[n - 1] + s[n]]
<1>1. m \in Nat
  OBVIOUS
<1>2. \E f : Upto(m, f)
  <2> DEFINE T == {k \in Nat : \E f : Upto(k, f)}
  <2>1. 0 \in T
    <3>1. Upto(0, [n \in 0 .. 0 |-> 0])
      OBVIOUS
    <3>2. QED
      BY <3>1
  <2>2. ASSUME NEW k \in Nat, k \in T PROVE k + 1 \in T
    <3>1. PICK f : Upto(k, f)
      BY <2>2
    <3> DEFINE g == [n \in 0 .. k + 1 |-> IF n = k + 1 THEN f[k] + s[k + 1] ELSE f[n]]
    <3>2. Upto(k + 1, g)
      BY <3>1
    <3> HIDE DEF g, Upto
    <3>3. QED
      BY <3>2
  <2> HIDE DEF T
  <2>3. m \in T
    BY <1>1, <2>1, <2>2, Counting
  <2>4. QED
    BY <2>3 DEF T
<1>3. Upto(m, total)
  BY <1>2
<1>4. Sum(s) = total[m]
  BY DEF Sum
<1> HIDE DEF total
<1>5. total[0] = 0 /\ \A i \in 1 .. m : total[i] = total[i - 1] + s[i]
  BY <1>1, <1>3
<1>6. \A i \in 0 .. m : total[i] \in Int
  <2> DEFINE T == {k \in Nat : k <= m => total[k] \in Int}
  <2>1. 0 \in T
    BY <1>5
  <2>2. ASSUME NEW k \in Nat, k \in T PROVE k + 1 \in T
    BY <1>1, <1>5, <2>2
  <2> HIDE DEF T
  <2>3. Nat \subseteq T
    BY <2>1, <2>2, Counting
  <2>4. QED
    BY <1>1, <2>3 DEF T
<1>7. total \in [0 .. m -> Int]
  BY <1>3, <1>6
<1>8. QED
  BY <1>4, <1>5, <1>7

(* Whatever counts up with the amounts ends at their sum.                  *)
LEMMA SumIs ==
  ASSUME NEW s \in Seq(Int), NEW t,
         t[0] = 0, \A i \in 1 .. Len(s) : t[i] = t[i - 1] + s[i]
  PROVE  Sum(s) = t[Len(s)]
<1>1. PICK u \in [0 .. Len(s) -> Int] :
        /\ u[0] = 0 /\ \A i \in 1 .. Len(s) : u[i] = u[i - 1] + s[i]
        /\ Sum(s) = u[Len(s)]
  BY RunningTotals
<1> DEFINE T == {k \in Nat : k <= Len(s) => t[k] = u[k]}
<1>2. 0 \in T
  BY <1>1
<1>3. ASSUME NEW k \in Nat, k \in T PROVE k + 1 \in T
  BY <1>1, <1>3
<1> HIDE DEF T
<1>4. Len(s) \in T
  <2>1. Nat \subseteq T
    BY <1>2, <1>3, Counting
  <2>2. QED
    BY <2>1
<1>5. QED
  BY <1>1, <1>4 DEF T

LEMMA SumIsInt ==
  ASSUME NEW s \in Seq(Int)
  PROVE  Sum(s) \in Int
  BY RunningTotals

LEMMA SumOfNone == Sum(<<>>) = 0
<1>1. <<>> \in Seq(Int) /\ Len(<<>>) = 0
  OBVIOUS
<1>2. QED
  BY <1>1, RunningTotals

(* One amount more.                                                        *)
LEMMA SumOfMore ==
  ASSUME NEW s \in Seq(Int), NEW r \in Seq(Int), Len(r) = Len(s) + 1,
         \A i \in 1 .. Len(s) : r[i] = s[i]
  PROVE  Sum(r) = Sum(s) + r[Len(r)]
<1>1. PICK t \in [0 .. Len(s) -> Int] :
        /\ t[0] = 0 /\ \A i \in 1 .. Len(s) : t[i] = t[i - 1] + s[i]
        /\ Sum(s) = t[Len(s)]
  BY RunningTotals
<1> DEFINE u == [i \in 0 .. Len(r) |-> IF i = Len(r) THEN t[Len(s)] + r[Len(r)] ELSE t[i]]
<1>2. u[0] = 0 /\ \A i \in 1 .. Len(r) : u[i] = u[i - 1] + r[i]
  BY <1>1
<1> HIDE DEF u
<1>3. Sum(r) = u[Len(r)]
  BY <1>2, SumIs
<1>4. QED
  BY <1>1, <1>3 DEF u

(* One amount less, and those behind it moved up.                          *)
LEMMA SumWithout ==
  ASSUME NEW s \in Seq(Int), NEW r \in Seq(Int), NEW k \in 1 .. Len(s), Len(r) = Len(s) - 1,
         \A i \in 1 .. Len(r) : r[i] = IF i < k THEN s[i] ELSE s[i + 1]
  PROVE  Sum(r) = Sum(s) - s[k]
<1>1. PICK t \in [0 .. Len(s) -> Int] :
        /\ t[0] = 0 /\ \A i \in 1 .. Len(s) : t[i] = t[i - 1] + s[i]
        /\ Sum(s) = t[Len(s)]
  BY RunningTotals
<1> DEFINE m == Len(s)
           u == [i \in 0 .. m - 1 |-> IF i < k THEN t[i] ELSE t[i + 1] - s[k]]
<1>2. m \in Nat /\ Len(r) = m - 1 /\ k \in 1 .. m /\ m - 1 \in Nat
  OBVIOUS
<1>3. \A i \in 1 .. m : s[i] \in Int
  OBVIOUS
<1>4. /\ \A i \in 0 .. m : t[i] \in Int
      /\ t[0] = 0 /\ \A i \in 1 .. m : t[i] = t[i - 1] + s[i]
  BY <1>1
<1>5. \A i \in 1 .. m - 1 : r[i] = IF i < k THEN s[i] ELSE s[i + 1]
  BY <1>2
<1>6. Sum(r) = u[m - 1]
  <2> HIDE DEF m
  <2>1. u[0] = 0
    BY <1>2, <1>4
  <2>2. ASSUME NEW i \in 1 .. m - 1 PROVE u[i] = u[i - 1] + r[i]
    <3>1. r[i] = IF i < k THEN s[i] ELSE s[i + 1]
      BY <1>5
    <3>2. i \in 1 .. m /\ i + 1 \in 1 .. m /\ i - 1 \in 0 .. m - 1 /\ i \in 0 .. m - 1
      BY <1>2
    <3>3. t[i] = t[i - 1] + s[i] /\ t[i + 1] = t[(i + 1) - 1] + s[i + 1] /\ (i + 1) - 1 = i
      BY <1>4, <3>2
    <3>4. /\ s[i] \in Int /\ s[i + 1] \in Int /\ s[k] \in Int
          /\ t[i] \in Int /\ t[i - 1] \in Int /\ t[i + 1] \in Int
      <4>1. i \in 0 .. m /\ i - 1 \in 0 .. m /\ i + 1 \in 0 .. m
        BY <1>2
      <4>2. t[i] \in Int /\ t[i - 1] \in Int /\ t[i + 1] \in Int
        BY <1>4, <4>1
      <4>3. QED
        BY <1>2, <1>3, <3>2, <4>2
    <3>5. /\ u[i] = IF i < k THEN t[i] ELSE t[i + 1] - s[k]
          /\ u[i - 1] = IF i - 1 < k THEN t[i - 1] ELSE t[(i - 1) + 1] - s[k]
      BY <3>2
    <3> HIDE DEF u
    <3>6. CASE i < k
      BY <1>2, <3>1, <3>3, <3>4, <3>5, <3>6
    <3>7. CASE i = k
      <4>1. u[i] = t[i + 1] - s[i] /\ u[i - 1] = t[i - 1] /\ r[i] = s[i + 1]
        BY <1>2, <3>1, <3>5, <3>7
      <4>2. t[i] = t[i - 1] + s[i] /\ t[i + 1] = t[i] + s[i + 1]
        BY <3>3
      <4>3. \A a, b, c \in Int : ((a + b) + c) - b = a + c
        OBVIOUS
      <4>4. u[i] = ((t[i - 1] + s[i]) + s[i + 1]) - s[i]
        BY <4>1, <4>2, Zenon
      <4>5. ((t[i - 1] + s[i]) + s[i + 1]) - s[i] = t[i - 1] + s[i + 1]
        BY <3>4, <4>3
      <4>6. QED
        BY <4>1, <4>4, <4>5, Zenon
    <3>8. CASE i > k
      <4>1. u[i] = t[i + 1] - s[k] /\ u[i - 1] = t[i] - s[k] /\ r[i] = s[i + 1]
        BY <1>2, <3>1, <3>5, <3>8
      <4>2. t[i + 1] = t[i] + s[i + 1]
        BY <3>3
      <4>3. \A a, b, c \in Int : (a + b) - c = (a - c) + b
        OBVIOUS
      <4>4. u[i] = (t[i] + s[i + 1]) - s[k]
        BY <4>1, <4>2, Zenon
      <4>5. (t[i] + s[i + 1]) - s[k] = (t[i] - s[k]) + s[i + 1]
        BY <3>4, <4>3
      <4>6. QED
        BY <4>1, <4>4, <4>5, Zenon
    <3>9. QED
      BY <1>2, <3>6, <3>7, <3>8
  <2> HIDE DEF u
  <2>3. QED
    BY <1>2, <2>1, <2>2, SumIs
<1>7. u[m - 1] = t[m] - s[k]
  <2> HIDE DEF m
  <2>1. m - 1 \in 0 .. m - 1 /\ (m - 1) + 1 = m
    BY <1>2
  <2>2. u[m - 1] = IF m - 1 < k THEN t[m - 1] ELSE t[m] - s[k]
    BY <2>1
  <2>3. t[m] = t[m - 1] + s[m] /\ t[m - 1] \in Int /\ s[m] \in Int /\ s[k] \in Int
    BY <1>2, <1>3, <1>4
  <2> HIDE DEF u
  <2>4. m - 1 < k => k = m
    BY <1>2
  <2>5. QED
    BY <2>2, <2>3, <2>4
<1>8. QED
  BY <1>1, <1>6, <1>7

-----------------------------------------------------------------------------
(* What is left out                                                        *)

LEMMA FoldOfVerdicts ==
  ASSUME NEW seen
  PROVE  /\ worst_verdict(seen) = "FAIL" <=> "FAIL" \in seen
         /\ worst_verdict(seen) = "PASS" => "UNKNOWN" \notin seen
  BY DEF worst_verdict

(* What is asked for is asked for by a check of its own.                   *)
LEMMA LedgerAsksForAll ==
  ASSUME NEW p, NEW absent, absent \cap Asked # {}
  PROVE  "UNKNOWN" \in detect_fabricated_pnl(p, absent)
<1>1. CASE absent \cap {"pnl_tolerance", "accounting_boundary", "mark_price"} # {}
  BY <1>1 DEF detect_fabricated_pnl, check_pl_a1_recomputation, WhenDeclared
<1>2. CASE "quantity_convention" \in absent
  BY <1>2 DEF detect_fabricated_pnl, check_pl_a3_position_conservation, WhenDeclared
<1>3. CASE "execution_model" \in absent
  BY <1>3 DEF detect_fabricated_pnl, check_pl_m2_fees_and_slippage, WhenDeclared
<1>4. QED
  BY <1>1, <1>2, <1>3 DEF Asked

(* What a check finds against a ledger it finds with everything declared,  *)
(* but for fills whose orders are not listed.                              *)
LEMMA DeclaringAccusesToo ==
  ASSUME NEW p, NEW absent, "FAIL" \in detect_fabricated_pnl(p, absent),
         ~("gated_order_ids" \in absent /\ DOMAIN p.fills # {})
  PROVE  "FAIL" \in detect_fabricated_pnl(p, {})
<1>1. CASE check_pl_a1_recomputation(p, absent) = "FAIL"
  BY <1>1 DEF detect_fabricated_pnl, check_pl_a1_recomputation, WhenDeclared
<1>2. CASE check_pl_a2_fill_lineage(p, absent) = "FAIL"
  BY <1>2 DEF detect_fabricated_pnl, check_pl_a2_fill_lineage, WhenDeclared
<1>3. CASE check_pl_a3_position_conservation(p, absent) = "FAIL"
  BY <1>3 DEF detect_fabricated_pnl, check_pl_a3_position_conservation, WhenDeclared
<1>4. CASE check_pl_m1_pnl_without_fills(p, absent) = "FAIL"
  BY <1>4 DEF detect_fabricated_pnl, check_pl_m1_pnl_without_fills, WhenDeclared
<1>5. CASE check_pl_m2_fees_and_slippage(p, absent) = "FAIL"
  BY <1>5 DEF detect_fabricated_pnl, check_pl_m2_fees_and_slippage, WhenDeclared
<1>6. QED
  BY <1>1, <1>2, <1>3, <1>4, <1>5 DEF detect_fabricated_pnl

LEMMA LedgersWithheld == LedgerWithheld
<1> SUFFICES ASSUME NEW absent \in LeftOut, Reported
             PROVE  /\ absent \cap Asked # {} => Suite(absent) # "PASS"
                    /\ Suite(absent) = "FAIL" =>
                         \/ Suite({}) = "FAIL"
                         \/ "gated_order_ids" \in absent /\ DOMAIN pack.fills # {}
  BY DEF LedgerWithheld
<1>1. absent \cap Asked # {} => Suite(absent) # "PASS"
  BY LedgerAsksForAll, FoldOfVerdicts DEF Suite
<1>2. Suite(absent) = "FAIL" =>
        \/ Suite({}) = "FAIL"
        \/ "gated_order_ids" \in absent /\ DOMAIN pack.fills # {}
  BY DeclaringAccusesToo, FoldOfVerdicts DEF Suite
<1>3. QED
  BY <1>1, <1>2

(* The checks of a series, by what they answer.                            *)
SeriesVerdicts(absent) ==
  {check_md_i4_ohlc(feed), check_md_i5_degenerate(feed, invariant, absent),
   check_md_i7_duplicate_block(feed, invariant, absent), check_md_p1_provenance(absent),
   check_md_i1_digest(snapshot, absent),
   check_md_i2_snapshot_exists(snapshot, absent),
   check_md_i3_coverage(invariant, absent),
   check_md_i6_calendar(feed, gaps, invariant, absent)}

LEMMA SeriesAsksForAll ==
  ASSUME NEW d \in Declarable \ {"declared_gaps"}
  PROVE  "UNKNOWN" \in SeriesVerdicts({d})
<1>1. CASE d \in {"source_id", "acquired_at_utc", "content_digest", "coverage"}
  BY <1>1 DEF SeriesVerdicts, check_md_p1_provenance, WhenDeclared
<1>2. CASE d = "snapshot_ref"
  BY <1>2 DEF SeriesVerdicts, check_md_i2_snapshot_exists, WhenDeclared
<1>3. CASE d = "computation_interval"
  BY <1>3 DEF SeriesVerdicts, check_md_i3_coverage, WhenDeclared
<1>4. CASE d \in {"min_expected_variance", "variance_window"}
  BY <1>4 DEF SeriesVerdicts, check_md_i5_degenerate, WhenDeclared
<1>5. CASE d = "calendar_id"
  BY <1>5 DEF SeriesVerdicts, check_md_i6_calendar, WhenDeclared
<1>6. CASE d \in {"duplicate_block_min_len", "allows_repeated_bars"}
  BY <1>6 DEF SeriesVerdicts, check_md_i7_duplicate_block, WhenDeclared
<1>7. QED
  BY <1>1, <1>2, <1>3, <1>4, <1>5, <1>6 DEF Declarable

LEMMA DeclaringAccusesSeriesToo ==
  ASSUME NEW absent, "FAIL" \in SeriesVerdicts(absent),
         ~("declared_gaps" \in absent /\ gaps # {} /\ invariant.calendar_known)
  PROVE  "FAIL" \in SeriesVerdicts({})
<1>1. CASE check_md_i4_ohlc(feed) = "FAIL"
  BY <1>1 DEF SeriesVerdicts
<1>2. CASE check_md_i5_degenerate(feed, invariant, absent) = "FAIL"
  <2>1. check_md_i5_degenerate(feed, invariant, {}) = "FAIL"
    BY <1>2 DEF check_md_i5_degenerate, WhenDeclared
  <2>2. QED
    BY <2>1 DEF SeriesVerdicts
<1>3. CASE check_md_i7_duplicate_block(feed, invariant, absent) = "FAIL"
  BY <1>3 DEF SeriesVerdicts, check_md_i7_duplicate_block, WhenDeclared
<1>4. CASE check_md_p1_provenance(absent) = "FAIL"
  BY <1>4 DEF check_md_p1_provenance, WhenDeclared
<1>5. CASE check_md_i1_digest(snapshot, absent) = "FAIL"
  BY <1>5 DEF SeriesVerdicts, check_md_i1_digest, WhenDeclared
<1>6. CASE check_md_i2_snapshot_exists(snapshot, absent) = "FAIL"
  BY <1>6 DEF SeriesVerdicts, check_md_i2_snapshot_exists, WhenDeclared
<1>7. CASE check_md_i3_coverage(invariant, absent) = "FAIL"
  BY <1>7 DEF SeriesVerdicts, check_md_i3_coverage, WhenDeclared
<1>8. CASE check_md_i6_calendar(feed, gaps, invariant, absent) = "FAIL"
  BY <1>8 DEF SeriesVerdicts, check_md_i6_calendar, WhenDeclared
<1>9. QED
  BY <1>1, <1>2, <1>3, <1>4, <1>5, <1>6, <1>7, <1>8 DEF SeriesVerdicts

LEMMA AllSeriesWithheld == SeriesWithheld
<1>1. \A absent : detect_fabricated_market_data(absent) = worst_verdict(SeriesVerdicts(absent))
  BY DEF detect_fabricated_market_data, SeriesVerdicts
<1> SUFFICES ASSUME NEW d \in Declarable
             PROVE  /\ d # "declared_gaps" => detect_fabricated_market_data({d}) # "PASS"
                    /\ detect_fabricated_market_data({d}) = "FAIL" =>
                         \/ detect_fabricated_market_data({}) = "FAIL"
                         \/ d = "declared_gaps" /\ gaps # {} /\ invariant.calendar_known
  BY DEF SeriesWithheld
<1>2. d # "declared_gaps" => detect_fabricated_market_data({d}) # "PASS"
  BY <1>1, SeriesAsksForAll, FoldOfVerdicts
<1>3. detect_fabricated_market_data({d}) = "FAIL" =>
        \/ detect_fabricated_market_data({}) = "FAIL"
        \/ d = "declared_gaps" /\ gaps # {} /\ invariant.calendar_known
  BY <1>1, DeclaringAccusesSeriesToo, FoldOfVerdicts
<1>4. QED
  BY <1>2, <1>3

(* "UNKNOWN denies without accusing" (fabrication.py:51): whatever a ledger*)
(* or a series leaves out, in whatever state its pack is, it does not pass *)
(* for it, and it is accused only if it would have been with it.           *)
THEOREM LeavingOutOnlyDenies == FabricationSpec => []WithholdingOnlyDenies
<1>1. WithholdingOnlyDenies
  BY LedgersWithheld, AllSeriesWithheld DEF WithholdingOnlyDenies
<1>2. QED
  BY <1>1, PTL

-----------------------------------------------------------------------------
(* The ledger of a run                                                     *)

FillRecord == [qty: Int, price: Int, fee: Int, slippage: Int, gated: BOOLEAN]

(* A pack every figure of which is a number.                               *)
LedgerPack ==
  [fills: Seq(FillRecord), opening_position: Int, opening_mark: Int, mark_price: Int,
   execution_model: [charges_fees: BOOLEAN, charges_slippage: BOOLEAN],
   pnl_tolerance: [absolute: Nat, relative: 0 .. 9],
   quantity_convention: {"signed_long_positive", "unsigned"}, position_after: Int,
   reported_pnl: Int, realized_pnl: Int, unrealized_pnl: Int, nans: {{}}]

Cost(f) == -(f.qty * f.price) - f.fee - magnitude(f.slippage)

QtyList(fills) == [i \in DOMAIN fills |-> fills[i].qty]
CostList(fills) == [i \in DOMAIN fills |-> Cost(fills[i])]

(* What the desk did is what the ledger adds up to.                        *)
Accounts(p, held, earned, ungated) ==
  /\ p \in LedgerPack
  /\ held = p.opening_position + Booked(p)
  /\ earned = recomputed(p)
  /\ ungated <=> \E i \in DOMAIN p.fills : ~p.fills[i].gated
  /\ \A i \in DOMAIN p.fills :
       /\ p.fills[i].qty # 0
       /\ p.execution_model.charges_fees => p.fills[i].fee # 0
       /\ p.execution_model.charges_slippage => p.fills[i].slippage # 0

(* The figures of a report are those of the desk.                          *)
Tells(p, held, earned) ==
  /\ p.reported_pnl = earned /\ p.position_after = held
  /\ p.realized_pnl = IF p.fills = <<>> THEN 0 ELSE earned
  /\ p.unrealized_pnl = IF p.fills = <<>> THEN earned ELSE 0

OneChange(p, q) ==
  \/ \E f \in Figures : q = [p EXCEPT !.nans = @ \cup {f}]
  \/ \E d \in {-3, -1, 1}, f \in Figures : q = [p EXCEPT ![f] = @ + d]
  \/ \E i \in DOMAIN p.fills : \E fills \in Changed(p.fills, i) : q = [p EXCEPT !.fills = fills]

LedgerInv ==
  stage # "none" =>
    /\ stage \in {"trading", "reported"} /\ altered \in Nat
    /\ position \in Int /\ profit \in Int /\ orphans \in BOOLEAN
    /\ stage = "trading" => altered = 0
    /\ altered = 0 => pack \in LedgerPack
    /\ altered = 0 /\ (stage = "trading" \/ Signed) => Accounts(pack, position, profit, orphans)
    /\ altered = 0 /\ stage = "reported" /\ Signed => Tells(pack, position, profit)
    /\ altered = 1 /\ Signed =>
         \E p : Accounts(p, position, profit, orphans) /\ Tells(p, position, profit)
                 /\ OneChange(p, pack)

LEMMA Magnitudes ==
  /\ \A n \in Int : magnitude(n) \in Nat /\ magnitude(n) \in Int
  /\ magnitude(0) = 0
  BY DEF magnitude

LEMMA CostIsInt ==
  ASSUME NEW f \in FillRecord
  PROVE  Cost(f) \in Int /\ f.qty \in Int
  BY Magnitudes DEF FillRecord, Cost

LEMMA ListsAreTyped ==
  ASSUME NEW fills \in Seq(FillRecord)
  PROVE  /\ QtyList(fills) \in Seq(Int) /\ CostList(fills) \in Seq(Int)
         /\ Len(QtyList(fills)) = Len(fills) /\ Len(CostList(fills)) = Len(fills)
         /\ \A i \in 1 .. Len(fills) :
              QtyList(fills)[i] = fills[i].qty /\ CostList(fills)[i] = Cost(fills[i])
<1>1. Len(fills) \in Nat /\ DOMAIN fills = 1 .. Len(fills) /\ \A i \in 1 .. Len(fills) : fills[i] \in FillRecord
  OBVIOUS
<1>2. QtyList(fills) = [i \in 1 .. Len(fills) |-> fills[i].qty]
  BY <1>1 DEF QtyList
<1>3. CostList(fills) = [i \in 1 .. Len(fills) |-> Cost(fills[i])]
  BY <1>1 DEF CostList
<1>4. \A i \in 1 .. Len(fills) : fills[i].qty \in Int /\ Cost(fills[i]) \in Int
  BY <1>1, CostIsInt
<1>5. QED
  BY <1>1, <1>2, <1>3, <1>4

LEMMA Recomputed ==
  ASSUME NEW p \in LedgerPack
  PROVE  /\ Booked(p) = Sum(QtyList(p.fills)) /\ Booked(p) \in Int
         /\ Sum(CostList(p.fills)) \in Int /\ recomputed(p) \in Int
         /\ recomputed(p) = Sum(CostList(p.fills))
              + (p.opening_position + Booked(p)) * p.mark_price
              - p.opening_position * p.opening_mark
<1>1. p.fills \in Seq(FillRecord)
  BY DEF LedgerPack
<1>2. Booked(p) = Sum(QtyList(p.fills)) /\ Booked(p) \in Int /\ Sum(CostList(p.fills)) \in Int
  BY <1>1, ListsAreTyped, SumIsInt DEF Booked, QtyList
<1>3. recomputed(p) = Sum(CostList(p.fills))
        + (p.opening_position + Booked(p)) * p.mark_price - p.opening_position * p.opening_mark
  BY DEF recomputed, CostList, Cost
<1>4. /\ p.opening_position \in Int /\ p.mark_price \in Int /\ p.opening_mark \in Int
  BY DEF LedgerPack
<1>5. QED
  BY <1>2, <1>3, <1>4

LEMMA AppendedFill ==
  ASSUME NEW fills \in Seq(FillRecord), NEW e \in FillRecord
  PROVE  /\ Append(fills, e) \in Seq(FillRecord)
         /\ Sum(QtyList(Append(fills, e))) = Sum(QtyList(fills)) + e.qty
         /\ Sum(CostList(Append(fills, e))) = Sum(CostList(fills)) + Cost(e)
<1> DEFINE more == Append(fills, e)
           m == Len(fills)
<1>1. /\ more \in Seq(FillRecord) /\ Len(more) = m + 1 /\ more[m + 1] = e
      /\ m \in Nat /\ \A i \in 1 .. m : more[i] = fills[i]
  OBVIOUS
<1> HIDE DEF more, m
<1>2. /\ QtyList(fills) \in Seq(Int) /\ CostList(fills) \in Seq(Int)
      /\ Len(QtyList(fills)) = m /\ Len(CostList(fills)) = m
      /\ \A i \in 1 .. m : QtyList(fills)[i] = fills[i].qty /\ CostList(fills)[i] = Cost(fills[i])
  BY ListsAreTyped DEF m
<1>3. /\ QtyList(more) \in Seq(Int) /\ CostList(more) \in Seq(Int)
      /\ Len(QtyList(more)) = m + 1 /\ Len(CostList(more)) = m + 1
      /\ \A i \in 1 .. m + 1 : QtyList(more)[i] = more[i].qty /\ CostList(more)[i] = Cost(more[i])
  BY <1>1, ListsAreTyped
<1>4. \A i \in 1 .. m : QtyList(more)[i] = QtyList(fills)[i] /\ CostList(more)[i] = CostList(fills)[i]
  <2> SUFFICES ASSUME NEW i \in 1 .. m
               PROVE  QtyList(more)[i] = QtyList(fills)[i] /\ CostList(more)[i] = CostList(fills)[i]
    OBVIOUS
  <2>1. i \in 1 .. m + 1 /\ more[i] = fills[i]
    BY <1>1
  <2>2. QtyList(more)[i] = more[i].qty /\ CostList(more)[i] = Cost(more[i])
    BY <1>3, <2>1
  <2>3. QtyList(fills)[i] = fills[i].qty /\ CostList(fills)[i] = Cost(fills[i])
    BY <1>2
  <2>4. QED
    BY <2>1, <2>2, <2>3
<1>5. Sum(QtyList(more)) = Sum(QtyList(fills)) + QtyList(more)[m + 1]
  <2> DEFINE r == QtyList(more)
             s == QtyList(fills)
  <2> HIDE DEF r, s
  <2>1. r \in Seq(Int) /\ s \in Seq(Int) /\ Len(r) = Len(s) + 1 /\ Len(s) = m
        /\ \A i \in 1 .. Len(s) : r[i] = s[i]
    BY <1>2, <1>3, <1>4 DEF r, s
  <2>2. Sum(r) = Sum(s) + r[Len(r)]
    BY <2>1, SumOfMore
  <2>3. QED
    BY <2>1, <2>2 DEF r, s
<1>6. Sum(CostList(more)) = Sum(CostList(fills)) + CostList(more)[m + 1]
  <2> DEFINE r == CostList(more)
             s == CostList(fills)
  <2> HIDE DEF r, s
  <2>1. r \in Seq(Int) /\ s \in Seq(Int) /\ Len(r) = Len(s) + 1 /\ Len(s) = m
        /\ \A i \in 1 .. Len(s) : r[i] = s[i]
    BY <1>2, <1>3, <1>4 DEF r, s
  <2>2. Sum(r) = Sum(s) + r[Len(r)]
    BY <2>1, SumOfMore
  <2>3. QED
    BY <2>1, <2>2 DEF r, s
<1>7. QtyList(more)[m + 1] = e.qty /\ CostList(more)[m + 1] = Cost(e)
  BY <1>1, <1>3
<1>8. QED
  BY <1>1, <1>5, <1>6, <1>7 DEF more

LEMMA LostFill ==
  ASSUME NEW fills \in Seq(FillRecord), NEW k \in 1 .. Len(fills)
  PROVE  /\ RemoveAt(fills, k) \in Seq(FillRecord)
         /\ Sum(QtyList(RemoveAt(fills, k))) = Sum(QtyList(fills)) - fills[k].qty
<1> DEFINE less == RemoveAt(fills, k)
           m == Len(fills)
           before == SubSeq(fills, 1, k - 1)
           behind == SubSeq(fills, k + 1, m)
<1>1. m \in Nat /\ k \in 1 .. m /\ \A i \in 1 .. m : fills[i] \in FillRecord
  OBVIOUS
<1>2. /\ before \in Seq(FillRecord) /\ Len(before) = k - 1
      /\ \A i \in 1 .. k - 1 : before[i] = fills[i]
  BY <1>1
<1>3. /\ behind \in Seq(FillRecord) /\ Len(behind) = m - k
      /\ \A i \in 1 .. m - k : behind[i] = fills[k + i]
  <2>1. Len(behind) = m - k
    BY <1>1
  <2>2. QED
    BY <1>1, <2>1
<1>4. less = before \o behind
  BY DEF RemoveAt
<1> HIDE DEF less, m, before, behind
<1>5. /\ less \in Seq(FillRecord) /\ Len(less) = m - 1
      /\ \A i \in 1 .. m - 1 : less[i] = IF i < k THEN fills[i] ELSE fills[i + 1]
  <2>1. less \in Seq(FillRecord) /\ Len(less) = (k - 1) + (m - k)
    <3>1. \A a, b \in Seq(FillRecord) : a \o b \in Seq(FillRecord) /\ Len(a \o b) = Len(a) + Len(b)
      OBVIOUS
    <3>2. less \in Seq(FillRecord) /\ Len(less) = Len(before) + Len(behind)
      BY <1>2, <1>3, <1>4, <3>1
    <3>3. QED
      BY <1>2, <1>3, <3>2
  <2>2. ASSUME NEW i \in 1 .. m - 1, i < k PROVE less[i] = fills[i]
    BY <1>1, <1>2, <1>3, <1>4, <2>2
  <2>3. ASSUME NEW i \in 1 .. m - 1, ~(i < k) PROVE less[i] = fills[i + 1]
    <3>1. less[i] = behind[i - (k - 1)] /\ i - (k - 1) \in 1 .. m - k
      BY <1>1, <1>2, <1>3, <1>4, <2>3
    <3>2. behind[i - (k - 1)] = fills[k + (i - (k - 1))] /\ k + (i - (k - 1)) = i + 1
      BY <1>1, <1>3, <3>1
    <3>3. QED
      BY <3>1, <3>2
  <2>4. QED
    BY <1>1, <2>1, <2>2, <2>3
<1>6. /\ QtyList(fills) \in Seq(Int) /\ Len(QtyList(fills)) = m
      /\ \A i \in 1 .. m : QtyList(fills)[i] = fills[i].qty
  BY ListsAreTyped DEF m
<1>7. /\ QtyList(less) \in Seq(Int) /\ Len(QtyList(less)) = m - 1
      /\ \A i \in 1 .. m - 1 : QtyList(less)[i] = less[i].qty
  BY <1>5, ListsAreTyped
<1> DEFINE r == QtyList(less)
           s == QtyList(fills)
<1> HIDE DEF r, s
<1>8. r \in Seq(Int) /\ s \in Seq(Int) /\ Len(r) = Len(s) - 1 /\ k \in 1 .. Len(s)
  BY <1>1, <1>6, <1>7 DEF r, s
<1>9. ASSUME NEW i \in 1 .. Len(r) PROVE r[i] = IF i < k THEN s[i] ELSE s[i + 1]
  <2>1. i \in 1 .. m - 1 /\ i \in 1 .. m /\ i + 1 \in 1 .. m
    BY <1>1, <1>7 DEF r
  <2>2. r[i] = less[i].qty /\ s[i] = fills[i].qty /\ s[i + 1] = fills[i + 1].qty
    BY <1>6, <1>7, <2>1 DEF r, s
  <2>3. QED
    BY <1>5, <2>1, <2>2
<1>10. Sum(r) = Sum(s) - s[k]
  BY <1>8, <1>9, SumWithout
<1>11. QED
  BY <1>1, <1>5, <1>6, <1>10 DEF less, r, s

LEMMA NoFills ==
  /\ Sum(QtyList(<<>>)) = 0 /\ Sum(CostList(<<>>)) = 0
<1>1. QtyList(<<>>) = <<>> /\ CostList(<<>>) = <<>>
  BY DEF QtyList, CostList
<1>2. QED
  BY <1>1, SumOfNone

LEMMA LedgerBegins == FabricationInit => LedgerInv
<1>1. ASSUME NoLedger PROVE LedgerInv
  BY <1>1 DEF NoLedger, LedgerInv
<1>2. ASSUME Init PROVE LedgerInv
  <2>1. PICK opening \in {0, 1}, mark \in Quotes, m \in Models, tol \in Tolerances,
             convention \in Conventions :
          /\ position = opening
          /\ pack = [fills |-> <<>>, opening_position |-> opening, opening_mark |-> mark,
                     mark_price |-> mark, execution_model |-> m, pnl_tolerance |-> tol,
                     quantity_convention |-> convention, position_after |-> opening,
                     reported_pnl |-> 0, realized_pnl |-> 0, unrealized_pnl |-> 0,
                     nans |-> {}]
    BY <1>2 DEF Init
  <2>2. stage = "trading" /\ altered = 0 /\ profit = 0 /\ orphans = FALSE
    BY <1>2 DEF Init
  <2>3. pack \in LedgerPack /\ pack.fills = <<>>
    <3>1. /\ mark \in Int /\ m \in [charges_fees: BOOLEAN, charges_slippage: BOOLEAN]
          /\ tol \in [absolute: Nat, relative: 0 .. 9]
          /\ convention \in {"signed_long_positive", "unsigned"}
      BY PnlAssumption
    <3>2. <<>> \in Seq(FillRecord)
      OBVIOUS
    <3>3. QED
      BY <2>1, <3>1, <3>2 DEF LedgerPack
  <2>4. Booked(pack) = 0 /\ Sum(CostList(pack.fills)) = 0
    BY <2>3, NoFills, Recomputed
  <2>5. recomputed(pack) = 0 + (opening + 0) * mark - opening * mark
    BY <2>1, <2>3, <2>4, Recomputed
  <2>6. recomputed(pack) = 0
    <3>1. mark \in Int /\ opening \in Int
      BY PnlAssumption
    <3>2. QED
      BY <2>5, <3>1
  <2>7. Accounts(pack, position, profit, orphans)
    BY <2>1, <2>2, <2>3, <2>4, <2>6 DEF Accounts
  <2>8. position \in Int /\ profit \in Int /\ orphans \in BOOLEAN
    <3>1. opening \in Int /\ position = opening
      BY <2>1
    <3>2. orphans \in BOOLEAN
      BY <2>2, Zenon
    <3>3. profit \in Int
      BY <2>2
    <3>4. QED
      BY <3>1, <3>2, <3>3
  <2>9. QED
    BY <2>2, <2>3, <2>7, <2>8 DEF LedgerInv
<1>3. QED
  BY <1>1, <1>2 DEF FabricationInit

LEMMA MoveKeepsLedger ==
  ASSUME LedgerInv, MarkMoves
  PROVE  LedgerInv'
<1>1. /\ stage = "trading" /\ altered = 0 /\ pack \in LedgerPack /\ position \in Int
      /\ profit \in Int /\ orphans \in BOOLEAN /\ Accounts(pack, position, profit, orphans)
      /\ UNCHANGED <<stage, position, orphans, altered>>
  BY DEF LedgerInv, MarkMoves
<1>2. PICK mark \in Quotes :
        /\ pack' = [pack EXCEPT !.mark_price = mark]
        /\ profit' = profit + position * (mark - pack.mark_price)
  BY DEF MarkMoves
<1>3. mark \in Int /\ pack.mark_price \in Int /\ pack.opening_position \in Int /\ pack.opening_mark \in Int
  BY <1>1, PnlAssumption DEF LedgerPack
<1>4. /\ pack' \in LedgerPack /\ pack'.fills = pack.fills /\ pack'.mark_price = mark
      /\ pack'.opening_position = pack.opening_position /\ pack'.opening_mark = pack.opening_mark
      /\ pack'.execution_model = pack.execution_model
  BY <1>1, <1>2, <1>3 DEF LedgerPack
<1>5. /\ Booked(pack) \in Int /\ Booked(pack') = Booked(pack) /\ Sum(CostList(pack.fills)) \in Int
      /\ position = pack.opening_position + Booked(pack) /\ profit = recomputed(pack)
  BY <1>1, <1>4, Recomputed DEF Accounts
<1>6. profit = Sum(CostList(pack.fills)) + position * pack.mark_price
                 - pack.opening_position * pack.opening_mark
  BY <1>1, <1>5, Recomputed
<1>7. recomputed(pack') = Sum(CostList(pack.fills)) + position * mark
                            - pack.opening_position * pack.opening_mark
  BY <1>4, <1>5, Recomputed
<1>8. profit' = recomputed(pack')
  <2>1. \A a, b, c, d, o \in Int : a + b * c - o + b * (d - c) = a + b * d - o
    OBVIOUS
  <2>2. pack.opening_position * pack.opening_mark \in Int
    BY <1>3
  <2> DEFINE a == Sum(CostList(pack.fills))
             o == pack.opening_position * pack.opening_mark
  <2> HIDE DEF a, o
  <2>3. a \in Int /\ o \in Int
    BY <1>5, <2>2 DEF a, o
  <2>4. a + position * pack.mark_price - o + position * (mark - pack.mark_price) = a + position * mark - o
    BY <1>1, <1>3, <2>1, <2>3
  <2>5. QED
    BY <1>2, <1>6, <1>7, <2>4, Zenon DEF a, o
<1>9. Accounts(pack', position', profit', orphans')
  BY <1>1, <1>4, <1>5, <1>8 DEF Accounts
<1>10. profit' \in Int
  BY <1>4, <1>8, Recomputed
<1>11. QED
  BY <1>1, <1>4, <1>9, <1>10 DEF LedgerInv

LEMMA FillKeepsLedger ==
  ASSUME LedgerInv, Fill
  PROVE  LedgerInv'
<1>1. /\ stage = "trading" /\ altered = 0 /\ pack \in LedgerPack /\ position \in Int
      /\ profit \in Int /\ orphans \in BOOLEAN /\ Accounts(pack, position, profit, orphans)
      /\ UNCHANGED <<stage, altered>>
  BY DEF LedgerInv, Fill
<1>2. PICK qty \in Quantities, price \in Quotes, gated \in BOOLEAN,
           fee \in IF pack.execution_model.charges_fees THEN {1} ELSE {0},
           slippage \in IF pack.execution_model.charges_slippage THEN {-1, 1} ELSE {0} :
        /\ pack' = [pack EXCEPT !.fills = Append(@,
                      [qty |-> qty, price |-> price, fee |-> fee,
                       slippage |-> slippage, gated |-> gated])]
        /\ position' = position + qty
        /\ profit' = profit + qty * (pack.mark_price - price) - fee - magnitude(slippage)
        /\ orphans' = (orphans \/ ~gated)
  BY DEF Fill
<1> DEFINE e == [qty |-> qty, price |-> price, fee |-> fee, slippage |-> slippage, gated |-> gated]
           fills == pack.fills
<1>3. /\ qty \in Int /\ qty # 0 /\ price \in Int /\ fee \in Int /\ slippage \in Int
      /\ e \in FillRecord /\ fills \in Seq(FillRecord)
  BY <1>1, PnlAssumption DEF FillRecord, LedgerPack
<1>4. /\ pack.mark_price \in Int /\ pack.opening_position \in Int /\ pack.opening_mark \in Int
  BY <1>1 DEF LedgerPack
<1>a. /\ e.qty = qty /\ e.price = price /\ e.fee = fee /\ e.slippage = slippage /\ e.gated = gated
      /\ pack.execution_model.charges_fees => e.fee # 0
      /\ pack.execution_model.charges_slippage => e.slippage # 0
  OBVIOUS
<1> HIDE DEF e
<1>5. /\ e.qty = qty /\ e.gated = gated /\ Cost(e) = -(qty * price) - fee - magnitude(slippage)
      /\ Cost(e) \in Int /\ magnitude(slippage) \in Int
      /\ pack.execution_model.charges_fees => e.fee # 0
      /\ pack.execution_model.charges_slippage => e.slippage # 0
  <2>1. Cost(e) = -(qty * price) - fee - magnitude(slippage)
    BY <1>a, Zenon DEF Cost
  <2>2. Cost(e) \in Int /\ magnitude(slippage) \in Int
    BY <1>3, CostIsInt, Magnitudes
  <2>3. QED
    BY <1>a, <2>1, <2>2
<1>6. /\ Append(fills, e) \in Seq(FillRecord)
      /\ Sum(QtyList(Append(fills, e))) = Sum(QtyList(fills)) + qty
      /\ Sum(CostList(Append(fills, e))) = Sum(CostList(fills)) + Cost(e)
  BY <1>3, <1>5, AppendedFill
<1>7. /\ pack' \in LedgerPack /\ pack'.fills = Append(fills, e)
      /\ pack'.mark_price = pack.mark_price
      /\ pack'.opening_position = pack.opening_position /\ pack'.opening_mark = pack.opening_mark
      /\ pack'.execution_model = pack.execution_model
  BY <1>1, <1>2, <1>6 DEF LedgerPack, e
<1>8. /\ Booked(pack) \in Int /\ Booked(pack') = Booked(pack) + qty /\ Sum(CostList(fills)) \in Int
      /\ position = pack.opening_position + Booked(pack) /\ profit = recomputed(pack)
  BY <1>1, <1>6, <1>7, Recomputed DEF Accounts
<1>9. position' = pack'.opening_position + Booked(pack')
  BY <1>2, <1>3, <1>4, <1>7, <1>8
<1>10. profit = Sum(CostList(fills)) + position * pack.mark_price
                  - pack.opening_position * pack.opening_mark
  BY <1>1, <1>8, Recomputed
<1>11. recomputed(pack') = (Sum(CostList(fills)) + Cost(e)) + position' * pack.mark_price
                             - pack.opening_position * pack.opening_mark
  BY <1>6, <1>7, <1>9, Recomputed
<1>12. profit' = recomputed(pack')
  <2>1. \A a, b, c \in Int : a * (b - c) = a * b - a * c /\ (a + b) * c = a * c + b * c
    OBVIOUS
  <2>2. pack.opening_position * pack.opening_mark \in Int
    BY <1>4
  <2>3. (Sum(CostList(fills)) + position * pack.mark_price - pack.opening_position * pack.opening_mark)
          + qty * (pack.mark_price - price) - fee - magnitude(slippage)
        = (Sum(CostList(fills)) + (-(qty * price) - fee - magnitude(slippage)))
            + (position + qty) * pack.mark_price - pack.opening_position * pack.opening_mark
    <3> DEFINE a == Sum(CostList(fills))
               o == pack.opening_position * pack.opening_mark
               s == magnitude(slippage)
    <3> HIDE DEF a, o, s
    <3>1. a \in Int /\ o \in Int /\ s \in Int /\ pack.mark_price \in Int
      BY <1>4, <1>5, <1>8, <2>2 DEF a, o, s
    <3>2. (a + position * pack.mark_price - o) + qty * (pack.mark_price - price) - fee - s
          = (a + (-(qty * price) - fee - s)) + (position + qty) * pack.mark_price - o
      <4> DEFINE k == pack.mark_price
                 x == position * k
                 y == qty * k
                 z == qty * price
      <4>1. qty * (k - price) = y - z /\ (position + qty) * k = x + y
        BY <1>1, <1>3, <2>1, <3>1
      <4>2. x \in Int /\ y \in Int /\ z \in Int
        BY <1>1, <1>3, <3>1
      <4> HIDE DEF x, y, z
      <4>3. (a + x - o) + (y - z) - fee - s = (a + (-z - fee - s)) + (x + y) - o
        BY <1>3, <3>1, <4>2
      <4>4. QED
        BY <4>1, <4>3, Zenon DEF x, y, z
    <3>3. QED
      BY <3>2 DEF a, o, s
  <2>4. QED
    BY <1>2, <1>5, <1>10, <1>11, <2>3, Zenon
<1>13. /\ orphans' <=> \E i \in DOMAIN pack'.fills : ~pack'.fills[i].gated
       /\ \A i \in DOMAIN pack'.fills :
            /\ pack'.fills[i].qty # 0
            /\ pack'.execution_model.charges_fees => pack'.fills[i].fee # 0
            /\ pack'.execution_model.charges_slippage => pack'.fills[i].slippage # 0
  <2> DEFINE m == Len(fills)
             more == Append(fills, e)
  <2>1. /\ m \in Nat /\ DOMAIN fills = 1 .. m /\ DOMAIN more = 1 .. m + 1
        /\ more[m + 1] = e /\ \A i \in 1 .. m : more[i] = fills[i]
    BY <1>3
  <2> HIDE DEF more, m
  <2>2. pack'.fills = more /\ 1 .. m + 1 = (1 .. m) \cup {m + 1}
    BY <1>7, <2>1 DEF more
  <2>3. /\ orphans <=> \E i \in 1 .. m : ~fills[i].gated
        /\ \A i \in 1 .. m :
             /\ fills[i].qty # 0
             /\ pack.execution_model.charges_fees => fills[i].fee # 0
             /\ pack.execution_model.charges_slippage => fills[i].slippage # 0
    BY <1>1, <2>1 DEF Accounts
  <2>4. orphans' <=> \E i \in 1 .. m + 1 : ~more[i].gated
    <3>1. (\E i \in 1 .. m + 1 : ~more[i].gated) <=> (\E i \in 1 .. m : ~fills[i].gated) \/ ~e.gated
      BY <2>1, <2>2
    <3>2. QED
      BY <1>2, <1>5, <2>3, <3>1
  <2>5. ASSUME NEW i \in 1 .. m + 1
        PROVE  /\ more[i].qty # 0
               /\ pack.execution_model.charges_fees => more[i].fee # 0
               /\ pack.execution_model.charges_slippage => more[i].slippage # 0
    <3>1. CASE i \in 1 .. m
      BY <2>1, <2>3, <3>1
    <3>2. CASE i = m + 1
      BY <1>3, <1>5, <2>1, <3>2
    <3>3. QED
      BY <2>2, <3>1, <3>2
  <2>6. QED
    BY <1>7, <2>1, <2>2, <2>4, <2>5
<1>14. Accounts(pack', position', profit', orphans')
  BY <1>7, <1>9, <1>12, <1>13 DEF Accounts
<1>15. profit' \in Int /\ position' \in Int /\ orphans' \in BOOLEAN
  <2>1. profit' \in Int
    BY <1>7, <1>12, Recomputed
  <2>2. position' \in Int
    BY <1>1, <1>2, <1>3
  <2>3. orphans' \in BOOLEAN
    BY <1>1, <1>2
  <2>4. QED
    BY <2>1, <2>2, <2>3
<1>16. QED
  BY <1>1, <1>7, <1>14, <1>15 DEF LedgerInv

LEMMA ReportKeepsLedger ==
  ASSUME LedgerInv, Report
  PROVE  LedgerInv'
<1>1. /\ stage = "trading" /\ altered = 0 /\ pack \in LedgerPack /\ position \in Int
      /\ profit \in Int /\ orphans \in BOOLEAN /\ Accounts(pack, position, profit, orphans)
      /\ stage' = "reported" /\ UNCHANGED <<position, profit, orphans, altered>>
  BY DEF LedgerInv, Report
<1> DEFINE recorded == [i \in DOMAIN pack.fills |-> Recorded(pack.fills[i])]
           realized == IF pack.fills = <<>> THEN 0 ELSE profit
           unrealized == IF pack.fills = <<>> THEN profit ELSE 0
<1>2. pack' = [pack EXCEPT !.fills = recorded, !.reported_pnl = profit,
                 !.position_after = position, !.realized_pnl = realized,
                 !.unrealized_pnl = unrealized]
  BY DEF Report
<1>3. /\ realized \in Int /\ unrealized \in Int
  BY <1>1
<1>4. recorded \in Seq(FillRecord)
  <2>1. pack.fills \in Seq(FillRecord)
    BY <1>1 DEF LedgerPack
  <2>2. ASSUME NEW f \in FillRecord PROVE Recorded(f) \in FillRecord
    <3>1. magnitude(f.qty) \in Int
      BY Magnitudes DEF FillRecord
    <3>2. [f EXCEPT !.qty = magnitude(@)] \in FillRecord
      BY <3>1 DEF FillRecord
    <3>3. QED
      BY <3>2 DEF Recorded
  <2>3. QED
    BY <2>1, <2>2
<1> HIDE DEF recorded, realized, unrealized
<1>5. /\ pack' \in LedgerPack /\ pack'.fills = recorded
      /\ pack'.reported_pnl = profit /\ pack'.position_after = position
      /\ pack'.realized_pnl = realized /\ pack'.unrealized_pnl = unrealized
      /\ pack'.mark_price = pack.mark_price /\ pack'.execution_model = pack.execution_model
      /\ pack'.opening_position = pack.opening_position /\ pack'.opening_mark = pack.opening_mark
      /\ pack'.quantity_convention = pack.quantity_convention
  BY <1>1, <1>2, <1>3, <1>4 DEF LedgerPack
<1>6. ASSUME Signed
      PROVE  Accounts(pack', position', profit', orphans') /\ Tells(pack', position', profit')
  <2>1. recorded = pack.fills
    <3>1. pack.fills \in Seq(FillRecord)
      BY <1>1 DEF LedgerPack
    <3>2. \A f : Recorded(f) = f
      BY <1>6 DEF Signed, Recorded
    <3>3. QED
      BY <3>1, <3>2 DEF recorded
  <2>2. Booked(pack') = Booked(pack) /\ recomputed(pack') = recomputed(pack)
    BY <1>1, <1>5, <2>1, Recomputed
  <2>3. Accounts(pack', position', profit', orphans')
    BY <1>1, <1>5, <2>1, <2>2 DEF Accounts
  <2>4. Tells(pack', position', profit')
    BY <1>1, <1>5, <2>1 DEF Tells, realized, unrealized
  <2>5. QED
    BY <2>3, <2>4
<1>7. Signed' => Signed
  BY <1>5 DEF Signed
<1>8. QED
  BY <1>1, <1>5, <1>6, <1>7 DEF LedgerInv

LEMMA ChangeKeepsConvention ==
  ASSUME NEW p \in LedgerPack, NEW q, OneChange(p, q)
  PROVE  q.quantity_convention = p.quantity_convention
<1>1. CASE \E d \in {-3, -1, 1}, f \in Figures : q = [p EXCEPT ![f] = @ + d]
  <2>1. PICK d \in {-3, -1, 1}, f \in Figures : q = [p EXCEPT ![f] = @ + d]
    BY <1>1
  <2>2. f # "quantity_convention"
    BY DEF Figures
  <2>3. QED
    BY <2>1, <2>2 DEF LedgerPack
<1>2. CASE \E i \in DOMAIN p.fills : \E fills \in Changed(p.fills, i) : q = [p EXCEPT !.fills = fills]
  <2>1. PICK fills : q = [p EXCEPT !.fills = fills]
    BY <1>2
  <2>2. QED
    BY <2>1 DEF LedgerPack
<1>3. CASE \E f \in Figures : q = [p EXCEPT !.nans = @ \cup {f}]
  BY <1>3 DEF LedgerPack
<1>4. QED
  BY <1>1, <1>2, <1>3 DEF OneChange

LEMMA AlterKeepsLedger ==
  ASSUME LedgerInv, Alter
  PROVE  LedgerInv'
<1>1. /\ stage = "reported" /\ stage' = "reported" /\ altered \in Nat /\ altered' = altered + 1
      /\ position \in Int /\ profit \in Int /\ orphans \in BOOLEAN
      /\ UNCHANGED <<position, profit, orphans>>
  BY DEF LedgerInv, Alter
<1>2. altered' # 0 /\ altered' \in Nat
  BY <1>1
<1>3. ASSUME altered' = 1, Signed'
      PROVE  \E p : Accounts(p, position', profit', orphans') /\ Tells(p, position', profit')
                    /\ OneChange(p, pack')
  <2>1. altered = 0
    BY <1>1, <1>3
  <2>2. pack \in LedgerPack
    BY <1>1, <2>1 DEF LedgerInv
  <2>3. OneChange(pack, pack')
    BY DEF Alter, OneChange, Figures
  <2>4. Signed
    BY <1>3, <2>2, <2>3, ChangeKeepsConvention DEF Signed
  <2>5. Accounts(pack, position, profit, orphans) /\ Tells(pack, position, profit)
    BY <1>1, <2>1, <2>4 DEF LedgerInv
  <2>6. QED
    BY <1>1, <2>3, <2>5
<1>4. QED
  BY <1>1, <1>2, <1>3 DEF LedgerInv

LEMMA LedgerKeeps == LedgerInv /\ [FabricationNext]_<<vars, market_vars>> => LedgerInv'
<1> SUFFICES ASSUME LedgerInv, [FabricationNext]_<<vars, market_vars>> PROVE LedgerInv'
  OBVIOUS
<1>1. CASE Next
  BY <1>1, MoveKeepsLedger, FillKeepsLedger, ReportKeepsLedger, AlterKeepsLedger DEF Next
<1>2. CASE UNCHANGED vars
  BY <1>2 DEF vars, LedgerInv, Signed
<1>3. QED
  BY <1>1, <1>2 DEF FabricationNext

LEMMA LedgerIsKept == FabricationSpec => []LedgerInv
  BY LedgerBegins, LedgerKeeps, PTL DEF FabricationSpec

LEMMA ExactIsWithin ==
  ASSUME NEW p \in LedgerPack, NEW n \in Int
  PROVE  Within(p.pnl_tolerance, n, n)
<1>1. p.pnl_tolerance.absolute \in Nat /\ p.pnl_tolerance.relative \in Nat
  BY DEF LedgerPack
<1>2. n - n = 0 /\ magnitude(n - n) = 0 /\ magnitude(n) \in Nat
  BY Magnitudes
<1>3. \A a, b, c \in Nat : 10 * 0 <= 10 * a + b * c
  OBVIOUS
<1>4. 10 * 0 <= 10 * p.pnl_tolerance.absolute + p.pnl_tolerance.relative * magnitude(n)
  BY <1>1, <1>2, <1>3
<1>5. QED
  BY <1>2, <1>4 DEF Within

(* What an empty ledger earned is what its position did.                   *)
LEMMA NothingTraded ==
  ASSUME NEW p \in LedgerPack, p.fills = <<>>
  PROVE  recomputed(p) = p.opening_position * (p.mark_price - p.opening_mark)
<1>1. p.opening_position \in Int /\ p.mark_price \in Int /\ p.opening_mark \in Int
  BY DEF LedgerPack
<1>2. recomputed(p) = 0 + (p.opening_position + 0) * p.mark_price - p.opening_position * p.opening_mark
  BY NoFills, Recomputed
<1>3. \A a, b, c \in Int : 0 + (a + 0) * b - a * c = a * (b - c)
  OBVIOUS
<1>4. QED
  BY <1>1, <1>2, <1>3

(* An honest report under each check.                                      *)
LEMMA HonestChecks ==
  ASSUME NEW p, NEW held, NEW earned, NEW ungated, NEW absent,
         Accounts(p, held, earned, ungated), Tells(p, held, earned),
         p.quantity_convention = "signed_long_positive"
  PROVE  /\ check_pl_a1_recomputation(p, absent) # "FAIL"
         /\ check_pl_a3_position_conservation(p, absent) # "FAIL"
         /\ check_pl_m1_pnl_without_fills(p, absent) # "FAIL"
         /\ check_pl_m2_fees_and_slippage(p, absent) # "FAIL"
         /\ "gated_order_ids" \notin absent =>
              check_pl_a2_fill_lineage(p, absent) = IF ungated THEN "FAIL" ELSE "PASS"
         /\ absent = {} => /\ check_pl_a1_recomputation(p, absent) = "PASS"
                           /\ check_pl_a3_position_conservation(p, absent) = "PASS"
                           /\ check_pl_m1_pnl_without_fills(p, absent) = "PASS"
                           /\ check_pl_m2_fees_and_slippage(p, absent) = "PASS"
<1>1. /\ p \in LedgerPack /\ earned = recomputed(p) /\ earned \in Int
      /\ p.opening_position \in Int /\ p.mark_price \in Int /\ p.opening_mark \in Int
      /\ p.nans = {}
  BY Recomputed DEF Accounts, LedgerPack
<1>2. Within(p.pnl_tolerance, p.reported_pnl, recomputed(p))
  BY <1>1, ExactIsWithin DEF Tells
<1>3. p.opening_position + Booked(p) = p.position_after
  BY DEF Accounts, Tells
<1>4. check_pl_a1_recomputation(p, absent) \in {"PASS", "UNKNOWN"}
      /\ (absent = {} => check_pl_a1_recomputation(p, absent) = "PASS")
  BY <1>2 DEF check_pl_a1_recomputation, WhenDeclared
<1>5. check_pl_a3_position_conservation(p, absent) \in {"PASS", "UNKNOWN"}
      /\ (absent = {} => check_pl_a3_position_conservation(p, absent) = "PASS")
  BY <1>3 DEF check_pl_a3_position_conservation, WhenDeclared
<1>6. check_pl_m2_fees_and_slippage(p, absent) \in {"PASS", "UNKNOWN"}
      /\ (absent = {} => check_pl_m2_fees_and_slippage(p, absent) = "PASS")
  BY DEF Accounts, check_pl_m2_fees_and_slippage, WhenDeclared
<1>7. "gated_order_ids" \notin absent =>
        check_pl_a2_fill_lineage(p, absent) = IF ungated THEN "FAIL" ELSE "PASS"
  BY DEF Accounts, check_pl_a2_fill_lineage, WhenDeclared
<1>8. check_pl_m1_pnl_without_fills(p, absent) \in {"PASS", "UNKNOWN"}
      /\ (absent = {} => check_pl_m1_pnl_without_fills(p, absent) = "PASS")
  <2>1. CASE p.fills # <<>>
    BY <2>1 DEF check_pl_m1_pnl_without_fills
  <2>2. CASE p.fills = <<>>
    <3>1. p.realized_pnl = 0 /\ p.unrealized_pnl = earned
      BY <2>2 DEF Tells
    <3>2. earned = p.opening_position * (p.mark_price - p.opening_mark)
      BY <1>1, <2>2, NothingTraded
    <3>3. p.opening_position = 0 => earned = 0
      BY <1>1, <3>2
    <3>4. QED
      BY <1>1, <2>2, <3>1, <3>2, <3>3 DEF check_pl_m1_pnl_without_fills, WhenDeclared
  <2>3. QED
    BY <2>1, <2>2
<1>9. QED
  BY <1>4, <1>5, <1>6, <1>7, <1>8

(* What a desk that reports in the supported convention kept day by day is *)
(* what PL-A1 to PL-M2 recompute from its ledger (fabrication.py:234-350), *)
(* for any fills, marks and number of either.                              *)
THEOREM HonestyIsNotAccused == FabricationSpec => []HonestNotAccused
<1>1. ASSUME LedgerInv PROVE HonestNotAccused
  <2> SUFFICES ASSUME Reported, altered = 0, Signed
               PROVE  /\ \A absent \in LeftOut :
                           absent \subseteq Asked => (Suite(absent) = "FAIL" <=> orphans)
                      /\ ~orphans => Suite({}) = "PASS"
    BY DEF HonestNotAccused
  <2>1. /\ Accounts(pack, position, profit, orphans) /\ Tells(pack, position, profit)
        /\ pack.quantity_convention = "signed_long_positive" /\ orphans \in BOOLEAN
    BY <1>1 DEF LedgerInv, Reported, Signed
  <2>2. ASSUME NEW absent, "gated_order_ids" \notin absent
        PROVE  "FAIL" \in detect_fabricated_pnl(pack, absent) <=> orphans
    BY <2>1, <2>2, HonestChecks DEF detect_fabricated_pnl
  <2>3. ~orphans => detect_fabricated_pnl(pack, {}) = {"PASS"}
    BY <2>1, HonestChecks DEF detect_fabricated_pnl
  <2>4. \A absent \in LeftOut : absent \subseteq Asked => (Suite(absent) = "FAIL" <=> orphans)
    BY <2>2, FoldOfVerdicts DEF Suite, Asked
  <2>5. ~orphans => Suite({}) = "PASS"
    BY <2>3 DEF Suite, worst_verdict
  <2>6. QED
    BY <2>4, <2>5
<1>2. QED
  BY <1>1, LedgerIsKept, PTL

LEMMA PassedChecks ==
  ASSUME NEW p, worst_verdict(detect_fabricated_pnl(p, {})) = "PASS",
         p.quantity_convention = "signed_long_positive"
  PROVE  /\ p.nans = {} => Within(p.pnl_tolerance, p.reported_pnl, recomputed(p))
         /\ \A i \in DOMAIN p.fills : p.fills[i].gated
         /\ p.nans = {} => p.opening_position + Booked(p) = p.position_after
<1>1. "FAIL" \notin detect_fabricated_pnl(p, {})
  BY FoldOfVerdicts
<1>2. /\ check_pl_a1_recomputation(p, {}) # "FAIL" /\ check_pl_a2_fill_lineage(p, {}) # "FAIL"
      /\ check_pl_a3_position_conservation(p, {}) # "FAIL"
  BY <1>1 DEF detect_fabricated_pnl
<1>3. p.nans = {} => Within(p.pnl_tolerance, p.reported_pnl, recomputed(p))
  BY <1>2 DEF check_pl_a1_recomputation, WhenDeclared, AnyNaN
<1>4. \A i \in DOMAIN p.fills : p.fills[i].gated
  BY <1>2 DEF check_pl_a2_fill_lineage, WhenDeclared
<1>5. p.nans = {} => p.opening_position + Booked(p) = p.position_after
  BY <1>2 DEF check_pl_a3_position_conservation, WhenDeclared, AnyNaN
<1>6. QED
  BY <1>3, <1>4, <1>5

(* A number of a report, other than its fills, was changed.                *)
Bumped(p, f, d) == [p EXCEPT ![f] = @ + d]

LEMMA FigureChanged ==
  ASSUME NEW p, NEW q, NEW held, NEW earned \in Int, NEW ungated \in BOOLEAN,
         Accounts(p, held, earned, ungated), Tells(p, held, earned),
         p.quantity_convention = "signed_long_positive",
         NEW d \in Int, NEW f \in Figures, q = Bumped(p, f, d),
         worst_verdict(detect_fabricated_pnl(q, {})) = "PASS"
  PROVE  /\ Within(q.pnl_tolerance, q.reported_pnl, earned)
         /\ q.position_after = held /\ ~ungated
<1>1. p \in LedgerPack
  BY DEF Accounts
<1>2. \A g \in {"fills", "execution_model", "pnl_tolerance", "quantity_convention", "nans"} :
        q[g] = p[g]
  BY <1>1 DEF LedgerPack, Figures, Bumped
<1>3. /\ q.fills = p.fills /\ q.pnl_tolerance = p.pnl_tolerance
      /\ q.quantity_convention = "signed_long_positive" /\ q.nans = {}
  BY <1>1, <1>2 DEF LedgerPack
<1>4. ~ungated
  BY <1>3, PassedChecks DEF Accounts
<1>5. q.position_after = held
  <2>1. CASE f # "position_after"
    BY <1>1, <2>1 DEF LedgerPack, Tells, Bumped
  <2>2. CASE f = "position_after"
    <3>1. q.position_after = p.position_after + d /\ q.opening_position = p.opening_position
      BY <1>1, <2>2 DEF LedgerPack, Bumped
    <3>2. q.opening_position + Booked(q) = q.position_after
      BY <1>3, PassedChecks
    <3>3. Booked(q) = Booked(p) /\ Booked(p) \in Int /\ p.opening_position \in Int
      BY <1>1, <1>3, Recomputed DEF Booked, LedgerPack
    <3>4. p.position_after = p.opening_position + Booked(p) /\ p.position_after = held
      BY DEF Accounts, Tells
    <3>5. QED
      BY <3>1, <3>2, <3>3, <3>4
  <2>3. QED
    BY <2>1, <2>2
<1>6. Within(q.pnl_tolerance, q.reported_pnl, earned)
  <2>1. CASE f # "reported_pnl"
    <3>1. q.reported_pnl = earned
      BY <1>1, <2>1 DEF LedgerPack, Tells, Bumped
    <3>2. QED
      BY <1>1, <1>3, <3>1, ExactIsWithin
  <2>2. CASE f = "reported_pnl"
    <3>1. /\ q.opening_position = p.opening_position /\ q.mark_price = p.mark_price
          /\ q.opening_mark = p.opening_mark
      BY <1>1, <2>2 DEF LedgerPack, Bumped
    <3>2. recomputed(q) = recomputed(p)
      <4>1. q \in LedgerPack
        <5>1. p.reported_pnl + d \in Int
          BY <1>1 DEF LedgerPack
        <5>2. q = [p EXCEPT !.reported_pnl = p.reported_pnl + d]
          BY <2>2 DEF Bumped
        <5>3. \A v \in Int : [p EXCEPT !.reported_pnl = v] \in LedgerPack
          BY <1>1 DEF LedgerPack
        <5>4. QED
          BY <5>1, <5>2, <5>3
      <4>2. Booked(q) = Booked(p)
        BY <1>1, <1>3, <4>1, Recomputed
      <4>3. QED
        BY <1>1, <1>3, <3>1, <4>1, <4>2, Recomputed
    <3>3. QED
      BY <1>3, <3>2, PassedChecks DEF Accounts
  <2>3. QED
    BY <2>1, <2>2
<1>7. QED
  BY <1>4, <1>5, <1>6

(* Two lists put together.                                                 *)
LEMMA Joined ==
  ASSUME NEW S, NEW a \in Seq(S), NEW b \in Seq(S)
  PROVE  /\ a \o b \in Seq(S) /\ Len(a \o b) = Len(a) + Len(b)
         /\ \A j \in 1 .. Len(a) : (a \o b)[j] = a[j]
         /\ \A j \in 1 .. Len(b) : (a \o b)[Len(a) + j] = b[j]
OBVIOUS

(* A fill of a report was changed, lost, or recorded twice.                *)
LEMMA FillsChanged ==
  ASSUME NEW p, NEW q, NEW held, NEW earned \in Int, NEW ungated \in BOOLEAN,
         Accounts(p, held, earned, ungated), Tells(p, held, earned),
         p.quantity_convention = "signed_long_positive",
         NEW k \in DOMAIN p.fills, NEW fills \in Changed(p.fills, k),
         q = [p EXCEPT !.fills = fills],
         worst_verdict(detect_fabricated_pnl(q, {})) = "PASS"
  PROVE  /\ Within(q.pnl_tolerance, q.reported_pnl, earned)
         /\ q.position_after = held /\ ~ungated
<1>1. p \in LedgerPack /\ p.fills \in Seq(FillRecord)
  BY DEF Accounts, LedgerPack
<1>2. /\ q.fills = fills /\ q.pnl_tolerance = p.pnl_tolerance /\ q.reported_pnl = p.reported_pnl
      /\ q.position_after = p.position_after /\ q.opening_position = p.opening_position
      /\ q.quantity_convention = "signed_long_positive" /\ q.nans = {}
  BY <1>1 DEF LedgerPack
<1>3. Within(q.pnl_tolerance, q.reported_pnl, earned) /\ q.position_after = held
  BY <1>1, <1>2, ExactIsWithin DEF Tells
<1>4. /\ \A i \in DOMAIN fills : fills[i].gated
      /\ p.opening_position + Sum(QtyList(fills)) = p.position_after
  <2>1. (\A i \in DOMAIN q.fills : q.fills[i].gated) /\ q.opening_position + Booked(q) = q.position_after
    BY <1>2, PassedChecks
  <2>2. Booked(q) = Sum(QtyList(fills))
    BY <1>2 DEF Booked, QtyList
  <2>3. QED
    BY <1>2, <2>1, <2>2
<1> DEFINE m == Len(p.fills)
<1>5. m \in Nat /\ DOMAIN p.fills = 1 .. m /\ k \in 1 .. m
      /\ \A i \in 1 .. m : p.fills[i] \in FillRecord
  BY <1>1
<1> HIDE DEF m
<1> SUFFICES ASSUME NEW i \in 1 .. m PROVE p.fills[i].gated
  BY <1>3, <1>5 DEF Accounts
<1>6. CASE \E f \in {"qty", "price", "fee", "slippage"} :
             \E v : fills = [p.fills EXCEPT ![k] = [p.fills[k] EXCEPT ![f] = v]]
  <2>1. PICK f \in {"qty", "price", "fee", "slippage"} :
               \E v : fills = [p.fills EXCEPT ![k] = [p.fills[k] EXCEPT ![f] = v]]
    BY <1>6
  <2>2. PICK v : fills = [p.fills EXCEPT ![k] = [p.fills[k] EXCEPT ![f] = v]]
    BY <2>1
  <2>3. DOMAIN fills = 1 .. m /\ fills[i].gated
    BY <1>4, <1>5, <2>2
  <2>4. i = k => fills[i] = [p.fills[k] EXCEPT ![f] = v]
    BY <1>5, <2>2
  <2>5. i # k => fills[i] = p.fills[i]
    BY <1>5, <2>2
  <2>6. [p.fills[k] EXCEPT ![f] = v].gated = p.fills[k].gated
    BY <1>5 DEF FillRecord
  <2>7. QED
    BY <2>3, <2>4, <2>5, <2>6
<1>7. CASE fills = RemoveAt(p.fills, k)
  <2>1. Sum(QtyList(fills)) = Sum(QtyList(p.fills)) - p.fills[k].qty
    BY <1>1, <1>5, <1>7, LostFill DEF m
  <2>2. p.position_after = p.opening_position + Sum(QtyList(p.fills))
    BY <1>1, Recomputed DEF Accounts, Tells
  <2>3. /\ Sum(QtyList(p.fills)) \in Int /\ p.opening_position \in Int /\ p.fills[k].qty \in Int
    BY <1>1, <1>5, Recomputed, CostIsInt DEF LedgerPack
  <2>4. p.fills[k].qty = 0
    BY <1>4, <2>1, <2>2, <2>3
  <2>5. QED
    BY <2>4 DEF Accounts
<1>8. CASE fills = InsertAt(p.fills, k, p.fills[k])
  <2> DEFINE before == SubSeq(p.fills, 1, k - 1)
             behind == SubSeq(p.fills, k, m)
             copy == <<p.fills[k]>>
  <2>1. /\ before \in Seq(FillRecord) /\ Len(before) = k - 1
        /\ \A j \in 1 .. k - 1 : before[j] = p.fills[j]
    BY <1>1, <1>5
  <2>2. /\ behind \in Seq(FillRecord) /\ Len(behind) = m - k + 1
        /\ \A j \in 1 .. m - k + 1 : behind[j] = p.fills[k + j - 1]
    <3>1. Len(behind) = m - k + 1
      BY <1>1, <1>5 DEF m
    <3>2. QED
      BY <1>1, <1>5, <3>1 DEF m
  <2>3. copy \in Seq(FillRecord) /\ Len(copy) = 1
    BY <1>5
  <2>4. fills = before \o copy \o behind
    BY <1>8 DEF InsertAt, m
  <2> HIDE DEF before, behind, copy
  <2> DEFINE front == before \o copy
  <2>6. /\ front \in Seq(FillRecord) /\ Len(front) = k
        /\ \A j \in 1 .. k - 1 : front[j] = p.fills[j]
    <3>1. /\ front \in Seq(FillRecord) /\ Len(front) = Len(before) + Len(copy)
          /\ \A j \in 1 .. Len(before) : front[j] = before[j]
      BY <2>1, <2>3, Joined
    <3>2. QED
      BY <1>5, <2>1, <2>3, <3>1
  <2> HIDE DEF front
  <2>7. fills = front \o behind
    BY <2>4 DEF front
  <2>5. /\ fills \in Seq(FillRecord) /\ Len(fills) = Len(front) + Len(behind)
        /\ \A j \in 1 .. Len(front) : fills[j] = front[j]
        /\ \A j \in 1 .. Len(behind) : fills[Len(front) + j] = behind[j]
    <3>1. /\ front \o behind \in Seq(FillRecord)
          /\ Len(front \o behind) = Len(front) + Len(behind)
          /\ \A j \in 1 .. Len(front) : (front \o behind)[j] = front[j]
          /\ \A j \in 1 .. Len(behind) : (front \o behind)[Len(front) + j] = behind[j]
      <4>1. front \in Seq(FillRecord) /\ behind \in Seq(FillRecord)
        BY <2>2, <2>6
      <4>2. QED
        BY <4>1, Joined
    <3>2. QED
      BY <2>7, <3>1, Zenon
  <2>8. DOMAIN fills = 1 .. m + 1
    BY <1>5, <2>2, <2>5, <2>6
  <2>9. CASE i < k
    <3>1. i \in 1 .. k - 1 /\ i \in 1 .. k
      BY <1>5, <2>9
    <3>3. fills[i] = p.fills[i]
      BY <2>5, <2>6, <3>1
    <3>2. QED
      BY <1>4, <1>5, <2>8, <3>3
  <2>10. CASE ~(i < k)
    <3> DEFINE j == i - k + 1
    <3>1. j \in 1 .. m - k + 1 /\ k + j = i + 1 /\ k + j - 1 = i
      BY <1>5, <2>10
    <3> HIDE DEF j
    <3>2. fills[k + j] = behind[j] /\ behind[j] = p.fills[k + j - 1]
      BY <2>2, <2>5, <2>6, <3>1
    <3>3. fills[i + 1] = p.fills[i] /\ i + 1 \in 1 .. m + 1
      BY <1>5, <3>1, <3>2
    <3>4. QED
      BY <1>4, <2>8, <3>3
  <2>11. QED
    BY <2>9, <2>10
<1>9. QED
  BY <1>6, <1>7, <1>8 DEF Changed

(* "PnL is derived, never trusted" (UPTM-002, section 4): for any run, and *)
(* whichever one number, lost fill or doubled fill a report is changed by, *)
(* the profit and the position that pass PL-A1 to PL-M2 are those earned,  *)
(* within the tolerance, and held, or are not numbers; and every fill had  *)
(* passed the gate.                                                        *)
THEOREM APassIsTrue == FabricationSpec => []PassMeansTrue
<1>1. ASSUME LedgerInv PROVE PassMeansTrue
  <2> SUFFICES ASSUME Reported, altered <= 1, Signed, Suite({}) = "PASS"
               PROVE  /\ "reported_pnl" \notin pack.nans =>
                           Within(pack.pnl_tolerance, pack.reported_pnl, profit)
                      /\ "position_after" \notin pack.nans => pack.position_after = position
                      /\ ~orphans
    BY DEF PassMeansTrue
  <2>1. /\ stage = "reported" /\ altered \in {0, 1} /\ position \in Int /\ profit \in Int
        /\ orphans \in BOOLEAN /\ worst_verdict(detect_fabricated_pnl(pack, {})) = "PASS"
    BY <1>1 DEF LedgerInv, Reported, Suite
  <2>2. CASE altered = 0
    <3>1. Accounts(pack, position, profit, orphans) /\ Tells(pack, position, profit)
      BY <1>1, <2>1, <2>2 DEF LedgerInv
    <3>2. QED
      BY <2>1, <3>1, PassedChecks, ExactIsWithin DEF Accounts, Tells, Signed, LedgerPack
  <2>3. CASE altered = 1
    <3>1. PICK p : /\ Accounts(p, position, profit, orphans) /\ Tells(p, position, profit)
                   /\ OneChange(p, pack)
      BY <1>1, <2>1, <2>3 DEF LedgerInv
    <3>2. p.quantity_convention = "signed_long_positive"
      BY <3>1, ChangeKeepsConvention DEF Accounts, Signed
    <3>3. CASE \E d \in {-3, -1, 1}, f \in Figures : pack = [p EXCEPT ![f] = @ + d]
      <4>1. PICK d \in {-3, -1, 1}, f \in Figures : pack = Bumped(p, f, d)
        BY <3>3 DEF Bumped
      <4>2. d \in Int
        BY <4>1
      <4>3. QED
        BY <2>1, <3>1, <3>2, <4>1, <4>2, FigureChanged
    <3>4. CASE \E i \in DOMAIN p.fills : \E fills \in Changed(p.fills, i) :
                 pack = [p EXCEPT !.fills = fills]
      <4>1. PICK i \in DOMAIN p.fills : \E fills \in Changed(p.fills, i) :
                 pack = [p EXCEPT !.fills = fills]
        BY <3>4
      <4>2. PICK fills \in Changed(p.fills, i) : pack = [p EXCEPT !.fills = fills]
        BY <4>1
      <4>3. QED
        BY <2>1, <3>1, <3>2, <4>2, FillsChanged
    <3>5. CASE \E f \in Figures : pack = [p EXCEPT !.nans = @ \cup {f}]
      <4>1. /\ pack.reported_pnl = p.reported_pnl /\ pack.position_after = p.position_after
            /\ pack.pnl_tolerance = p.pnl_tolerance /\ pack.fills = p.fills /\ p \in LedgerPack
        BY <3>1, <3>5 DEF Accounts, LedgerPack
      <4>2. Within(pack.pnl_tolerance, pack.reported_pnl, profit) /\ pack.position_after = position
        BY <2>1, <3>1, <4>1, ExactIsWithin DEF Tells
      <4>3. ~orphans
        BY <2>1, <3>1, <4>1, PassedChecks DEF Accounts, Signed
      <4>4. QED
        BY <4>2, <4>3
    <3>6. QED
      BY <3>1, <3>3, <3>4, <3>5 DEF OneChange
  <2>4. QED
    BY <2>1, <2>2, <2>3
<1>2. QED
  BY <1>1, LedgerIsKept, PTL

-----------------------------------------------------------------------------
(* Swings                                                                  *)

(* What the loop of detect holds after each of its candidates.             *)
LEMMA Candidates ==
  ASSUME NEW b, NEW d, Len(b) \in Nat
  PROVE  \E found : /\ found[0] = <<>>
                    /\ \A n \in 1 .. 2 * Len(b) : found[n] = Consider(b, d, found[n - 1], n)
                    /\ detect(b, d) = found[2 * Len(b)]
<1> DEFINE m == 2 * Len(b)
           found[n \in 0 .. m] == IF n = 0 THEN <<>> ELSE Consider(b, d, found[n - 1], n)
           Upto(k, f) == f = [n \in 0 .. k |-> IF n = 0 THEN <<>> ELSE Consider(b, d, f[n - 1], n)]
<1>1. m \in Nat
  OBVIOUS
<1>2. \E f : Upto(m, f)
  <2> HIDE DEF m
  <2> DEFINE T == {k \in Nat : \E f : Upto(k, f)}
  <2>1. 0 \in T
    <3>1. Upto(0, [n \in 0 .. 0 |-> <<>>])
      OBVIOUS
    <3>2. QED
      BY <3>1
  <2>2. ASSUME NEW k \in Nat, k \in T PROVE k + 1 \in T
    <3>1. PICK f : Upto(k, f)
      BY <2>2
    <3> DEFINE g == [n \in 0 .. k + 1 |-> IF n = k + 1 THEN Consider(b, d, f[k], k + 1) ELSE f[n]]
    <3>2. Upto(k + 1, g)
      BY <3>1
    <3> HIDE DEF g, Upto
    <3>3. QED
      BY <3>2
  <2> HIDE DEF T
  <2>3. m \in T
    BY <1>1, <2>1, <2>2, Counting
  <2>4. QED
    BY <2>3 DEF T
<1>3. Upto(m, found)
  BY <1>2
<1>4. detect(b, d) = found[m]
  BY DEF detect
<1> HIDE DEF found
<1>5. found[0] = <<>> /\ \A n \in 1 .. m : found[n] = Consider(b, d, found[n - 1], n)
  <2> HIDE DEF m
  <2>1. QED
    BY <1>1, <1>3
<1>6. QED
  BY <1>4, <1>5

(* A candidate adds at most one swing, of the bar it is about, and only    *)
(* where enough bars lie on both sides.                                    *)
SwingsOf(b, d) == {SwingAt(b, d, i, kind) : i \in 1 .. Len(b), kind \in Kinds}

IndexOf(n) == (n + 1) \div 2

LEMMA OneCandidate ==
  ASSUME NEW T, NEW b \in Seq(T), NEW d, d.pivot_bars \in Nat \ {0},
         NEW n \in 1 .. 2 * Len(b), NEW found
  PROVE  \/ Consider(b, d, found, n) = found
         \/ /\ IndexOf(n) + d.pivot_bars <= Len(b)
            /\ \E swing \in SwingsOf(b, d) :
                 /\ swing.confirmed_at = IndexOf(n) + d.pivot_bars
                 /\ Consider(b, d, found, n) = Append(found, swing)
<1> DEFINE index == IndexOf(n)
           kind == IF n % 2 = 1 THEN "high" ELSE "low"
<1>1. index \in 1 .. Len(b) /\ kind \in Kinds
  BY DEF IndexOf, Kinds
<1>2. \/ Consider(b, d, found, n) = found
      \/ /\ is_pivot(b, index, d.pivot_bars, kind)
         /\ Consider(b, d, found, n) = Append(found, SwingAt(b, d, index, kind))
  BY Zenon DEF Consider, Accept, IndexOf
<1> HIDE DEF kind, index
<1>3. SwingAt(b, d, index, kind) \in SwingsOf(b, d)
  BY <1>1 DEF SwingsOf
<1>4. SwingAt(b, d, index, kind).confirmed_at = index + d.pivot_bars
  BY DEF SwingAt
<1>5. is_pivot(b, index, d.pivot_bars, kind) => index + d.pivot_bars <= Len(b)
  BY DEF is_pivot
<1>6. QED
  BY <1>2, <1>3, <1>4, <1>5 DEF index

(* On a shorter series a candidate that has its bars on both sides is      *)
(* judged the same.                                                        *)
LEMMA SameCandidate ==
  ASSUME NEW T, NEW b \in Seq(T), NEW d, d.pivot_bars \in Nat \ {0}, NEW when \in 0 .. Len(b),
         NEW n \in 1 .. 2 * when, IndexOf(n) + d.pivot_bars <= when, NEW found
  PROVE  Consider(SubSeq(b, 1, when), d, found, n) = Consider(b, d, found, n)
<1> DEFINE p == SubSeq(b, 1, when)
           index == IndexOf(n)
           kind == IF n % 2 = 1 THEN "high" ELSE "low"
<1>1. Len(p) = when /\ \A i \in 1 .. when : p[i] = b[i]
  OBVIOUS
<1>2. index \in 1 .. when /\ Len(b) \in Nat /\ when <= Len(b) /\ index + d.pivot_bars <= when
  BY DEF IndexOf
<1> HIDE DEF p, index, kind
<1>3. is_pivot(p, index, d.pivot_bars, kind) <=> is_pivot(b, index, d.pivot_bars, kind)
  <2>1. CASE index - d.pivot_bars >= 1
    <3>1. \A other \in (index - d.pivot_bars .. index + d.pivot_bars) \ {index} : p[other] = b[other]
      BY <1>1, <1>2, <2>1
    <3>2. p[index] = b[index]
      BY <1>1, <1>2
    <3>3. index + d.pivot_bars <= Len(p) /\ index + d.pivot_bars <= Len(b)
      BY <1>1, <1>2
    <3>4. QED
      BY <3>1, <3>2, <3>3, Zenon DEF is_pivot
  <2>2. CASE ~(index - d.pivot_bars >= 1)
    BY <2>2 DEF is_pivot
  <2>3. QED
    BY <2>1, <2>2
<1>4. p[index] = b[index]
  BY <1>1, <1>2
<1>5. Consider(p, d, found, n) = Consider(b, d, found, n)
  BY <1>3, <1>4, Zenon DEF Consider, SwingAt, Accept, index, kind, IndexOf
<1>6. QED
  BY <1>5 DEF p
(* Two lists of swings: the second is the part of the first that is known  *)
(* by a moment, the rest is known later, and by the last bar.              *)
Parted(S, x, y, when, last) ==
  /\ x \in Seq(S) /\ y \in Seq(S) /\ Len(y) <= Len(x)
  /\ \A i \in 1 .. Len(y) : y[i] = x[i] /\ x[i].confirmed_at <= when
  /\ \A i \in 1 .. Len(x) : i > Len(y) => ~(x[i].confirmed_at <= when) /\ x[i].confirmed_at <= last

LEMMA OneMore ==
  ASSUME NEW S, NEW x, NEW y, NEW when, NEW last, Parted(S, x, y, when, last),
         NEW swing \in S, ~(swing.confirmed_at <= when), swing.confirmed_at <= last
  PROVE  Parted(S, Append(x, swing), y, when, last)
<1> DEFINE z == Append(x, swing)
<1>1. x \in Seq(S)
  BY DEF Parted
<1>2. z \in Seq(S) /\ Len(z) = Len(x) + 1 /\ z[Len(x) + 1] = swing
      /\ \A i \in 1 .. Len(x) : z[i] = x[i]
  BY <1>1
<1> HIDE DEF z
<1>3. y \in Seq(S) /\ Len(y) <= Len(z)
  BY <1>1, <1>2 DEF Parted
<1>4. ASSUME NEW i \in 1 .. Len(y) PROVE y[i] = z[i] /\ z[i].confirmed_at <= when
  <2>1. i \in 1 .. Len(x)
    BY <1>1 DEF Parted
  <2>2. QED
    BY <1>2, <2>1, Zenon DEF Parted
<1>5. ASSUME NEW i \in 1 .. Len(z), i > Len(y)
      PROVE  ~(z[i].confirmed_at <= when) /\ z[i].confirmed_at <= last
  <2>1. CASE i \in 1 .. Len(x)
    BY <1>2, <1>5, <2>1, Zenon DEF Parted
  <2>2. CASE i \notin 1 .. Len(x)
    <3>1. i = Len(x) + 1
      BY <1>1, <1>2, <2>2
    <3>2. QED
      BY <1>2, <3>1, Zenon
  <2>3. QED
    BY <2>1, <2>2
<1>6. QED
  BY <1>2, <1>3, <1>4, <1>5, Zenon DEF z, Parted

LEMMA BothMore ==
  ASSUME NEW S, NEW x, NEW when \in Int, NEW last, Parted(S, x, x, when, last),
         NEW swing \in S, swing.confirmed_at <= when
  PROVE  Parted(S, Append(x, swing), Append(x, swing), when, last)
<1> DEFINE z == Append(x, swing)
<1>1. x \in Seq(S)
  BY DEF Parted
<1>2. z \in Seq(S) /\ Len(z) = Len(x) + 1 /\ z[Len(x) + 1] = swing
      /\ \A i \in 1 .. Len(x) : z[i] = x[i]
  BY <1>1
<1> HIDE DEF z
<1>3. ASSUME NEW i \in 1 .. Len(z) PROVE z[i].confirmed_at <= when
  <2>1. CASE i \in 1 .. Len(x)
    BY <1>2, <2>1, Zenon DEF Parted
  <2>2. CASE i \notin 1 .. Len(x)
    <3>1. i = Len(x) + 1
      BY <1>1, <1>2, <2>2
    <3>2. QED
      BY <1>2, <3>1, Zenon
  <2>3. QED
    BY <2>1, <2>2
<1>4. Len(z) \in Nat
  BY <1>2
<1>5. Parted(S, z, z, when, last)
  BY <1>2, <1>3, <1>4 DEF Parted
<1>6. QED
  BY <1>5 DEF z

LEMMA CutIsPart ==
  ASSUME NEW T, NEW b \in Seq(T), NEW d, d.pivot_bars \in Nat \ {0}, NEW when \in 0 .. Len(b)
  PROVE  Parted(SwingsOf(b, d), detect(b, d), detect(SubSeq(b, 1, when), d), when, Len(b))
<1> DEFINE p == SubSeq(b, 1, when)
           m == Len(b)
           r == d.pivot_bars
           S == SwingsOf(b, d)
<1>1. p \in Seq(T) /\ Len(p) = when /\ m \in Nat /\ when \in Nat /\ when <= m /\ r \in Nat /\ r >= 1
  OBVIOUS
<1>2. \A swing \in SwingsOf(p, d) : swing \in S
  <2>1. \A i \in 1 .. when : p[i] = b[i] /\ i \in 1 .. m
    BY <1>1
  <2>2. \A i \in 1 .. when, kind \in Kinds : SwingAt(p, d, i, kind) = SwingAt(b, d, i, kind)
    BY <2>1, Zenon DEF SwingAt
  <2> HIDE DEF p
  <2>3. QED
    BY <1>1, <2>1, <2>2 DEF SwingsOf
<1>3. \A swing \in S : swing.confirmed_at \in Int
  BY <1>1 DEF SwingsOf, SwingAt
<1> HIDE DEF p
<1>4. PICK f : /\ f[0] = <<>>
               /\ \A n \in 1 .. 2 * m : f[n] = Consider(b, d, f[n - 1], n)
               /\ detect(b, d) = f[2 * m]
  BY <1>1, Candidates, Zenon
<1>5. PICK g : /\ g[0] = <<>>
               /\ \A n \in 1 .. 2 * when : g[n] = Consider(p, d, g[n - 1], n)
               /\ detect(p, d) = g[2 * when]
  BY <1>1, Candidates, Zenon
<1> DEFINE Cut(n) == IF n <= 2 * when THEN n ELSE 2 * when
           Early(n) == n <= 2 * when /\ IndexOf(n) + r <= when
           Goes(n) == Parted(S, f[n], g[Cut(n)], when, m) /\ (Early(n) => f[n] = g[n])
           K == {n \in Nat : n <= 2 * m => Goes(n)}
<1> HIDE DEF S, m, r
<1>6. 0 \in K
  <2>1. Parted(S, <<>>, <<>>, when, m)
    BY DEF Parted
  <2>2. Cut(0) = 0
    BY <1>1
  <2>3. QED
    BY <1>4, <1>5, <2>1, <2>2
<1>7. ASSUME NEW k \in Nat, k \in K, k + 1 <= 2 * m PROVE Goes(k + 1)
  <2> DEFINE n == k + 1
  <2>1. n \in 1 .. 2 * m /\ n - 1 = k /\ k <= 2 * m
    BY <1>1, <1>7
  <2>2. Goes(k)
    BY <1>7, <2>1
  <2>3. Parted(S, f[k], g[Cut(k)], when, m) /\ (Early(k) => f[k] = g[k])
    BY <2>2
  <2>4. f[n] = Consider(b, d, f[k], n)
    BY <1>4, <2>1
  <2>5. CASE Early(n)
    <3>1. n \in 1 .. 2 * when /\ IndexOf(n) + r <= when /\ Early(k) /\ Cut(k) = k /\ Cut(n) = n
      BY <1>1, <2>1, <2>5 DEF IndexOf
    <3>2. g[n] = Consider(p, d, g[k], n) /\ f[k] = g[k]
      BY <1>5, <2>1, <2>3, <3>1
    <3>3. Consider(p, d, g[k], n) = Consider(b, d, g[k], n)
      BY <1>1, <3>1, SameCandidate DEF p, r
    <3>4. f[n] = g[n]
      BY <2>4, <3>2, <3>3
    <3>5. \/ f[n] = f[k]
          \/ \E swing \in S : /\ swing.confirmed_at = IndexOf(n) + r
                              /\ f[n] = Append(f[k], swing)
      BY <2>1, <2>4, OneCandidate DEF S, r, m
    <3>6. Parted(S, f[k], f[k], when, m)
      BY <2>3, <3>1, <3>2
    <3>7. Parted(S, f[n], f[n], when, m)
      <4>1. CASE f[n] = f[k]
        BY <3>6, <4>1
      <4>2. CASE \E swing \in S : /\ swing.confirmed_at = IndexOf(n) + r
                                  /\ f[n] = Append(f[k], swing)
        <5>1. PICK swing \in S : /\ swing.confirmed_at = IndexOf(n) + r
                                 /\ f[n] = Append(f[k], swing)
          BY <4>2
        <5>2. swing.confirmed_at <= when /\ when \in Int
          BY <1>1, <3>1, <5>1
        <5>3. QED
          BY <3>6, <5>1, <5>2, BothMore
      <4>3. QED
        BY <3>5, <4>1, <4>2
    <3>8. QED
      BY <3>1, <3>4, <3>7
  <2>6. CASE ~Early(n)
    <3>1. ~(IndexOf(n) + r <= when)
      BY <1>1, <2>1, <2>6 DEF IndexOf
    <3>2. g[Cut(n)] = g[Cut(k)]
      <4>1. CASE n <= 2 * when
        <5>1. n \in 1 .. 2 * when /\ Cut(n) = n /\ Cut(k) = k
          BY <1>1, <2>1, <4>1
        <5>2. g[n] = Consider(p, d, g[k], n)
          BY <1>5, <2>1, <5>1
        <5>3. n \in 1 .. 2 * Len(p) /\ p \in Seq(T) /\ ~(IndexOf(n) + d.pivot_bars <= Len(p))
          BY <1>1, <3>1, <5>1 DEF r
        <5>4. Consider(p, d, g[k], n) = g[k]
          BY <5>3, OneCandidate
        <5>5. QED
          BY <5>1, <5>2, <5>4
      <4>2. CASE ~(n <= 2 * when)
        <5>1. Cut(n) = 2 * when /\ Cut(k) = 2 * when
          BY <1>1, <2>1, <4>2
        <5>2. QED
          BY <5>1
      <4>3. QED
        BY <4>1, <4>2
    <3>3. \/ f[n] = f[k]
          \/ /\ IndexOf(n) + r <= m
             /\ \E swing \in S : /\ swing.confirmed_at = IndexOf(n) + r
                                 /\ f[n] = Append(f[k], swing)
      BY <2>1, <2>4, OneCandidate DEF S, r, m
    <3>4. Parted(S, f[n], g[Cut(k)], when, m)
      <4>1. CASE f[n] = f[k]
        BY <2>3, <4>1
      <4>2. CASE f[n] # f[k]
        <5>1. PICK swing \in S : /\ swing.confirmed_at = IndexOf(n) + r
                                 /\ f[n] = Append(f[k], swing)
          BY <3>3, <4>2
        <5>2. ~(swing.confirmed_at <= when) /\ swing.confirmed_at <= m
          BY <3>1, <3>3, <4>2, <5>1
        <5> HIDE DEF Cut
        <5>3. QED
          BY <2>3, <5>1, <5>2, OneMore
      <4>3. QED
        BY <4>1, <4>2
    <3>5. QED
      BY <2>6, <3>2, <3>4
  <2>7. QED
    BY <2>5, <2>6
<1>8. ASSUME NEW k \in Nat, k \in K PROVE k + 1 \in K
  BY <1>7, <1>8
<1> HIDE DEF K
<1>9. 2 * m \in K
  <2>1. Nat \subseteq K
    BY <1>6, <1>8, Counting
  <2>2. QED
    BY <1>1, <2>1
<1>10. Parted(S, f[2 * m], g[Cut(2 * m)], when, m)
  BY <1>9 DEF K
<1>11. Cut(2 * m) = 2 * when
  BY <1>1
<1>12. QED
  BY <1>4, <1>5, <1>10, <1>11 DEF S, m, p

(* One swing more of the list, if it is known by then.                     *)
Hears(found, when, n, known) ==
  IF found[n].confirmed_at <= when THEN Append(known, found[n]) ELSE known

LEMMA Known ==
  ASSUME NEW S, NEW found \in Seq(S), NEW when
  PROVE  \E known : /\ known[0] = <<>>
                    /\ \A n \in 1 .. Len(found) : known[n] = Hears(found, when, n, known[n - 1])
                    /\ known_at(found, when) = known[Len(found)]
<1> DEFINE m == Len(found)
           known[n \in 0 .. m] ==
             IF n = 0 THEN <<>> ELSE Hears(found, when, n, known[n - 1])
           Upto(k, f) == f = [n \in 0 .. k |->
             IF n = 0 THEN <<>> ELSE Hears(found, when, n, f[n - 1])]
<1>1. m \in Nat
  OBVIOUS
<1>2. \E f : Upto(m, f)
  <2> HIDE DEF m
  <2> DEFINE T == {k \in Nat : \E f : Upto(k, f)}
  <2>1. 0 \in T
    <3>1. Upto(0, [n \in 0 .. 0 |-> <<>>])
      OBVIOUS
    <3>2. QED
      BY <3>1
  <2>2. ASSUME NEW k \in Nat, k \in T PROVE k + 1 \in T
    <3>1. PICK f : Upto(k, f)
      BY <2>2
    <3> DEFINE g == [n \in 0 .. k + 1 |-> IF n = k + 1 THEN Hears(found, when, k + 1, f[k]) ELSE f[n]]
    <3>2. Upto(k + 1, g)
      BY <3>1
    <3> HIDE DEF g, Upto
    <3>3. QED
      BY <3>2
  <2> HIDE DEF T
  <2>3. m \in T
    BY <1>1, <2>1, <2>2, Counting
  <2>4. QED
    BY <2>3 DEF T
<1>3. Upto(m, known)
  BY <1>2
<1>4. known_at(found, when) = known[m]
  BY DEF known_at, Hears
<1> HIDE DEF known
<1>5. /\ known[0] = <<>>
      /\ \A n \in 1 .. m : known[n] = Hears(found, when, n, known[n - 1])
  <2> HIDE DEF m
  <2>1. QED
    BY <1>1, <1>3
<1>6. QED
  BY <1>4, <1>5

(* What is known by a moment is that part.                                 *)
LEMMA KnownIsPart ==
  ASSUME NEW S, NEW x, NEW y, NEW when, NEW last, Parted(S, x, y, when, last)
  PROVE  known_at(x, when) = y
<1>1. x \in Seq(S) /\ y \in Seq(S) /\ Len(x) \in Nat /\ Len(y) \in Nat /\ Len(y) <= Len(x)
  BY DEF Parted
<1>2. PICK known : /\ known[0] = <<>>
                   /\ \A n \in 1 .. Len(x) : known[n] = Hears(x, when, n, known[n - 1])
                   /\ known_at(x, when) = known[Len(x)]
  BY <1>1, Known
<1> DEFINE So(n) == IF n <= Len(y) THEN SubSeq(y, 1, n) ELSE y
           K == {n \in Nat : n <= Len(x) => known[n] = So(n)}
<1>3. 0 \in K
  <2>1. SubSeq(y, 1, 0) = <<>> /\ 0 <= Len(y)
    BY <1>1
  <2>2. QED
    BY <1>2, <2>1
<1>4. ASSUME NEW k \in Nat, k \in K, k + 1 <= Len(x) PROVE known[k + 1] = So(k + 1)
  <2>1. k + 1 \in 1 .. Len(x) /\ (k + 1) - 1 = k /\ known[k] = So(k)
    BY <1>1, <1>4
  <2>2. CASE k + 1 <= Len(y)
    <3>1. k + 1 \in 1 .. Len(y) /\ k <= Len(y)
      BY <1>1, <2>2
    <3>2. x[k + 1] = y[k + 1] /\ x[k + 1].confirmed_at <= when
      BY <3>1 DEF Parted
    <3>3. known[k + 1] = Append(SubSeq(y, 1, k), y[k + 1])
      BY <1>2, <2>1, <3>1, <3>2 DEF Hears
    <3>4. Append(SubSeq(y, 1, k), y[k + 1]) = SubSeq(y, 1, k + 1)
      BY <1>1, <3>1
    <3>5. QED
      BY <2>2, <3>3, <3>4
  <2>3. CASE ~(k + 1 <= Len(y))
    <3>1. k + 1 > Len(y)
      BY <1>1, <2>3
    <3>2. ~(x[k + 1].confirmed_at <= when)
      BY <2>1, <3>1 DEF Parted
    <3>3. known[k + 1] = known[k]
      BY <1>2, <2>1, <3>2 DEF Hears
    <3>4. So(k) = y
      BY <1>1, <3>1
    <3>5. QED
      BY <2>1, <2>3, <3>3, <3>4
  <2>4. QED
    BY <2>2, <2>3
<1>5. ASSUME NEW k \in Nat, k \in K PROVE k + 1 \in K
  BY <1>4, <1>5
<1> HIDE DEF K
<1>6. Len(x) \in K
  <2>1. Nat \subseteq K
    BY <1>3, <1>5, Counting
  <2>2. QED
    BY <1>1, <2>1
<1>7. known[Len(x)] = So(Len(x))
  BY <1>6 DEF K
<1>8. So(Len(x)) = y
  BY <1>1
<1>9. QED
  BY <1>2, <1>7, <1>8

-----------------------------------------------------------------------------
(* The continuous series                                                   *)

Contracts == Range(Ordered)
Histories == [Contracts -> [Moments -> Prices]]
Segments == [contract : Contracts, starts_at : Moments]

(* What a price is, as a fraction: positive under a ratio, and a whole     *)
(* number under the other joins.                                           *)
PriceOf(adj) ==
  IF adj = "ratio_back_adjusted" THEN [num : Nat \ {0}, den : Nat \ {0}]
  ELSE [num : Int, den : {1}]

(* A roll as forward and as back adjustment apply it to the bar n.         *)
Forwarded(ser, sch, rolls, n, k, p) ==
  IF k \notin rolls \/ n - 1 < sch[k].starts_at THEN p
  ELSE Shift(p, Seam(ser, sch, sch[k]).old - Seam(ser, sch, sch[k]).new)

Reached(ser, sch, adj, rolls, n, k, p) ==
  IF k \notin rolls \/ n - 1 >= sch[k].starts_at THEN p
  ELSE IF adj = "back_adjusted"
    THEN Shift(p, Seam(ser, sch, sch[k]).new - Seam(ser, sch, sch[k]).old)
  ELSE Scale(p, Seam(ser, sch, sch[k]).new, Seam(ser, sch, sch[k]).old)

(* What a bar is after each roll of the schedule.                          *)
ForwardsTo(bar, ser, sch, bars0, rolls, n) ==
  /\ bar[0] = bars0[n]
  /\ \A k \in 1 .. Len(sch) : bar[k] = Forwarded(ser, sch, rolls, n, k, bar[k - 1])
  /\ Forward(ser, sch, bars0, rolls)[n] = bar[Len(sch)]

BacksTo(bar, ser, sch, adj, bars0, rolls, n) ==
  /\ bar[0] = bars0[n]
  /\ \A k \in 1 .. Len(sch) : bar[k] = Reached(ser, sch, adj, rolls, n, k, bar[k - 1])
  /\ Back(ser, sch, adj, bars0, rolls)[n] = bar[Len(sch)]

LEMMA ForwardChain ==
  ASSUME NEW ser, NEW sch, NEW bars0, NEW rolls, NEW n \in DOMAIN bars0, Len(sch) \in Nat
  PROVE  \E bar : ForwardsTo(bar, ser, sch, bars0, rolls, n)
<1> DEFINE m == Len(sch)
           bar[k \in 0 .. m] ==
             IF k = 0 THEN bars0[n]
             ELSE IF k \notin rolls \/ n - 1 < sch[k].starts_at THEN bar[k - 1]
             ELSE LET seam == Seam(ser, sch, sch[k]) IN Shift(bar[k - 1], seam.old - seam.new)
           Upto(j, f) == f = [k \in 0 .. j |->
             IF k = 0 THEN bars0[n] ELSE Forwarded(ser, sch, rolls, n, k, f[k - 1])]
<1>1. \E f : Upto(m, f)
  <2> HIDE DEF m
  <2> DEFINE T == {k \in Nat : \E f : Upto(k, f)}
  <2>1. 0 \in T
    <3>1. Upto(0, [k \in 0 .. 0 |-> bars0[n]])
      OBVIOUS
    <3>2. QED
      BY <3>1
  <2>2. ASSUME NEW j \in Nat, j \in T PROVE j + 1 \in T
    <3>1. PICK f : Upto(j, f)
      BY <2>2
    <3> DEFINE g == [k \in 0 .. j + 1 |->
                      IF k = j + 1 THEN Forwarded(ser, sch, rolls, n, j + 1, f[j]) ELSE f[k]]
    <3>2. Upto(j + 1, g)
      BY <3>1
    <3> HIDE DEF g, Upto
    <3>3. QED
      BY <3>2
  <2> HIDE DEF T
  <2>3. m \in T
    BY <2>1, <2>2, Counting DEF m
  <2>4. QED
    BY <2>3 DEF T
<1>2. Upto(m, bar)
  BY <1>1, Zenon DEF Forwarded
<1>3. Forward(ser, sch, bars0, rolls)[n] = bar[m]
  BY DEF Forward
<1> HIDE DEF bar
<1>4. /\ bar[0] = bars0[n]
      /\ \A k \in 1 .. m : bar[k] = Forwarded(ser, sch, rolls, n, k, bar[k - 1])
  <2>1. m \in Nat
    OBVIOUS
  <2> HIDE DEF m
  <2>2. QED
    BY <1>2, <2>1
<1>5. ForwardsTo(bar, ser, sch, bars0, rolls, n)
  BY <1>3, <1>4, Zenon DEF ForwardsTo
<1>6. QED
  BY <1>5

LEMMA BackChain ==
  ASSUME NEW ser, NEW sch, NEW adj, NEW bars0, NEW rolls, NEW n \in DOMAIN bars0, Len(sch) \in Nat
  PROVE  \E bar : BacksTo(bar, ser, sch, adj, bars0, rolls, n)
<1> DEFINE m == Len(sch)
           bar[k \in 0 .. m] ==
             IF k = 0 THEN bars0[n]
             ELSE IF k \notin rolls \/ n - 1 >= sch[k].starts_at THEN bar[k - 1]
             ELSE LET seam == Seam(ser, sch, sch[k])
                  IN  IF adj = "back_adjusted" THEN Shift(bar[k - 1], seam.new - seam.old)
                      ELSE Scale(bar[k - 1], seam.new, seam.old)
           Upto(j, f) == f = [k \in 0 .. j |->
             IF k = 0 THEN bars0[n] ELSE Reached(ser, sch, adj, rolls, n, k, f[k - 1])]
<1>1. \E f : Upto(m, f)
  <2> HIDE DEF m
  <2> DEFINE T == {k \in Nat : \E f : Upto(k, f)}
  <2>1. 0 \in T
    <3>1. Upto(0, [k \in 0 .. 0 |-> bars0[n]])
      OBVIOUS
    <3>2. QED
      BY <3>1
  <2>2. ASSUME NEW j \in Nat, j \in T PROVE j + 1 \in T
    <3>1. PICK f : Upto(j, f)
      BY <2>2
    <3> DEFINE g == [k \in 0 .. j + 1 |->
                      IF k = j + 1 THEN Reached(ser, sch, adj, rolls, n, j + 1, f[j]) ELSE f[k]]
    <3>2. Upto(j + 1, g)
      BY <3>1
    <3> HIDE DEF g, Upto
    <3>3. QED
      BY <3>2
  <2> HIDE DEF T
  <2>3. m \in T
    BY <2>1, <2>2, Counting DEF m
  <2>4. QED
    BY <2>3 DEF T
<1>2. Upto(m, bar)
  BY <1>1, Zenon DEF Reached
<1>3. Back(ser, sch, adj, bars0, rolls)[n] = bar[m]
  BY DEF Back
<1> HIDE DEF bar
<1>4. /\ bar[0] = bars0[n]
      /\ \A k \in 1 .. m : bar[k] = Reached(ser, sch, adj, rolls, n, k, bar[k - 1])
  <2>1. m \in Nat
    OBVIOUS
  <2> HIDE DEF m
  <2>2. QED
    BY <1>2, <2>1
<1>5. BacksTo(bar, ser, sch, adj, bars0, rolls, n)
  BY <1>3, <1>4, Zenon DEF BacksTo
<1>6. QED
  BY <1>5

(* The greatest of a bounded set of numbers.                               *)
LEMMA Greatest ==
  ASSUME NEW m \in Nat, NEW T, T \subseteq 1 .. m, T # {}
  PROVE  \E x \in T : \A k \in T : k <= x
<1>1. PICK y \in {m - k : k \in T} : \A z \in {m - k : k \in T} : y <= z
  <2>1. {m - k : k \in T} \subseteq Nat
    <3>1. \A k \in T : m - k \in Nat
      OBVIOUS
    <3>2. QED
      BY <3>1
  <2>3. {m - k : k \in T} # {}
    OBVIOUS
  <2>2. QED
    BY <2>1, <2>3, Least
<1>2. PICK x \in T : y = m - x
  BY <1>1
<1>3. ASSUME NEW k \in T PROVE k <= x
  <2>1. m - x <= m - k /\ k \in 1 .. m /\ x \in 1 .. m
    BY <1>1, <1>2
  <2>2. QED
    BY <2>1
<1>4. QED
  BY <1>3

LEMMA FrontIsAContract ==
  ASSUME NEW sch \in Seq(Segments), Len(sch) >= 1, NEW index
  PROVE  front_contract(sch, index) \in Contracts
<1> DEFINE started == {n \in 2 .. Len(sch) : \A k \in 2 .. n : sch[k].starts_at <= index}
<1>1. Len(sch) \in Nat /\ \A n \in 1 .. Len(sch) : sch[n].contract \in Contracts
  <2>1. Len(sch) \in Nat /\ \A n \in 1 .. Len(sch) : sch[n] \in Segments
    OBVIOUS
  <2>2. QED
    BY <2>1 DEF Segments
<1>2. \E n \in started \cup {1} : \A k \in started : k <= n
  <2>1. CASE started = {}
    BY <2>1
  <2>2. CASE started # {}
    <3>1. started \subseteq 1 .. Len(sch)
      BY <1>1
    <3> HIDE DEF started
    <3>2. QED
      BY <1>1, <2>2, <3>1, Greatest
  <2>3. QED
    BY <2>1, <2>2
<1>3. started \cup {1} \subseteq 1 .. Len(sch)
  BY <1>1
<1>4. front_contract(sch, index) = sch[CHOOSE n \in started \cup {1} : \A k \in started : k <= n].contract
  BY DEF front_contract
<1> HIDE DEF started
<1>5. (CHOOSE n \in started \cup {1} : \A k \in started : k <= n) \in 1 .. Len(sch)
  BY <1>2, <1>3
<1>6. QED
  BY <1>1, <1>4, <1>5
LEMMA SeamsAreWhole ==
  ASSUME NEW ser \in Histories, NEW sch \in Seq(Segments), Len(sch) >= 1, NEW k \in 1 .. Len(sch)
  PROVE  LET seam == Seam(ser, sch, sch[k]) IN seam.old \in Nat \ {0} /\ seam.new \in Nat \ {0}
<1> DEFINE at == sch[k].starts_at
           c == front_contract(sch, at - 1)
<1>1. sch[k] \in Segments
  OBVIOUS
<1>2. at \in Moments /\ sch[k].contract \in Contracts /\ c \in Contracts
  BY <1>1, FrontIsAContract DEF Segments
<1>3. ser[c][at] \in Prices /\ ser[sch[k].contract][at] \in Prices
  BY <1>2 DEF Histories
<1>4. Prices \subseteq Nat \ {0}
  BY RollAssumption
<1>5. Seam(ser, sch, sch[k]).old = ser[c][at] /\ Seam(ser, sch, sch[k]).new = ser[sch[k].contract][at]
  BY DEF Seam
<1>6. QED
  BY <1>3, <1>4, <1>5

LEMMA StepsKeepPrices ==
  ASSUME NEW ser \in Histories, NEW sch \in Seq(Segments), Len(sch) >= 1, NEW k \in 1 .. Len(sch),
         NEW rolls, NEW n, NEW adj, NEW p \in PriceOf(adj)
  PROVE  /\ adj = "forward_adjusted" => Forwarded(ser, sch, rolls, n, k, p) \in PriceOf(adj)
         /\ adj \in {"back_adjusted", "ratio_back_adjusted"} =>
              Reached(ser, sch, adj, rolls, n, k, p) \in PriceOf(adj)
<1> DEFINE old == Seam(ser, sch, sch[k]).old
           new == Seam(ser, sch, sch[k]).new
<1>1. old \in Nat \ {0} /\ new \in Nat \ {0}
  BY SeamsAreWhole
<1> HIDE DEF old, new
<1>2. adj # "ratio_back_adjusted" => \A o \in Int : Shift(p, o) \in PriceOf(adj)
  BY DEF PriceOf, Shift
<1>3. adj = "ratio_back_adjusted" => Scale(p, new, old) \in PriceOf(adj)
  <2>1. \A x, y \in Nat \ {0} : x * y \in Nat \ {0}
    OBVIOUS
  <2>2. QED
    BY <1>1, <2>1 DEF PriceOf, Scale
<1>4. old - new \in Int /\ new - old \in Int
  BY <1>1
<1>5. adj = "forward_adjusted" => Forwarded(ser, sch, rolls, n, k, p) \in PriceOf(adj)
  BY <1>2, <1>4 DEF Forwarded, old, new
<1>6. adj \in {"back_adjusted", "ratio_back_adjusted"} =>
        Reached(ser, sch, adj, rolls, n, k, p) \in PriceOf(adj)
  BY <1>2, <1>3, <1>4 DEF Reached, old, new
<1>7. QED
  BY <1>5, <1>6

LEMMA RawBars ==
  ASSUME NEW ser \in Histories, NEW sch \in Seq(Segments), Len(sch) >= 1, NEW until \in Moments,
         NEW adj
  PROVE  /\ DOMAIN Raw(ser, sch, until) = 1 .. until + 1
         /\ Raw(ser, sch, until) \in Seq(PriceOf(adj))
         /\ Len(Raw(ser, sch, until)) = until + 1
         /\ \A n \in 1 .. until + 1 :
              /\ Raw(ser, sch, until)[n] \in PriceOf(adj)
              /\ Raw(ser, sch, until)[n] = [num |-> ser[front_contract(sch, n - 1)][n - 1], den |-> 1]
<1>1. \A n \in 1 .. until + 1 : n - 1 \in Moments
  BY RollAssumption DEF Moments
<1>2. \A n \in 1 .. until + 1 : ser[front_contract(sch, n - 1)][n - 1] \in Prices
  BY <1>1, FrontIsAContract DEF Histories
<1>3. Prices \subseteq Nat \ {0} /\ until + 1 \in Nat
  BY RollAssumption DEF Moments
<1>4. ASSUME NEW v \in Nat \ {0} PROVE [num |-> v, den |-> 1] \in PriceOf(adj)
  <2>1. [num |-> v, den |-> 1] \in [num : Nat \ {0}, den : Nat \ {0}]
    OBVIOUS
  <2>2. [num |-> v, den |-> 1] \in [num : Int, den : {1}]
    OBVIOUS
  <2>3. QED
    BY <2>1, <2>2, Zenon DEF PriceOf
<1>5. /\ Raw(ser, sch, until) =
           [n \in 1 .. until + 1 |-> [num |-> ser[front_contract(sch, n - 1)][n - 1], den |-> 1]]
      /\ \A n \in 1 .. until + 1 :
           [num |-> ser[front_contract(sch, n - 1)][n - 1], den |-> 1] \in PriceOf(adj)
  BY <1>2, <1>3, <1>4 DEF Raw
<1>6. /\ DOMAIN Raw(ser, sch, until) = 1 .. until + 1
      /\ \A n \in 1 .. until + 1 :
           /\ Raw(ser, sch, until)[n] \in PriceOf(adj)
           /\ Raw(ser, sch, until)[n] = [num |-> ser[front_contract(sch, n - 1)][n - 1], den |-> 1]
  BY <1>5, Zenon
<1>7. Raw(ser, sch, until) = [n \in 1 .. until + 1 |-> Raw(ser, sch, until)[n]]
  BY <1>5, Zenon
<1>8. Raw(ser, sch, until) \in Seq(PriceOf(adj)) /\ Len(Raw(ser, sch, until)) = until + 1
  BY <1>3, <1>6, <1>7
<1>9. QED
  BY <1>6, <1>8, Zenon

(* The series of a moment has a price for every bar up to it.              *)
LEMMA BuiltBars ==
  ASSUME NEW ser \in Histories, NEW sch \in Seq(Segments), Len(sch) >= 1, NEW until \in Moments,
         NEW adj \in Adjustments
  PROVE  /\ build_continuous(ser, sch, adj, until) \in Seq(PriceOf(adj))
         /\ Len(build_continuous(ser, sch, adj, until)) = until + 1
<1> DEFINE raw == Raw(ser, sch, until)
           rolls == Rolls(sch, until)
           all == build_continuous(ser, sch, adj, until)
<1>1. until + 1 \in Nat /\ Len(sch) \in Nat
  BY RollAssumption DEF Moments
<1>2. DOMAIN raw = 1 .. until + 1 /\ raw \in Seq(PriceOf(adj)) /\ Len(raw) = until + 1
      /\ \A n \in 1 .. until + 1 : raw[n] \in PriceOf(adj)
  BY RawBars
<1>3. CASE adj = "raw_splice"
  <2>1. all = raw
    BY <1>3 DEF build_continuous
  <2> HIDE DEF raw
  <2>2. QED
    BY <1>2, <2>1 DEF all
<1>4. CASE adj = "forward_adjusted"
  <2>1. all = Forward(ser, sch, raw, rolls)
    BY <1>4 DEF build_continuous
  <2>2. DOMAIN all = 1 .. until + 1 /\ all = [n \in 1 .. until + 1 |-> all[n]]
    BY <1>2, <2>1 DEF Forward
  <2>3. ASSUME NEW n \in 1 .. until + 1 PROVE all[n] \in PriceOf(adj)
    <3> HIDE DEF raw, rolls
    <3>0. n \in DOMAIN raw
      BY <1>2
    <3>1. PICK bar : ForwardsTo(bar, ser, sch, raw, rolls, n)
      BY <1>1, <3>0, ForwardChain
    <3>1a. /\ bar[0] = raw[n]
           /\ \A k \in 1 .. Len(sch) : bar[k] = Forwarded(ser, sch, rolls, n, k, bar[k - 1])
           /\ Forward(ser, sch, raw, rolls)[n] = bar[Len(sch)]
      BY <3>1, Zenon DEF ForwardsTo
    <3> DEFINE K == {k \in Nat : k <= Len(sch) => bar[k] \in PriceOf(adj)}
    <3>2. 0 \in K
      BY <1>2, <3>1a
    <3>3. ASSUME NEW k \in Nat, k \in K PROVE k + 1 \in K
      <4>1. CASE k + 1 <= Len(sch)
        <5>1. k + 1 \in 1 .. Len(sch) /\ (k + 1) - 1 = k /\ bar[k] \in PriceOf(adj)
          BY <1>1, <3>3, <4>1
        <5>2. bar[k + 1] = Forwarded(ser, sch, rolls, n, k + 1, bar[k])
          BY <3>1a, <5>1
        <5>3. bar[k + 1] \in PriceOf(adj)
          BY <1>4, <5>1, <5>2, StepsKeepPrices
        <5>4. QED
          BY <5>3
      <4>2. QED
        BY <4>1
    <3> HIDE DEF K
    <3>4. Len(sch) \in K
      BY <1>1, <3>2, <3>3, Counting
    <3>5. QED
      BY <2>1, <3>1a, <3>4 DEF K
  <2>4. all \in Seq(PriceOf(adj)) /\ Len(all) = until + 1
    <3> HIDE DEF all
    <3>1. QED
      BY <1>1, <2>2, <2>3
  <2>5. QED
    BY <2>4
<1>5. CASE adj \in {"back_adjusted", "ratio_back_adjusted"}
  <2>1. all = Back(ser, sch, adj, raw, rolls)
    BY <1>5 DEF build_continuous
  <2>2. DOMAIN all = 1 .. until + 1 /\ all = [n \in 1 .. until + 1 |-> all[n]]
    BY <1>2, <2>1 DEF Back
  <2>3. ASSUME NEW n \in 1 .. until + 1 PROVE all[n] \in PriceOf(adj)
    <3> HIDE DEF raw, rolls
    <3>0. n \in DOMAIN raw
      BY <1>2
    <3>1. PICK bar : BacksTo(bar, ser, sch, adj, raw, rolls, n)
      BY <1>1, <3>0, BackChain
    <3>1a. /\ bar[0] = raw[n]
           /\ \A k \in 1 .. Len(sch) : bar[k] = Reached(ser, sch, adj, rolls, n, k, bar[k - 1])
           /\ Back(ser, sch, adj, raw, rolls)[n] = bar[Len(sch)]
      BY <3>1, Zenon DEF BacksTo
    <3> DEFINE K == {k \in Nat : k <= Len(sch) => bar[k] \in PriceOf(adj)}
    <3>2. 0 \in K
      BY <1>2, <3>1a
    <3>3. ASSUME NEW k \in Nat, k \in K PROVE k + 1 \in K
      <4>1. CASE k + 1 <= Len(sch)
        <5>1. k + 1 \in 1 .. Len(sch) /\ (k + 1) - 1 = k /\ bar[k] \in PriceOf(adj)
          BY <1>1, <3>3, <4>1
        <5>2. bar[k + 1] = Reached(ser, sch, adj, rolls, n, k + 1, bar[k])
          BY <3>1a, <5>1
        <5>3. bar[k + 1] \in PriceOf(adj)
          BY <1>5, <5>1, <5>2, StepsKeepPrices
        <5>4. QED
          BY <5>3
      <4>2. QED
        BY <4>1
    <3> HIDE DEF K
    <3>4. Len(sch) \in K
      BY <1>1, <3>2, <3>3, Counting
    <3>5. QED
      BY <2>1, <3>1a, <3>4 DEF K
  <2>4. all \in Seq(PriceOf(adj)) /\ Len(all) = until + 1
    <3> HIDE DEF all
    <3>1. QED
      BY <1>1, <2>2, <2>3
  <2>5. QED
    BY <2>4
<1>6. QED
  BY <1>3, <1>4, <1>5 DEF Adjustments

(* A raw splice and a forward adjustment give a bar the same price at every*)
(* moment after it.                                                        *)
LEMMA SameBars ==
  ASSUME NEW ser \in Histories, NEW sch \in Seq(Segments), Len(sch) >= 1,
         NEW adj \in {"raw_splice", "forward_adjusted"},
         NEW u \in Moments, NEW v \in Moments, u <= v, NEW n \in 1 .. u + 1
  PROVE  build_continuous(ser, sch, adj, u)[n] = build_continuous(ser, sch, adj, v)[n]
<1>1. n \in 1 .. v + 1 /\ Len(sch) \in Nat /\ n - 1 <= u /\ n - 1 <= v /\ n - 1 \in Int
      /\ u \in Int /\ v \in Int
  BY RollAssumption DEF Moments
<1>2. /\ DOMAIN Raw(ser, sch, u) = 1 .. u + 1 /\ DOMAIN Raw(ser, sch, v) = 1 .. v + 1
      /\ Raw(ser, sch, u)[n] = Raw(ser, sch, v)[n]
  BY <1>1, RawBars
<1>3. CASE adj = "raw_splice"
  BY <1>2, <1>3 DEF build_continuous
<1>4. CASE adj = "forward_adjusted"
  <2> DEFINE raw(w) == Raw(ser, sch, w)
  <2>0. n \in DOMAIN raw(u) /\ n \in DOMAIN raw(v)
    BY <1>1, <1>2
  <2> HIDE DEF raw
  <2>1. PICK f : ForwardsTo(f, ser, sch, raw(u), Rolls(sch, u), n)
    <3>1. n \in DOMAIN raw(u) /\ Len(sch) \in Nat
      BY <1>1, <2>0
    <3>2. QED
      BY <3>1, ForwardChain
  <2>2. PICK g : ForwardsTo(g, ser, sch, raw(v), Rolls(sch, v), n)
    <3>1. n \in DOMAIN raw(v) /\ Len(sch) \in Nat
      BY <1>1, <2>0
    <3>2. QED
      BY <3>1, ForwardChain
  <2>1a. /\ f[0] = raw(u)[n]
         /\ \A k \in 1 .. Len(sch) : f[k] = Forwarded(ser, sch, Rolls(sch, u), n, k, f[k - 1])
         /\ Forward(ser, sch, raw(u), Rolls(sch, u))[n] = f[Len(sch)]
    BY <2>1, Zenon DEF ForwardsTo
  <2>2a. /\ g[0] = raw(v)[n]
         /\ \A k \in 1 .. Len(sch) : g[k] = Forwarded(ser, sch, Rolls(sch, v), n, k, g[k - 1])
         /\ Forward(ser, sch, raw(v), Rolls(sch, v))[n] = g[Len(sch)]
    BY <2>2, Zenon DEF ForwardsTo
  <2>3. ASSUME NEW k \in 1 .. Len(sch), NEW p
        PROVE  Forwarded(ser, sch, Rolls(sch, u), n, k, p) = Forwarded(ser, sch, Rolls(sch, v), n, k, p)
    <3>1. sch[k].starts_at \in Int /\ k \in DOMAIN sch
      <4>1. sch[k] \in Segments /\ k \in DOMAIN sch
        OBVIOUS
      <4>2. QED
        BY <4>1 DEF Segments, Moments
    <3>2. (k \notin Rolls(sch, u) \/ n - 1 < sch[k].starts_at)
             <=> (k \notin Rolls(sch, v) \/ n - 1 < sch[k].starts_at)
      BY <1>1, <3>1 DEF Rolls
    <3>3. QED
      BY <3>2, Zenon DEF Forwarded
  <2> DEFINE K == {k \in Nat : k <= Len(sch) => f[k] = g[k]}
  <2>4. 0 \in K
    BY <1>2, <2>1a, <2>2a DEF raw
  <2>5. ASSUME NEW k \in Nat, k \in K PROVE k + 1 \in K
    <3>1. CASE k + 1 <= Len(sch)
      <4>1. k + 1 \in 1 .. Len(sch) /\ (k + 1) - 1 = k /\ f[k] = g[k]
        BY <1>1, <2>5, <3>1
      <4>2. f[k + 1] = g[k + 1]
        BY <2>1a, <2>2a, <2>3, <4>1
      <4>3. QED
        BY <4>2
    <3>2. QED
      BY <3>1
  <2> HIDE DEF K
  <2>6. Len(sch) \in K
    BY <1>1, <2>4, <2>5, Counting
  <2>7. f[Len(sch)] = g[Len(sch)]
    BY <1>1, <2>6 DEF K
  <2>8. QED
    BY <1>4, <2>1a, <2>2a, <2>7, Zenon DEF build_continuous, raw
<1>5. QED
  BY <1>3, <1>4

(* In a valid schedule the last segment starts last.                       *)
LEMMA LastStartsLast ==
  ASSUME NEW sch \in Seq(Segments), validate(sch), NEW k \in 1 .. Len(sch) - 1
  PROVE  sch[k].starts_at < sch[Len(sch)].starts_at
<1> DEFINE m == Len(sch)
           at(i) == sch[i].starts_at
           K == {j \in Nat : j + 1 <= m - 1 => at(m - (j + 1)) < at(m)}
<1>1. m \in Nat /\ \A i \in 1 .. m : at(i) \in Int
  <2>1. m \in Nat /\ \A i \in 1 .. m : sch[i] \in Segments
    OBVIOUS
  <2>2. QED
    BY <2>1 DEF Segments, Moments
<1>2. \A i \in 2 .. m : at(i - 1) < at(i)
  BY DEF validate
<1> HIDE DEF at
<1>3. 0 \in K
  <2>1. CASE 1 <= m - 1
    <3>1. m \in 2 .. m
      BY <1>1, <2>1
    <3>2. QED
      BY <1>2, <3>1
  <2>2. QED
    BY <2>1
<1>4. ASSUME NEW j \in Nat, j \in K PROVE j + 1 \in K
  <2>1. CASE (j + 1) + 1 <= m - 1
    <3> DEFINE i == m - (j + 1)
    <3>1. i \in 2 .. m /\ i - 1 = m - ((j + 1) + 1) /\ i \in 1 .. m /\ i - 1 \in 1 .. m /\ m \in 1 .. m
      BY <1>1, <2>1
    <3>2. at(i - 1) < at(i) /\ at(i) < at(m)
      <4>1. j + 1 <= m - 1
        BY <1>1, <2>1
      <4>2. QED
        BY <1>2, <1>4, <3>1, <4>1
    <3>3. at(i - 1) \in Int /\ at(i) \in Int /\ at(m) \in Int
      BY <1>1, <3>1
    <3> HIDE DEF i
    <3>4. at(i - 1) < at(m)
      BY <3>2, <3>3
    <3>5. QED
      BY <3>1, <3>4
  <2>2. QED
    BY <2>1
<1> HIDE DEF K
<1>5. m - k - 1 \in K
  <2>1. m - k - 1 \in Nat
    BY <1>1
  <2>2. QED
    BY <1>3, <1>4, <2>1, Counting
<1>6. at(m - ((m - k - 1) + 1)) < at(m)
  BY <1>1, <1>5 DEF K
<1>7. m - ((m - k - 1) + 1) = k
  BY <1>1
<1>8. QED
  BY <1>6, <1>7 DEF at

(* A schedule of one segment joins nothing.                                *)
LEMMA OneSegmentHasNoGap ==
  ASSUME NEW ser, NEW sch, Len(sch) = 1, validate(sch)
  PROVE  ~HasGap(ser, sch, Last(sch))
<1>1. \A index : front_contract(sch, index) = sch[1].contract
  <2> SUFFICES ASSUME NEW index PROVE front_contract(sch, index) = sch[1].contract
    OBVIOUS
  <2> DEFINE started == {n \in 2 .. Len(sch) : \A k \in 2 .. n : sch[k].starts_at <= index}
  <2>1. started = {}
    OBVIOUS
  <2>2. front_contract(sch, index) =
          sch[CHOOSE n \in started \cup {1} : \A k \in started : k <= n].contract
    BY DEF front_contract
  <2> HIDE DEF started
  <2>3. (CHOOSE n \in started \cup {1} : \A k \in started : k <= n) = 1
    BY <2>1
  <2>4. QED
    BY <2>2, <2>3
<1>2. Last(sch) = sch[1]
  BY DEF Last
<1>3. QED
  BY <1>1, <1>2 DEF HasGap, Seam

(* The price of the oldest bar, before and after the last roll, under a    *)
(* join that reaches back.                                                 *)
LEMMA OldestBarMoves ==
  ASSUME NEW ser \in Histories, NEW sch \in Seq(Segments), Len(sch) >= 2, validate(sch),
         NEW adj \in {"back_adjusted", "ratio_back_adjusted"}, NEW L, L = sch[Len(sch)].starts_at
  PROVE  /\ L \in Moments /\ L - 1 \in Moments
         /\ build_continuous(ser, sch, adj, L)[1] =
              Reached(ser, sch, adj, Rolls(sch, L), 1, Len(sch),
                      build_continuous(ser, sch, adj, L - 1)[1])
<1> DEFINE m == Len(sch)
           raw(w) == Raw(ser, sch, w)
<1>1. m \in Nat /\ m - 1 \in Nat /\ \A k \in 1 .. m : sch[k].starts_at \in Moments /\ k \in DOMAIN sch
  <2>1. m \in Nat /\ \A k \in 1 .. m : sch[k] \in Segments /\ k \in DOMAIN sch
    OBVIOUS
  <2>2. QED
    BY <2>1 DEF Segments
<1>2. L \in Moments /\ sch[1].starts_at = 0 /\ sch[1].starts_at < L
  <2>1. L \in Moments
    BY <1>1
  <2>2. sch[1].starts_at = 0
    BY DEF validate
  <2>3. sch[1].starts_at < L
    BY <1>1, LastStartsLast
  <2>4. QED
    BY <2>1, <2>2, <2>3
<1>3. L - 1 \in Moments /\ L \in Int
  BY <1>2, RollAssumption DEF Moments
<1>4. /\ 1 \in DOMAIN raw(L - 1) /\ 1 \in DOMAIN raw(L)
      /\ raw(L - 1)[1] = raw(L)[1]
  <2>1. 1 \in 1 .. (L - 1) + 1 /\ 1 \in 1 .. L + 1
    BY <1>2, <1>3
  <2>2. Len(sch) >= 1
    BY <1>1
  <2>3. /\ DOMAIN raw(L - 1) = 1 .. (L - 1) + 1
        /\ raw(L - 1)[1] = [num |-> ser[front_contract(sch, 1 - 1)][1 - 1], den |-> 1]
    BY <1>3, <2>1, <2>2, RawBars
  <2>4. /\ DOMAIN raw(L) = 1 .. L + 1
        /\ raw(L)[1] = [num |-> ser[front_contract(sch, 1 - 1)][1 - 1], den |-> 1]
    <3>1. L \in Moments /\ 1 \in 1 .. L + 1
      BY <1>2, <2>1
    <3>2. \A w \in Moments : 1 \in 1 .. w + 1 =>
            /\ DOMAIN raw(w) = 1 .. w + 1
            /\ raw(w)[1] = [num |-> ser[front_contract(sch, 1 - 1)][1 - 1], den |-> 1]
      BY <2>2, RawBars
    <3> HIDE DEF raw
    <3>3. QED
      BY <3>1, <3>2, Zenon
  <2> HIDE DEF raw
  <2>5. QED
    BY <2>1, <2>3, <2>4
<1> HIDE DEF raw
<1>0. Len(sch) \in Nat
  BY <1>1
<1>5. PICK f : BacksTo(f, ser, sch, adj, raw(L - 1), Rolls(sch, L - 1), 1)
  <2>1. 1 \in DOMAIN raw(L - 1)
    BY <1>4
  <2>2. QED
    BY <1>0, <2>1, BackChain
<1>6. PICK g : BacksTo(g, ser, sch, adj, raw(L), Rolls(sch, L), 1)
  <2>1. 1 \in DOMAIN raw(L)
    BY <1>4
  <2>2. QED
    BY <1>0, <2>1, BackChain
<1>5a. /\ f[0] = raw(L - 1)[1]
      /\ \A k \in 1 .. m : f[k] = Reached(ser, sch, adj, Rolls(sch, L - 1), 1, k, f[k - 1])
      /\ Back(ser, sch, adj, raw(L - 1), Rolls(sch, L - 1))[1] = f[m]
  BY <1>5, Zenon DEF BacksTo
<1>6a. /\ g[0] = raw(L)[1]
      /\ \A k \in 1 .. m : g[k] = Reached(ser, sch, adj, Rolls(sch, L), 1, k, g[k - 1])
      /\ Back(ser, sch, adj, raw(L), Rolls(sch, L))[1] = g[m]
  BY <1>6, Zenon DEF BacksTo
<1>7. ASSUME NEW k \in 1 .. m - 1, NEW p
      PROVE  Reached(ser, sch, adj, Rolls(sch, L - 1), 1, k, p)
               = Reached(ser, sch, adj, Rolls(sch, L), 1, k, p)
  <2>1. sch[k].starts_at < L /\ sch[k].starts_at \in Moments /\ k \in DOMAIN sch
    BY <1>1, LastStartsLast
  <2>2. k \in Rolls(sch, L - 1) <=> k \in Rolls(sch, L)
    BY <1>3, <2>1 DEF Rolls, Moments
  <2>3. QED
    BY <2>2, Zenon DEF Reached
<1> DEFINE K == {k \in Nat : k <= m - 1 => f[k] = g[k]}
<1>8. 0 \in K
  BY <1>4, <1>5a, <1>6a
<1>9. ASSUME NEW k \in Nat, k \in K PROVE k + 1 \in K
  <2>1. CASE k + 1 <= m - 1
    <3>1. k + 1 \in 1 .. m /\ k + 1 \in 1 .. m - 1 /\ (k + 1) - 1 = k /\ f[k] = g[k]
      BY <1>1, <1>9, <2>1
    <3>2. f[k + 1] = g[k + 1]
      BY <1>5a, <1>6a, <1>7, <3>1
    <3>3. QED
      BY <3>2
  <2>2. QED
    BY <2>1
<1> HIDE DEF K
<1>10. m - 1 \in K
  BY <1>1, <1>8, <1>9, Counting
<1>11. f[m - 1] = g[m - 1]
  BY <1>1, <1>10 DEF K
<1>12. m \in 1 .. m /\ m \notin Rolls(sch, L - 1)
  BY <1>1, <1>2, <1>3 DEF Rolls
<1>13. f[m] = f[m - 1]
  BY <1>5a, <1>12 DEF Reached
<1>14. g[m] = Reached(ser, sch, adj, Rolls(sch, L), 1, m, f[m])
  BY <1>6a, <1>11, <1>12, <1>13
<1>15. /\ build_continuous(ser, sch, adj, L - 1) = Back(ser, sch, adj, raw(L - 1), Rolls(sch, L - 1))
       /\ build_continuous(ser, sch, adj, L) = Back(ser, sch, adj, raw(L), Rolls(sch, L))
  BY DEF build_continuous, raw
<1>16. QED
  BY <1>2, <1>3, <1>5a, <1>6a, <1>14, <1>15

LEMMA MovedPricesDiffer ==
  ASSUME NEW adj \in {"back_adjusted", "ratio_back_adjusted"}, NEW p \in PriceOf(adj),
         NEW old \in Nat \ {0}, NEW new \in Nat \ {0}, old # new
  PROVE  /\ adj = "back_adjusted" => ~SamePrice(Shift(p, new - old), p)
         /\ adj = "ratio_back_adjusted" => ~SamePrice(Scale(p, new, old), p)
<1>1. CASE adj = "back_adjusted"
  <2>1. p.den = 1 /\ p.num \in Int
    BY <1>1 DEF PriceOf
  <2>2. Shift(p, new - old).num = p.num + (new - old) /\ Shift(p, new - old).den = 1
    BY <2>1 DEF Shift
  <2>3. QED
    BY <1>1, <2>1, <2>2 DEF SamePrice
<1>2. CASE adj = "ratio_back_adjusted"
  <2>1. p.den \in Nat \ {0} /\ p.num \in Nat \ {0}
    BY <1>2 DEF PriceOf
  <2>2. Scale(p, new, old).num = p.num * new /\ Scale(p, new, old).den = p.den * old
    BY DEF Scale
  <2>3. \A x, y, a, b \in Nat \ {0} : (x * a) * y = x * (y * b) => a = b
    <3>1. SUFFICES ASSUME NEW x \in Nat \ {0}, NEW y \in Nat \ {0}, NEW a \in Nat \ {0}, NEW b \in Nat \ {0},
                          (x * a) * y = x * (y * b), a # b
                   PROVE  FALSE
      OBVIOUS
    <3>2. (x * y) * (a - b) = 0 /\ x * y > 0
      BY <3>1
    <3>3. \A z, c \in Int : z > 0 /\ z * c = 0 => c = 0
      OBVIOUS
    <3>4. x * y \in Int /\ a - b \in Int
      OBVIOUS
    <3>5. a - b = 0
      BY <3>2, <3>3, <3>4
    <3>6. QED
      BY <3>1, <3>5
  <2>4. (p.num * new) * p.den # p.num * (p.den * old)
    BY <2>1, <2>3
  <2>5. ~SamePrice(Scale(p, new, old), p)
    BY <2>2, <2>4, Zenon DEF SamePrice
  <2>6. QED
    BY <1>2, <2>5
<1>3. QED
  BY <1>1, <1>2

(* What the measurement is good for.                                       *)
LEMMA MeasuredWhereItGaps ==
  ASSUME NEW ser \in Histories, NEW sch \in Seq(Segments), validate(sch), NEW adj \in Adjustments,
         HasGap(ser, sch, Last(sch)), may_use(ser, sch, adj) = "usable"
  PROVE  adj \in {"raw_splice", "forward_adjusted"}
<1> SUFFICES ASSUME adj \in {"back_adjusted", "ratio_back_adjusted"} PROVE FALSE
  BY DEF Adjustments
<1>1. Len(sch) \in Nat /\ sch # <<>>
  BY DEF validate
<1>2. Len(sch) >= 2
  <2>1. Len(sch) # 1
    BY OneSegmentHasNoGap
  <2>2. Len(sch) # 0
    BY <1>1
  <2>3. \A n \in Nat : n # 0 /\ n # 1 => n >= 2
    OBVIOUS
  <2>4. QED
    BY <1>1, <2>1, <2>2, <2>3, Zenon
<1> DEFINE m == Len(sch)
           L == sch[m].starts_at
           before == build_continuous(ser, sch, adj, L - 1)
           after == build_continuous(ser, sch, adj, L)
           old == Seam(ser, sch, sch[m]).old
           new == Seam(ser, sch, sch[m]).new
<1>3. L \in Moments /\ L - 1 \in Moments
      /\ after[1] = Reached(ser, sch, adj, Rolls(sch, L), 1, m, before[1])
  BY <1>2, OldestBarMoves
<1>4. m \in 1 .. m /\ m >= 1 /\ m \in DOMAIN sch
  BY <1>1, <1>2
<1>5. old \in Nat \ {0} /\ new \in Nat \ {0} /\ old # new
  <2>1. Last(sch) = sch[m]
    BY DEF Last
  <2>2. old # new
    BY <2>1 DEF HasGap
  <2>3. QED
    BY <1>4, <2>2, SeamsAreWhole
<1>6. before \in Seq(PriceOf(adj)) /\ Len(before) = (L - 1) + 1
      /\ after \in Seq(PriceOf(adj)) /\ Len(after) = L + 1
  <2>1. adj \in Adjustments
    OBVIOUS
  <2>2. QED
    BY <1>3, <1>4, <2>1, BuiltBars
<1>7. L \in Nat /\ L >= 1
  BY <1>3, RollAssumption DEF Moments
<1>8. m \in Rolls(sch, L) /\ ~(1 - 1 >= sch[m].starts_at)
  BY <1>4, <1>7 DEF Rolls
<1>9. ~rewrites_history(ser, sch, adj)
  BY DEF may_use
<1>10. Same(SubSeq(after, 1, Len(before)), before)
  BY <1>9 DEF rewrites_history, Last
<1> HIDE DEF before, after, old, new
<1>11. SamePrice(after[1], before[1]) /\ before[1] \in PriceOf(adj)
  <2>1. 1 \in DOMAIN before /\ Len(before) = L /\ before[1] \in PriceOf(adj)
    BY <1>6, <1>7
  <2>2. SubSeq(after, 1, Len(before))[1] = after[1] /\ 1 \in DOMAIN SubSeq(after, 1, Len(before))
    BY <1>6, <1>7, <2>1
  <2>3. QED
    BY <1>10, <2>1, <2>2 DEF Same
<1>12. after[1] = IF adj = "back_adjusted" THEN Shift(before[1], new - old) ELSE Scale(before[1], new, old)
  BY <1>3, <1>8, Zenon DEF Reached, old, new, L, m
<1>13. QED
  BY <1>5, <1>11, <1>12, MovedPricesDiffer

-----------------------------------------------------------------------------
(* Both together                                                           *)

Joining ==
  /\ series \in Histories /\ schedule \in Seq(Segments) /\ Len(schedule) >= 1
  /\ adjustment \in Adjustments
  /\ pc \in {"validate", "measure", "live", "unusable"}
  /\ pc \in {"measure", "live"} => validate(schedule)
  /\ answer = IF pc = "live" THEN may_use(series, schedule, adjustment) ELSE "none"
  /\ as_of \in Moments \cup {-1}
  /\ built = IF as_of = -1 THEN <<>> ELSE build_continuous(series, schedule, adjustment, as_of)
  /\ adjustment # "ratio_back_adjusted" => bars = AsBars(built)

SeriesInv ==
  /\ definition \in Definitions
  /\ bars \in Seq([high : Int, low : Int]) /\ swings = detect(bars, definition)
  /\ (pc = "none" /\ adjustment = "none" /\ answer = "none" /\ built = <<>>) \/ Joining

LEMMA Reaches ==
  ASSUME NEW d \in Definitions
  PROVE  d.pivot_bars \in Nat \ {0}
  BY SwingAssumption

LEMMA CalendarSchedules ==
  ASSUME NEW expiries \in [1 .. Len(Ordered) -> Moments], NEW offset \in Offsets
  PROVE  /\ calendar_schedule(expiries, offset) \in Seq(Segments)
         /\ Len(calendar_schedule(expiries, offset)) >= 1
<1> DEFINE m == Len(Ordered)
           at(n) == IF n = 1 \/ expiries[n - 1] < offset THEN 0 ELSE expiries[n - 1] - offset
           sch == [n \in 1 .. m |-> [contract |-> Ordered[n], starts_at |-> at(n)]]
<1>1. m \in Nat /\ m >= 1 /\ \A n \in 1 .. m : Ordered[n] \in Contracts
  <2>1. Ordered \in Seq(Contracts) /\ Ordered # <<>>
    BY RollAssumption DEF Contracts
  <2>2. QED
    BY <2>1
<1>2. ASSUME NEW n \in 1 .. m PROVE at(n) \in Moments
  <2>1. 0 \in Moments
    BY RollAssumption DEF Moments
  <2>2. n # 1 => expiries[n - 1] \in Moments
    BY <1>1
  <2>3. Moments = 0 .. Horizon /\ Horizon \in Nat /\ offset \in Nat
    BY RollAssumption DEF Moments
  <2>4. QED
    BY <2>1, <2>2, <2>3
<1>3. \A n \in 1 .. m : [contract |-> Ordered[n], starts_at |-> at(n)] \in Segments
  BY <1>1, <1>2 DEF Segments
<1>4. sch \in Seq(Segments) /\ Len(sch) = m
  <2> HIDE DEF at, m
  <2>1. QED
    BY <1>1, <1>3
<1>5. calendar_schedule(expiries, offset) = sch
  BY DEF calendar_schedule
<1>6. QED
  BY <1>1, <1>4, <1>5

LEMMA NoBars == AsBars(<<>>) = <<>>
  BY DEF AsBars

LEMMA NothingDetected ==
  ASSUME NEW d
  PROVE  detect(<<>>, d) = <<>>
<1>1. Len(<<>>) = 0
  OBVIOUS
<1>2. QED
  BY <1>1, Candidates

LEMMA BarsOf ==
  ASSUME NEW adj, adj # "ratio_back_adjusted", NEW prices \in Seq(PriceOf(adj))
  PROVE  /\ AsBars(prices) \in Seq([high : Int, low : Int])
         /\ Len(AsBars(prices)) = Len(prices) /\ DOMAIN AsBars(prices) = DOMAIN prices
         /\ \A n \in DOMAIN prices : AsBars(prices)[n] = [high |-> prices[n].num, low |-> prices[n].num]
<1>1. Len(prices) \in Nat /\ DOMAIN prices = 1 .. Len(prices)
      /\ \A n \in 1 .. Len(prices) : prices[n] \in PriceOf(adj)
  OBVIOUS
<1>2. \A n \in 1 .. Len(prices) : prices[n].num \in Int
  BY <1>1 DEF PriceOf
<1>3. AsBars(prices) = [n \in 1 .. Len(prices) |-> [high |-> prices[n].num, low |-> prices[n].num]]
  BY <1>1 DEF AsBars
<1>4. QED
  BY <1>1, <1>2, <1>3

LEMMA SeriesBegins == SeriesInit => SeriesInv
<1> SUFFICES ASSUME SeriesInit PROVE SeriesInv
  OBVIOUS
<1>1. definition \in Definitions /\ bars = <<>> /\ swings = <<>>
  BY DEF SeriesInit, SwingInit
<1>2. bars \in Seq([high : Int, low : Int]) /\ swings = detect(bars, definition)
  BY <1>1, NothingDetected
<1>3. CASE NoRoll
  BY <1>1, <1>2, <1>3 DEF SeriesInv, NoRoll
<1>4. CASE RollInit
  <2>1. PICK expiries \in [1 .. Len(Ordered) -> Moments], offset \in Offsets :
          schedule = calendar_schedule(expiries, offset)
    BY <1>4 DEF RollInit
  <2>2. schedule \in Seq(Segments) /\ Len(schedule) >= 1
    BY <2>1, CalendarSchedules
  <2>3. Joining
    BY <1>1, <1>4, <2>2, NoBars DEF RollInit, Joining, Histories, Contracts
  <2>4. QED
    BY <1>1, <1>2, <2>3 DEF SeriesInv
<1>5. QED
  BY <1>3, <1>4 DEF SeriesInit

(* The series of the next moment.                                          *)
LEMMA BuiltNext ==
  ASSUME Joining, Build
  PROVE  /\ as_of + 1 \in Moments /\ as_of' = as_of + 1
         /\ built' = build_continuous(series, schedule, adjustment, as_of + 1)
         /\ built' \in Seq(PriceOf(adjustment)) /\ Len(built') = as_of + 2
         /\ built \in Seq(PriceOf(adjustment)) /\ Len(built) = as_of + 1
         /\ as_of \in Int /\ as_of >= -1
<1>1. /\ series \in Histories /\ schedule \in Seq(Segments) /\ Len(schedule) >= 1
      /\ adjustment \in Adjustments
  BY DEF Joining
<1>2. as_of \in Int /\ as_of >= -1 /\ as_of + 1 \in Moments
  BY RollAssumption DEF Joining, Build, Moments
<1>3. as_of' = as_of + 1 /\ built' = build_continuous(series, schedule, adjustment, as_of + 1)
  BY DEF Build
<1>4. built' \in Seq(PriceOf(adjustment)) /\ Len(built') = (as_of + 1) + 1
  BY <1>1, <1>2, <1>3, BuiltBars
<1>5. built \in Seq(PriceOf(adjustment)) /\ Len(built) = as_of + 1
  <2>1. CASE as_of = -1
    <3>1. built = <<>>
      BY <2>1 DEF Joining
    <3>2. <<>> \in Seq(PriceOf(adjustment)) /\ Len(<<>>) = -1 + 1
      OBVIOUS
    <3>3. QED
      BY <2>1, <3>1, <3>2
  <2>2. CASE as_of # -1
    <3>1. as_of \in Moments /\ built = build_continuous(series, schedule, adjustment, as_of)
      BY <2>2 DEF Joining
    <3>2. QED
      BY <1>1, <3>1, BuiltBars
  <2>3. QED
    BY <2>1, <2>2
<1>6. QED
  BY <1>2, <1>3, <1>4, <1>5

LEMMA SeriesKeeps == SeriesInv /\ [SeriesNext]_<<roll_vars, swing_vars>> => SeriesInv'
<1> SUFFICES ASSUME SeriesInv, [SeriesNext]_<<roll_vars, swing_vars>> PROVE SeriesInv'
  OBVIOUS
<1>1. definition \in Definitions /\ bars \in Seq([high : Int, low : Int])
      /\ swings = detect(bars, definition)
  BY DEF SeriesInv
<1>2. CASE FromMarket
  <2>1. PICK bar \in Bars : bars' = Append(bars, bar)
    BY <1>2 DEF FromMarket, Arrive
  <2>2. bar \in [high : Int, low : Int]
    BY SwingAssumption
  <2>3. bars' \in Seq([high : Int, low : Int])
    BY <1>1, <2>1, <2>2
  <2>4. definition' = definition /\ swings' = detect(bars', definition')
    BY <1>2 DEF FromMarket, Arrive
  <2>5. pc = "none" /\ pc' = pc /\ adjustment' = adjustment /\ answer' = answer /\ built' = built
    BY <1>2 DEF FromMarket, roll_vars
  <2>6. QED
    BY <1>1, <2>3, <2>4, <2>5 DEF SeriesInv, Joining
<1>3. CASE Prepare
  <2>1. definition' = definition /\ bars' = bars /\ swings' = swings
    BY <1>3 DEF Prepare, swing_vars
  <2>2. Joining
    BY <1>3 DEF SeriesInv, Prepare, Validate, Measure
  <2>3. Joining'
    BY <1>3, <2>1, <2>2 DEF Joining, Prepare, Validate, Measure, AsBars
  <2>4. QED
    BY <1>1, <2>1, <2>3 DEF SeriesInv
<1>4. CASE FromContracts
  <2>1. Build /\ definition' = definition
    BY <1>4 DEF FromContracts
  <2>2. Joining
    BY <2>1 DEF SeriesInv, Build
  <2>3. /\ series' = series /\ schedule' = schedule /\ adjustment' = adjustment
        /\ pc' = pc /\ answer' = answer
    BY <2>1 DEF Build
  <2>4. /\ as_of' \in Moments /\ as_of' # -1 /\ built' \in Seq(PriceOf(adjustment))
        /\ built' = build_continuous(series', schedule', adjustment', as_of')
    BY <2>1, <2>2, <2>3, BuiltNext
  <2>5. CASE adjustment = "ratio_back_adjusted"
    <3>1. bars' = bars /\ swings' = swings
      BY <1>4, <2>5 DEF FromContracts
    <3>2. Joining'
      BY <2>2, <2>3, <2>4, <2>5 DEF Joining
    <3>3. QED
      BY <1>1, <2>1, <3>1, <3>2 DEF SeriesInv
  <2>6. CASE adjustment # "ratio_back_adjusted"
    <3>1. bars' = AsBars(built') /\ swings' = detect(bars', definition)
      BY <1>4, <2>6 DEF FromContracts
    <3>2. bars' \in Seq([high : Int, low : Int])
      BY <2>4, <2>6, <3>1, BarsOf
    <3>3. Joining'
      <4>1. (bars = AsBars(built))'
        BY <3>1 DEF AsBars
      <4>2. QED
        BY <2>2, <2>3, <2>4, <4>1 DEF Joining
    <3>4. QED
      BY <1>1, <2>1, <3>1, <3>2, <3>3 DEF SeriesInv
  <2>7. QED
    BY <2>5, <2>6
<1>5. CASE UNCHANGED <<roll_vars, swing_vars>>
  BY <1>5 DEF SeriesInv, Joining, AsBars, roll_vars, swing_vars
<1>6. QED
  BY <1>2, <1>3, <1>4, <1>5 DEF SeriesNext

LEMMA SeriesIsKept == SeriesSpec => []SeriesInv
  BY SeriesBegins, SeriesKeeps, PTL DEF SeriesSpec

(* swing.py:156-161: at every moment and for every cut, filtering by       *)
(* confirmed_at gives what the detector says of the bars up to the cut.    *)
THEOREM EveryCutAgrees == SeriesSpec => []CutsAgree
<1>1. ASSUME SeriesInv PROVE CutsAgree
  <2> SUFFICES ASSUME NEW when \in 0 .. Len(bars)
               PROVE  known_at(swings, when) = detect(SubSeq(bars, 1, when), definition)
    BY DEF CutsAgree
  <2>1. /\ definition \in Definitions /\ bars \in Seq([high : Int, low : Int])
        /\ swings = detect(bars, definition)
    BY <1>1 DEF SeriesInv
  <2>2. definition.pivot_bars \in Nat \ {0}
    BY <2>1, Reaches
  <2>3. Parted(SwingsOf(bars, definition), detect(bars, definition),
               detect(SubSeq(bars, 1, when), definition), when, Len(bars))
    BY <2>1, <2>2, CutIsPart
  <2>4. QED
    BY <2>1, <2>3, KnownIsPart
<1>2. QED
  BY <1>1, SeriesIsKept, PTL

LEMMA RollStepsKeepThePast ==
  ASSUME SeriesInv, SeriesNext, adjustment \in {"raw_splice", "forward_adjusted"}
  PROVE  SubSeq(built', 1, Len(built)) = built \/ UNCHANGED roll_vars
<1>1. CASE FromMarket
  BY <1>1 DEF FromMarket
<1>2. CASE Prepare
  <2>1. Joining /\ built' = built
    BY <1>2 DEF SeriesInv, Prepare, Validate, Measure
  <2>2. built \in Seq(PriceOf(adjustment))
    <3>1. CASE as_of = -1
      BY <2>1, <3>1 DEF Joining
    <3>2. CASE as_of # -1
      BY <2>1, <3>2, BuiltBars DEF Joining
    <3>3. QED
      BY <3>1, <3>2
  <2>3. QED
    BY <2>1, <2>2
<1>3. CASE FromContracts
  <2>1. Joining /\ Build
    BY <1>3 DEF SeriesInv, FromContracts, Build
  <2>2. /\ as_of + 1 \in Moments /\ as_of \in Int /\ as_of >= -1
        /\ built' = build_continuous(series, schedule, adjustment, as_of + 1)
        /\ built' \in Seq(PriceOf(adjustment)) /\ Len(built') = as_of + 2
        /\ built \in Seq(PriceOf(adjustment)) /\ Len(built) = as_of + 1
    BY <2>1, BuiltNext
  <2>3. ASSUME NEW n \in 1 .. as_of + 1 PROVE built'[n] = built[n]
    <3>1. as_of # -1 /\ as_of <= as_of + 1
      BY <2>2
    <3>2. as_of \in Moments /\ built = build_continuous(series, schedule, adjustment, as_of)
      BY <2>1, <3>1 DEF Joining
    <3>3. series \in Histories /\ schedule \in Seq(Segments) /\ Len(schedule) >= 1
      BY <2>1 DEF Joining
    <3>4. build_continuous(series, schedule, adjustment, as_of)[n]
            = build_continuous(series, schedule, adjustment, as_of + 1)[n]
      BY <2>2, <3>1, <3>2, <3>3, SameBars
    <3>5. QED
      BY <2>2, <3>2, <3>4, Zenon
  <2>4. SubSeq(built', 1, as_of + 1) = built
    BY <2>2, <2>3
  <2>5. QED
    BY <2>2, <2>4
<1>4. QED
  BY <1>1, <1>2, <1>3 DEF SeriesNext

LEMMA KeptIsSame ==
  SubSeq(built', 1, Len(built)) = built => KeepsThePast
  BY DEF KeepsThePast, Same, SamePrice

(* "A bar, once emitted, is final": for any contracts, prices and schedule,*)
(* a raw splice and a forward adjustment never move a bar they have built. *)
THEOREM EmittedIsFinal == SeriesSpec => EmittedBarsAreFinal
<1>1. ASSUME SeriesInv, [SeriesNext]_<<roll_vars, swing_vars>>,
             adjustment \in {"raw_splice", "forward_adjusted"}
      PROVE  KeepsThePast \/ UNCHANGED roll_vars
  BY <1>1, RollStepsKeepThePast, KeptIsSame
<1>2. SeriesInv /\ [SeriesNext]_<<roll_vars, swing_vars>> =>
        [(adjustment \in {"raw_splice", "forward_adjusted"}) => KeepsThePast]_roll_vars
  BY <1>1
<1>3. QED
  BY <1>2, SeriesIsKept, PTL DEF SeriesSpec, EmittedBarsAreFinal

LEMMA UsableJoins ==
  ASSUME SeriesInv, answer = "usable", HasGap(series, schedule, Last(schedule))
  PROVE  adjustment \in {"raw_splice", "forward_adjusted"}
<1>1. Joining /\ pc = "live"
  BY DEF SeriesInv, Joining
<1>2. /\ series \in Histories /\ schedule \in Seq(Segments) /\ adjustment \in Adjustments
      /\ validate(schedule) /\ may_use(series, schedule, adjustment) = "usable"
  BY <1>1 DEF Joining
<1>3. QED
  BY <1>2, MeasuredWhereItGaps

(* What the measurement is worth: where the last roll has a gap, it lets   *)
(* through no join that ever moves a bar.                                  *)
THEOREM UsableIsFinal == SeriesSpec => UsableWhenLastRollGaps
<1>1. SeriesInv /\ [SeriesNext]_<<roll_vars, swing_vars>> =>
        [answer = "usable" /\ HasGap(series, schedule, Last(schedule)) => KeepsThePast]_roll_vars
  BY UsableJoins, RollStepsKeepThePast, KeptIsSame
<1>2. QED
  BY <1>1, SeriesIsKept, PTL DEF SeriesSpec, UsableWhenLastRollGaps

-----------------------------------------------------------------------------
(* Nothing is revised                                                      *)

LabelOf(swing, earlier) ==
  IF earlier = <<>> \/ swing.price = earlier[1].price THEN "none"
  ELSE IF swing.price > earlier[1].price
    THEN IF swing.kind = "high" THEN "HH" ELSE "HL"
    ELSE IF swing.kind = "high" THEN "LH" ELSE "LL"

LEMMA LabelsKept ==
  ASSUME NEW S, NEW x \in Seq(S), NEW y \in Seq(S), Len(y) <= Len(x),
         \A n \in 1 .. Len(y) : y[n] = x[n]
  PROVE  IsPrefix(label(y), label(x))
<1> DEFINE Labels == {"none", "HH", "HL", "LH", "LL"}
           At(s, n) == LabelOf(s[n], LastOf(s[n].kind, SubSeq(s, 1, n - 1)))
<1>1. ASSUME NEW s \in Seq(S)
      PROVE  label(s) \in Seq(Labels) /\ Len(label(s)) = Len(s)
             /\ \A n \in 1 .. Len(s) : label(s)[n] = At(s, n)
  <2>1. label(s) = [n \in DOMAIN s |-> At(s, n)]
    BY Zenon DEF label, LabelOf
  <2>2. DOMAIN s = 1 .. Len(s) /\ Len(s) \in Nat
    OBVIOUS
  <2>3. \A n : At(s, n) \in Labels
    BY DEF LabelOf
  <2> HIDE DEF At, Labels
  <2>4. QED
    BY <2>1, <2>2, <2>3
<1>2. ASSUME NEW n \in 1 .. Len(y) PROVE label(y)[n] = label(x)[n]
  <2>1. n \in 1 .. Len(x) /\ y[n] = x[n]
    OBVIOUS
  <2>2. SubSeq(y, 1, n - 1) = SubSeq(x, 1, n - 1)
    OBVIOUS
  <2>3. At(y, n) = At(x, n)
    BY <2>1, <2>2, Zenon
  <2> HIDE DEF At
  <2>4. QED
    BY <1>1, <2>1, <2>3
<1> HIDE DEF At, Labels
<1>3. SubSeq(label(y), 1, Len(y)) = SubSeq(label(x), 1, Len(y))
  <2>1. /\ label(x) \in Seq(Labels) /\ Len(label(x)) = Len(x)
        /\ label(y) \in Seq(Labels) /\ Len(label(y)) = Len(y)
    BY <1>1
  <2> DEFINE lx == label(x)
             ly == label(y)
  <2> HIDE DEF lx, ly
  <2>2. lx \in Seq(Labels) /\ ly \in Seq(Labels) /\ Len(lx) = Len(x) /\ Len(ly) = Len(y)
        /\ \A n \in 1 .. Len(y) : ly[n] = lx[n]
    BY <1>2, <2>1 DEF lx, ly
  <2>3. SubSeq(ly, 1, Len(y)) = SubSeq(lx, 1, Len(y))
    BY <2>2
  <2>4. QED
    BY <2>3 DEF lx, ly
<1>4. Len(label(y)) = Len(y) /\ Len(label(x)) = Len(x)
  BY <1>1
<1>5. QED
  BY <1>3, <1>4, Zenon DEF IsPrefix

(* One bar more: what it adds is known when it arrives.                    *)
LEMMA OneBarAdds ==
  ASSUME NEW T, NEW b \in Seq(T), NEW d, d.pivot_bars \in Nat \ {0}, Len(b) >= 1,
         NEW x, NEW y, x = detect(b, d), y = detect(SubSeq(b, 1, Len(b) - 1), d)
  PROVE  /\ IsPrefix(y, x) /\ IsPrefix(label(y), label(x))
         /\ \A n \in DOMAIN x \ DOMAIN y : x[n].confirmed_at = Len(b)
<1> DEFINE when == Len(b) - 1
           S == SwingsOf(b, d)
<1>1. when \in 0 .. Len(b) /\ Len(b) \in Nat
  OBVIOUS
<1>2. Parted(S, x, y, when, Len(b))
  BY <1>1, CutIsPart
<1>3. \A s \in S : s.confirmed_at \in Int
  <2>1. Len(b) \in Nat
    OBVIOUS
  <2>2. QED
    BY <2>1 DEF SwingsOf, SwingAt
<1> HIDE DEF S
<1>4. /\ x \in Seq(S) /\ y \in Seq(S) /\ Len(y) <= Len(x)
      /\ \A n \in 1 .. Len(y) : y[n] = x[n]
      /\ \A n \in 1 .. Len(x) : n > Len(y) =>
           ~(x[n].confirmed_at <= when) /\ x[n].confirmed_at <= Len(b)
  BY <1>2, Zenon DEF Parted
<1> HIDE DEF when
<1>5. IsPrefix(y, x)
  BY <1>4 DEF IsPrefix
<1>6. IsPrefix(label(y), label(x))
  BY <1>4, LabelsKept
<1>7. ASSUME NEW n \in DOMAIN x \ DOMAIN y PROVE x[n].confirmed_at = Len(b)
  <2>1. n \in 1 .. Len(x) /\ n > Len(y)
    BY <1>4
  <2>2. ~(x[n].confirmed_at <= when) /\ x[n].confirmed_at <= Len(b) /\ x[n].confirmed_at \in Int
    <3>1. x[n] \in S
      BY <1>4, <2>1
    <3>2. QED
      BY <1>3, <1>4, <2>1, <3>1
  <2>3. QED
    BY <1>1, <2>2 DEF when
<1>8. QED
  BY <1>5, <1>6, <1>7

(* swing.py:19-22 and R6 of UPTM-014: a swing once reported is never       *)
(* withdrawn, moved or labelled otherwise, for any feed, definition and    *)
(* contracts, whether bars arrive or a roll makes the whole series anew.   *)
THEOREM NothingIsRevised == SeriesSpec => NothingRevised
<1>1. ASSUME SeriesInv, SeriesNext, Steady, bars' # bars PROVE OnlyAdds
  <2>1. definition \in Definitions /\ bars \in Seq([high : Int, low : Int])
        /\ swings = detect(bars, definition) /\ definition.pivot_bars \in Nat \ {0}
    BY <1>1, Reaches DEF SeriesInv
  <2>2. /\ bars' \in Seq([high : Int, low : Int]) /\ swings' = detect(bars', definition)
        /\ Len(bars') = Len(bars) + 1 /\ SubSeq(bars', 1, Len(bars)) = bars
    <3>1. CASE FromMarket
      <4>1. PICK bar \in Bars : bars' = Append(bars, bar)
        BY <3>1 DEF FromMarket, Arrive
      <4>2. bar \in [high : Int, low : Int] /\ swings' = detect(bars', definition)
        BY <3>1, SwingAssumption DEF FromMarket, Arrive
      <4>3. QED
        BY <2>1, <4>1, <4>2
    <3>2. CASE FromContracts
      <4>1. Build /\ Joining
        BY <1>1, <3>2 DEF FromContracts, Build, SeriesInv
      <4>2. adjustment # "ratio_back_adjusted" /\ bars' = AsBars(built')
            /\ swings' = detect(bars', definition)
        BY <1>1, <3>2 DEF FromContracts
      <4>3. adjustment \in {"raw_splice", "forward_adjusted"}
        BY <1>1, <4>1, UsableJoins DEF Steady, Joining, Adjustments
      <4>4. as_of' # as_of
        <5>1. as_of \in Int /\ as_of' = as_of + 1
          BY <4>1, BuiltNext
        <5>2. QED
          BY <5>1
      <4>5. SubSeq(built', 1, Len(built)) = built
        BY <1>1, <4>3, <4>4, RollStepsKeepThePast DEF roll_vars
      <4>6. /\ built' \in Seq(PriceOf(adjustment)) /\ Len(built') = Len(built) + 1
            /\ built \in Seq(PriceOf(adjustment))
        <5>1. /\ as_of \in Int /\ built' \in Seq(PriceOf(adjustment)) /\ Len(built') = as_of + 2
              /\ built \in Seq(PriceOf(adjustment)) /\ Len(built) = as_of + 1
          BY <4>1, BuiltNext
        <5>2. QED
          BY <5>1
      <4>7. bars = AsBars(built)
        BY <4>1, <4>2 DEF Joining
      <4> DEFINE new == built'
                 old == built
                 adj == adjustment
                 nb == AsBars(new)
                 ob == AsBars(old)
      <4> HIDE DEF new, old, adj
      <4>8. /\ nb \in Seq([high : Int, low : Int]) /\ Len(nb) = Len(new) /\ DOMAIN nb = DOMAIN new
            /\ \A n \in DOMAIN new : nb[n] = [high |-> new[n].num, low |-> new[n].num]
        BY <4>2, <4>6, BarsOf DEF new, adj
      <4>9. /\ ob \in Seq([high : Int, low : Int]) /\ Len(ob) = Len(old) /\ DOMAIN ob = DOMAIN old
            /\ \A n \in DOMAIN old : ob[n] = [high |-> old[n].num, low |-> old[n].num]
        BY <4>2, <4>6, BarsOf DEF old, adj
      <4>10. /\ new \in Seq(PriceOf(adj)) /\ old \in Seq(PriceOf(adj)) /\ Len(new) = Len(old) + 1
             /\ SubSeq(new, 1, Len(old)) = old
        BY <4>5, <4>6 DEF new, old, adj
      <4> HIDE DEF nb, ob
      <4>11. ASSUME NEW n \in 1 .. Len(old) PROVE nb[n] = ob[n]
        <5>1. n \in DOMAIN new /\ n \in DOMAIN old
          BY <4>10
        <5>2. new[n] = old[n]
          <6>1. SubSeq(new, 1, Len(old))[n] = new[n]
            BY <4>10
          <6>2. QED
            BY <4>10, <6>1
        <5>3. QED
          BY <4>8, <4>9, <5>1, <5>2, Zenon
      <4>12. Len(nb) = Len(ob) + 1 /\ SubSeq(nb, 1, Len(ob)) = ob
        BY <4>8, <4>9, <4>10, <4>11
      <4>13. bars' = nb /\ bars = ob
        BY <4>2, <4>7 DEF nb, ob, new, old
      <4>14. QED
        BY <4>2, <4>8, <4>12, <4>13
    <3>3. CASE Prepare
      BY <1>1, <3>3 DEF Prepare, swing_vars
    <3>4. QED
      BY <1>1, <3>1, <3>2, <3>3 DEF SeriesNext
  <2>3. Len(bars') >= 1 /\ Len(bars') - 1 = Len(bars)
    BY <2>1, <2>2
  <2>4. swings = detect(SubSeq(bars', 1, Len(bars') - 1), definition)
    BY <2>1, <2>2, <2>3
  <2> DEFINE b == bars'
             x == swings'
  <2> HIDE DEF b, x
  <2>5. /\ b \in Seq([high : Int, low : Int]) /\ Len(b) >= 1
        /\ x = detect(b, definition) /\ swings = detect(SubSeq(b, 1, Len(b) - 1), definition)
    BY <2>2, <2>3, <2>4 DEF b, x
  <2>6. /\ IsPrefix(swings, x) /\ IsPrefix(label(swings), label(x))
        /\ \A n \in DOMAIN x \ DOMAIN swings : x[n].confirmed_at = Len(b)
    BY <2>1, <2>5, OneBarAdds
  <2>7. QED
    BY <2>6 DEF OnlyAdds, b, x
<1>2. SeriesInv /\ [SeriesNext]_<<roll_vars, swing_vars>> => [Steady => OnlyAdds]_bars
  BY <1>1 DEF swing_vars
<1>3. QED
  BY <1>2, SeriesIsKept, PTL DEF SeriesSpec, NothingRevised

-----------------------------------------------------------------------------
(* The series of a feed                                                    *)

BarRecord == [day : 0 .. Sessions, shape : Printed]

Misprinted(f) == \E i \in DOMAIN f : f[i].shape \in Misprints

(* What went wrong can be told from the bars, the gaps and the snapshot.   *)
FaultsShow ==
  /\ "lost" \in faults <=> \E s \in 1 .. session - 1 : s \notin Days(feed) \cup gaps
  /\ "misprint" \in faults <=> Misprinted(feed)
  /\ "outside" \in faults <=> Holiday \in Days(feed)
  /\ "snapshot" \in faults <=> snapshot # "digested"

MarketInv ==
  phase # "none" =>
    /\ phase \in {"feeding", "packed"} /\ invariant \in Invariants
    /\ feed \in Seq(BarRecord) /\ session \in 1 .. Sessions + 1
    /\ Days(feed) \subseteq 0 .. session - 1 /\ gaps \subseteq 1 .. session - 1
    /\ phase = "packed" => session = Sessions + 1
    /\ FaultsShow

(* The bars of one series and then those of another.                       *)
LEMMA OneAfterAnother ==
  ASSUME NEW f \in Seq(BarRecord), NEW g \in Seq(BarRecord)
  PROVE  /\ f \o g \in Seq(BarRecord)
         /\ Days(f \o g) = Days(f) \cup Days(g)
         /\ Misprinted(f \o g) <=> Misprinted(f) \/ Misprinted(g)
<1> DEFINE h == f \o g
<1>1. /\ h \in Seq(BarRecord) /\ Len(f) \in Nat /\ Len(g) \in Nat /\ Len(h) = Len(f) + Len(g)
      /\ DOMAIN f = 1 .. Len(f) /\ DOMAIN g = 1 .. Len(g) /\ DOMAIN h = 1 .. Len(h)
      /\ \A i \in 1 .. Len(f) : h[i] = f[i]
      /\ \A i \in 1 .. Len(g) : h[Len(f) + i] = g[i]
  OBVIOUS
<1> HIDE DEF h
<1>2. \A i \in DOMAIN f : i \in DOMAIN h /\ h[i] = f[i]
  BY <1>1
<1>3. \A i \in DOMAIN g : Len(f) + i \in DOMAIN h /\ h[Len(f) + i] = g[i]
  BY <1>1
<1>4. ASSUME NEW i \in DOMAIN h
      PROVE  (\E k \in DOMAIN f : h[i] = f[k]) \/ (\E k \in DOMAIN g : h[i] = g[k])
  <2>1. CASE i <= Len(f)
    BY <1>1, <2>1
  <2>2. CASE i > Len(f)
    <3>1. i - Len(f) \in DOMAIN g /\ Len(f) + (i - Len(f)) = i
      BY <1>1, <2>2
    <3>2. QED
      BY <1>3, <3>1
  <2>3. QED
    BY <1>1, <2>1, <2>2
<1>5. Days(h) = Days(f) \cup Days(g)
  BY <1>2, <1>3, <1>4 DEF Days
<1>6. Misprinted(h) <=> Misprinted(f) \/ Misprinted(g)
  BY <1>2, <1>3, <1>4 DEF Misprinted
<1>7. QED
  BY <1>1, <1>5, <1>6 DEF h

LEMMA OneBarMore ==
  ASSUME NEW f \in Seq(BarRecord), NEW day \in 0 .. Sessions, NEW shape \in Printed
  PROVE  /\ Append(f, Bar(day, shape)) \in Seq(BarRecord)
         /\ Days(Append(f, Bar(day, shape))) = Days(f) \cup {day}
         /\ Misprinted(Append(f, Bar(day, shape))) <=> Misprinted(f) \/ shape \in Misprints
<1> DEFINE b == Bar(day, shape)
<1>1. b \in BarRecord /\ b.day = day /\ b.shape = shape
  BY DEF Bar, BarRecord
<1> HIDE DEF b
<1>2. /\ <<b>> \in Seq(BarRecord) /\ DOMAIN <<b>> = {1} /\ <<b>>[1] = b
      /\ f \o <<b>> = Append(f, b)
  BY <1>1
<1>3. Days(<<b>>) = {day} /\ (Misprinted(<<b>>) <=> shape \in Misprints)
  BY <1>1, <1>2 DEF Days, Misprinted
<1>4. QED
  BY <1>2, <1>3, OneAfterAnother DEF b

LEMMA MarketBegins == FabricationInit => MarketInv
<1> SUFFICES ASSUME MarketInit PROVE MarketInv
  BY DEF FabricationInit, NoMarket, MarketInv
<1>1. Sessions \in Nat \ {0} /\ feed = <<>> /\ faults = {} /\ session = 1 /\ gaps = {}
      /\ snapshot = "digested" /\ invariant \in Invariants /\ phase = "feeding"
  BY MarketAssumption DEF MarketInit
<1>2. Days(feed) = {} /\ ~Misprinted(feed)
  BY <1>1 DEF Days, Misprinted
<1>3. FaultsShow
  BY <1>1, <1>2 DEF FaultsShow
<1>4. QED
  BY <1>1, <1>2, <1>3 DEF MarketInv

LEMMA DeliverKeeps == MarketInv /\ Deliver => MarketInv'
<1> SUFFICES ASSUME MarketInv, Deliver PROVE MarketInv'
  OBVIOUS
<1>1. /\ phase = "feeding" /\ invariant \in Invariants /\ Sessions \in Nat
      /\ feed \in Seq(BarRecord) /\ session \in 1 .. Sessions + 1 /\ session <= Sessions
      /\ Days(feed) \subseteq 0 .. session - 1 /\ gaps \subseteq 1 .. session - 1
      /\ FaultsShow
  BY MarketAssumption DEF MarketInv, Deliver, Feeding
<1>2. PICK shape \in Shapes : feed' = Append(feed, Bar(session, shape))
  BY DEF Deliver
<1>3. /\ session' = session + 1 /\ gaps' = gaps /\ faults' = faults
      /\ phase' = phase /\ invariant' = invariant /\ snapshot' = snapshot
  BY DEF Deliver, Feeding
<1>4. shape \in Printed /\ shape \notin Misprints
  BY <1>2, MisprintsShow DEF Printed
<1>5. /\ feed' \in Seq(BarRecord) /\ Days(feed)' = Days(feed) \cup {session}
      /\ Misprinted(feed)' <=> Misprinted(feed)
  <2>1. session \in 0 .. Sessions
    BY <1>1
  <2>2. Days(feed)' = Days(feed') /\ (Misprinted(feed)' <=> Misprinted(feed'))
    BY DEF Days, Misprinted
  <2>3. QED
    BY <1>1, <1>2, <1>4, <2>1, <2>2, OneBarMore
<1>6. FaultsShow'
  <2>1. (\E s \in 1 .. session' - 1 : s \notin Days(feed)' \cup gaps')
          <=> \E s \in 1 .. session - 1 : s \notin Days(feed) \cup gaps
    BY <1>1, <1>3, <1>5
  <2>2. Holiday \in Days(feed)' <=> Holiday \in Days(feed)
    BY <1>1, <1>5 DEF Holiday
  <2>3. QED
    BY <1>1, <1>3, <1>5, <2>1, <2>2 DEF FaultsShow
<1>7. QED
  BY <1>1, <1>3, <1>5, <1>6 DEF MarketInv

LEMMA MisprintKeeps == MarketInv /\ Misprint => MarketInv'
<1> SUFFICES ASSUME MarketInv, Misprint PROVE MarketInv'
  OBVIOUS
<1>1. /\ phase = "feeding" /\ invariant \in Invariants /\ Sessions \in Nat
      /\ feed \in Seq(BarRecord) /\ session \in 1 .. Sessions + 1 /\ session <= Sessions
      /\ Days(feed) \subseteq 0 .. session - 1 /\ gaps \subseteq 1 .. session - 1
      /\ FaultsShow
  BY MarketAssumption DEF MarketInv, Misprint, Feeding
<1>2. PICK shape \in Misprints \cup Unreal :
        /\ feed' = Append(feed, Bar(session, shape))
        /\ faults' = faults \cup IF shape \in Unreal THEN {"unreal"} ELSE {"misprint"}
  BY DEF Misprint, Faults
<1>3. /\ session' = session + 1 /\ gaps' = gaps
      /\ phase' = phase /\ invariant' = invariant /\ snapshot' = snapshot
  BY DEF Misprint, Feeding
<1>4. shape \in Printed /\ (shape \in Misprints <=> shape \notin Unreal)
  BY <1>2, MisprintsShow DEF Printed
<1>5. /\ feed' \in Seq(BarRecord) /\ Days(feed)' = Days(feed) \cup {session}
      /\ Misprinted(feed)' <=> Misprinted(feed) \/ shape \in Misprints
  <2>1. session \in 0 .. Sessions
    BY <1>1
  <2>2. Days(feed)' = Days(feed') /\ (Misprinted(feed)' <=> Misprinted(feed'))
    BY DEF Days, Misprinted
  <2>3. QED
    BY <1>1, <1>2, <1>4, <2>1, <2>2, OneBarMore
<1>6. FaultsShow'
  <2>1. (\E s \in 1 .. session' - 1 : s \notin Days(feed)' \cup gaps')
          <=> \E s \in 1 .. session - 1 : s \notin Days(feed) \cup gaps
    BY <1>1, <1>3, <1>5
  <2>2. Holiday \in Days(feed)' <=> Holiday \in Days(feed)
    BY <1>1, <1>5 DEF Holiday
  <2>3. /\ "lost" \in faults' <=> "lost" \in faults
        /\ "outside" \in faults' <=> "outside" \in faults
        /\ "snapshot" \in faults' <=> "snapshot" \in faults
        /\ "misprint" \in faults' <=> "misprint" \in faults \/ shape \in Misprints
    BY <1>2, <1>4
  <2>4. QED
    BY <1>1, <1>3, <1>5, <2>1, <2>2, <2>3 DEF FaultsShow
<1>7. QED
  BY <1>1, <1>3, <1>5, <1>6 DEF MarketInv

LEMMA LoseKeeps == MarketInv /\ LoseSession => MarketInv'
<1> SUFFICES ASSUME MarketInv, LoseSession PROVE MarketInv'
  OBVIOUS
<1>1. /\ phase = "feeding" /\ invariant \in Invariants /\ Sessions \in Nat
      /\ feed \in Seq(BarRecord) /\ session \in 1 .. Sessions + 1 /\ session <= Sessions
      /\ Days(feed) \subseteq 0 .. session - 1 /\ gaps \subseteq 1 .. session - 1
      /\ FaultsShow
  BY MarketAssumption DEF MarketInv, LoseSession, Feeding
<1>2. /\ session' = session + 1 /\ feed' = feed
      /\ phase' = phase /\ invariant' = invariant /\ snapshot' = snapshot
      /\ \/ gaps' = gaps \cup {session} /\ faults' = faults
         \/ gaps' = gaps /\ faults' = faults \cup {"lost"}
  BY DEF LoseSession, Feeding, Faults
<1>3. Days(feed)' = Days(feed) /\ (Misprinted(feed)' <=> Misprinted(feed))
  BY <1>2 DEF Days, Misprinted
<1>4. session \notin Days(feed) /\ session \notin gaps /\ session \in 1 .. session' - 1
  BY <1>1, <1>2
<1>5. "lost" \in faults' <=> \E s \in 1 .. session' - 1 : s \notin Days(feed)' \cup gaps'
  <2>1. "lost" \in faults <=> \E s \in 1 .. session - 1 : s \notin Days(feed) \cup gaps
    BY <1>1 DEF FaultsShow
  <2>2. CASE gaps' = gaps \cup {session} /\ faults' = faults
    BY <1>1, <1>2, <1>3, <2>1, <2>2
  <2>3. CASE gaps' = gaps /\ faults' = faults \cup {"lost"}
    BY <1>3, <1>4, <2>3
  <2>4. QED
    BY <1>2, <2>2, <2>3
<1>6. FaultsShow'
  <2>1. /\ "misprint" \in faults' <=> "misprint" \in faults
        /\ "outside" \in faults' <=> "outside" \in faults
        /\ "snapshot" \in faults' <=> "snapshot" \in faults
    BY <1>2
  <2>2. QED
    BY <1>1, <1>2, <1>3, <1>5, <2>1 DEF FaultsShow
<1>7. QED
  <2>1. session \in 1 .. Sessions /\ session' = session + 1
    BY <1>1, <1>2
  <2>2. session' \in 1 .. Sessions + 1
    BY <1>1, <2>1
  <2>3. Days(feed)' \subseteq 0 .. session' - 1
    BY <1>1, <1>3, <2>1
  <2>4. gaps' \subseteq gaps \cup {session}
    BY <1>2
  <2>5. gaps' \subseteq 1 .. session' - 1
    BY <1>1, <2>1, <2>4
  <2>6. QED
    BY <1>1, <1>2, <1>6, <2>2, <2>3, <2>5 DEF MarketInv

LEMMA OutsideKeeps == MarketInv /\ OutsideCalendar => MarketInv'
<1> SUFFICES ASSUME MarketInv, OutsideCalendar PROVE MarketInv'
  OBVIOUS
<1>1. /\ phase = "feeding" /\ invariant \in Invariants /\ Sessions \in Nat
      /\ feed \in Seq(BarRecord) /\ session \in 1 .. Sessions + 1
      /\ Days(feed) \subseteq 0 .. session - 1 /\ gaps \subseteq 1 .. session - 1
      /\ FaultsShow
  BY MarketAssumption DEF MarketInv, OutsideCalendar, Feeding
<1>2. PICK shape \in Shapes : feed' = Append(feed, Bar(Holiday, shape))
  BY DEF OutsideCalendar
<1>3. /\ session' = session /\ gaps' = gaps /\ faults' = faults \cup {"outside"}
      /\ phase' = phase /\ invariant' = invariant /\ snapshot' = snapshot
  BY DEF OutsideCalendar, Feeding, Faults
<1>4. shape \in Printed /\ shape \notin Misprints
  BY <1>2, MisprintsShow DEF Printed
<1>5. /\ feed' \in Seq(BarRecord) /\ Days(feed)' = Days(feed) \cup {Holiday}
      /\ Misprinted(feed)' <=> Misprinted(feed)
  <2>1. Holiday \in 0 .. Sessions
    BY <1>1 DEF Holiday
  <2>2. Days(feed)' = Days(feed') /\ (Misprinted(feed)' <=> Misprinted(feed'))
    BY DEF Days, Misprinted
  <2>3. QED
    BY <1>1, <1>2, <1>4, <2>1, <2>2, OneBarMore
<1>6. FaultsShow'
  <2>1. (\E s \in 1 .. session' - 1 : s \notin Days(feed)' \cup gaps')
          <=> \E s \in 1 .. session - 1 : s \notin Days(feed) \cup gaps
    BY <1>1, <1>3, <1>5 DEF Holiday
  <2>2. QED
    BY <1>1, <1>3, <1>5, <2>1 DEF FaultsShow
<1>7. QED
  <2>1. Days(feed)' \subseteq 0 .. session' - 1
    BY <1>1, <1>3, <1>5 DEF Holiday
  <2>2. QED
    BY <1>1, <1>3, <1>5, <1>6, <2>1 DEF MarketInv

LEMMA ReplayKeeps == MarketInv /\ Replay => MarketInv'
<1> SUFFICES ASSUME MarketInv, Replay PROVE MarketInv'
  OBVIOUS
<1>1. /\ phase = "feeding" /\ invariant \in Invariants /\ Sessions \in Nat
      /\ feed \in Seq(BarRecord) /\ session \in 1 .. Sessions + 1
      /\ Days(feed) \subseteq 0 .. session - 1 /\ gaps \subseteq 1 .. session - 1
      /\ FaultsShow
  BY MarketAssumption DEF MarketInv, Replay, Feeding
<1> DEFINE again(n) == [i \in 1 .. n |-> Bar(session + i - 1, feed[Len(feed) - n + i].shape)]
<1>2. PICK n \in 1 .. Len(feed) :
        session + n - 1 <= Sessions /\ feed' = feed \o again(n) /\ session' = session + n
  BY DEF Replay
<1>3. /\ gaps' = gaps /\ faults' = faults \cup {"replay"}
      /\ phase' = phase /\ invariant' = invariant /\ snapshot' = snapshot
  BY DEF Replay, Feeding, Faults
<1>4. ASSUME NEW i \in 1 .. n
      PROVE  /\ again(n)[i] \in BarRecord /\ again(n)[i].day = session + i - 1
             /\ again(n)[i].shape = feed[Len(feed) - n + i].shape
             /\ Len(feed) - n + i \in DOMAIN feed
  <2>1. Len(feed) - n + i \in DOMAIN feed /\ feed[Len(feed) - n + i] \in BarRecord
    BY <1>1
  <2>2. session + i - 1 \in 0 .. Sessions
    BY <1>1, <1>2
  <2>3. again(n)[i] = Bar(session + i - 1, feed[Len(feed) - n + i].shape)
    OBVIOUS
  <2> HIDE DEF again
  <2>4. QED
    BY <2>1, <2>2, <2>3 DEF Bar, BarRecord
<1>5. again(n) \in Seq(BarRecord) /\ DOMAIN again(n) = 1 .. n
  <2>1. n \in Nat /\ DOMAIN again(n) = 1 .. n /\ again(n) = [i \in 1 .. n |-> again(n)[i]]
    BY <1>1
  <2> HIDE DEF again
  <2>2. QED
    BY <1>4, <2>1
<1> HIDE DEF again
<1>6. Days(again(n)) = session .. session + n - 1
  <2>1. ASSUME NEW d \in session .. session + n - 1 PROVE d \in Days(again(n))
    <3>1. d - session + 1 \in 1 .. n /\ session + (d - session + 1) - 1 = d
      BY <1>1
    <3>2. QED
      BY <1>4, <1>5, <3>1 DEF Days
  <2>2. ASSUME NEW d \in Days(again(n)) PROVE d \in session .. session + n - 1
    <3>1. PICK i \in 1 .. n : d = session + i - 1
      BY <1>4, <1>5 DEF Days
    <3>2. QED
      BY <1>1, <3>1
  <2>3. QED
    BY <2>1, <2>2
<1>7. Misprinted(again(n)) => Misprinted(feed)
  BY <1>4, <1>5 DEF Misprinted
<1>8. /\ feed' \in Seq(BarRecord) /\ Days(feed)' = Days(feed) \cup (session .. session + n - 1)
      /\ Misprinted(feed)' <=> Misprinted(feed)
  <2>1. Days(feed)' = Days(feed') /\ (Misprinted(feed)' <=> Misprinted(feed'))
    BY DEF Days, Misprinted
  <2>2. QED
    BY <1>1, <1>2, <1>5, <1>6, <1>7, <2>1, OneAfterAnother
<1>9. n \in Nat \ {0}
  BY <1>1
<1>10. FaultsShow'
  <2>1. (\E s \in 1 .. session' - 1 : s \notin Days(feed)' \cup gaps')
          <=> \E s \in 1 .. session - 1 : s \notin Days(feed) \cup gaps
    BY <1>1, <1>2, <1>3, <1>8, <1>9
  <2>2. Holiday \in Days(feed)' <=> Holiday \in Days(feed)
    BY <1>1, <1>8, <1>9 DEF Holiday
  <2>3. QED
    BY <1>1, <1>3, <1>8, <2>1, <2>2 DEF FaultsShow
<1>11. QED
  <2>1. session' \in 1 .. Sessions + 1 /\ Days(feed)' \subseteq 0 .. session' - 1
        /\ gaps' \subseteq 1 .. session' - 1
    BY <1>1, <1>2, <1>3, <1>8, <1>9
  <2>2. QED
    BY <1>1, <1>3, <1>8, <1>10, <2>1 DEF MarketInv

LEMMA MarketKeeps ==
  MarketInv /\ [FabricationNext]_<<vars, market_vars>> => MarketInv'
<1> SUFFICES ASSUME MarketInv, [FabricationNext]_<<vars, market_vars>> PROVE MarketInv'
  OBVIOUS
<1>1. CASE UNCHANGED market_vars
  BY <1>1 DEF market_vars, market, MarketInv, FaultsShow, Days, Misprinted
<1>2. CASE Pack
  <2>1. session = Sessions + 1 \/ phase = "none"
    BY <1>2, MarketAssumption DEF Pack, MarketInv
  <2>2. QED
    BY <1>2, <2>1 DEF Pack, market, MarketInv, FaultsShow, Days, Misprinted
<1>3. CASE SnapshotChanges
  <2>1. /\ phase = "packed" /\ UNCHANGED <<phase, feed, session, gaps, invariant>>
        /\ snapshot' # "digested" /\ faults' = faults \cup {"snapshot"}
    BY <1>3 DEF SnapshotChanges, Faults, market
  <2>2. /\ "lost" \in faults' <=> "lost" \in faults
        /\ "misprint" \in faults' <=> "misprint" \in faults
        /\ "outside" \in faults' <=> "outside" \in faults
        /\ "snapshot" \in faults'
    BY <2>1
  <2>3. Days(feed)' = Days(feed) /\ (Misprinted(feed)' <=> Misprinted(feed))
    BY <2>1 DEF Days, Misprinted
  <2>4. FaultsShow'
    BY <2>1, <2>2, <2>3 DEF FaultsShow, MarketInv
  <2>5. QED
    BY <2>1, <2>3, <2>4 DEF MarketInv
<1>4. QED
  BY <1>1, <1>2, <1>3, DeliverKeeps, MisprintKeeps, LoseKeeps, OutsideKeeps, ReplayKeeps
  DEF FabricationNext, MarketNext, vars, market_vars

LEMMA MarketIsKept == FabricationSpec => []MarketInv
  BY MarketBegins, MarketKeeps, PTL DEF FabricationSpec

-----------------------------------------------------------------------------
(* Windows                                                                 *)

(* A square, multiplied out.                                               *)
LEMMA SquareOfDifference ==
  ASSUME NEW a \in Int, NEW b \in Int
  PROVE  (a - b) * (a - b) = a * a - 2 * (a * b) + b * b
  OBVIOUS

LEMMA Multiplied ==
  ASSUME NEW a \in Int, NEW x \in Int, NEW y \in Int
  PROVE  a * (x + y) = a * x + a * y /\ a * x \in Int /\ a * y \in Int
  OBVIOUS

(* The squares of what c times each amount strays from t.                  *)
LEMMA SumOfSquares ==
  ASSUME NEW s \in Seq(Int), NEW c \in Int, NEW t \in Int
  PROVE  Sum([i \in 1 .. Len(s) |-> (c * s[i] - t) * (c * s[i] - t)])
           = (c * c) * Sum([i \in 1 .. Len(s) |-> s[i] * s[i]]) - (2 * (c * t)) * Sum(s)
             + Len(s) * (t * t)
<1> DEFINE m == Len(s)
           squares == [i \in 1 .. m |-> s[i] * s[i]]
           astray == [i \in 1 .. m |-> (c * s[i] - t) * (c * s[i] - t)]
<1>1. m \in Nat /\ \A i \in 1 .. m : s[i] \in Int
  OBVIOUS
<1>2. squares \in Seq(Int) /\ Len(squares) = m /\ \A i \in 1 .. m : squares[i] = s[i] * s[i]
  <2>1. \A i \in 1 .. m : s[i] * s[i] \in Int
    BY <1>1
  <2> HIDE DEF m
  <2>2. QED
    BY <1>1, <2>1
<1>3. /\ astray \in Seq(Int) /\ Len(astray) = m
      /\ \A i \in 1 .. m : astray[i] = (c * s[i] - t) * (c * s[i] - t)
  <2>1. \A i \in 1 .. m : (c * s[i] - t) * (c * s[i] - t) \in Int
    BY <1>1
  <2> HIDE DEF m
  <2>2. QED
    BY <1>1, <2>1
<1> HIDE DEF squares, astray
<1>4. PICK u \in [0 .. m -> Int] :
        u[0] = 0 /\ (\A i \in 1 .. m : u[i] = u[i - 1] + s[i]) /\ Sum(s) = u[m]
  BY RunningTotals
<1>5. PICK q \in [0 .. m -> Int] :
        u[0] = 0 /\ q[0] = 0 /\ (\A i \in 1 .. m : q[i] = q[i - 1] + squares[i]) /\ Sum(squares) = q[m]
  <2>1. PICK q \in [0 .. Len(squares) -> Int] :
          q[0] = 0 /\ (\A i \in 1 .. Len(squares) : q[i] = q[i - 1] + squares[i])
          /\ Sum(squares) = q[Len(squares)]
    BY <1>2, RunningTotals
  <2>2. QED
    BY <1>2, <1>4, <2>1
<1> HIDE DEF m
<1> DEFINE a == c * c
           b == 2 * (c * t)
           d == t * t
           total == [i \in 0 .. m |-> a * q[i] - b * u[i] + i * d]
<1>6. a \in Int /\ b \in Int /\ d \in Int
  OBVIOUS
<1>7. ASSUME NEW x \in Int PROVE (c * x - t) * (c * x - t) = a * (x * x) - b * x + d
  <2>1. (c * x - t) * (c * x - t) = (c * x) * (c * x) - 2 * ((c * x) * t) + t * t
    <3>1. c * x \in Int
      BY <1>7
    <3>2. QED
      BY <3>1, SquareOfDifference
  <2>2. (c * x) * (c * x) = (c * c) * (x * x)
    BY <1>7
  <2>3. 2 * ((c * x) * t) = (2 * (c * t)) * x
    BY <1>7
  <2>4. QED
    BY <2>1, <2>2, <2>3, Zenon
<1> HIDE DEF a, b, d
<1>8. total[0] = 0
  BY <1>1, <1>4, <1>5, <1>6
<1>9. ASSUME NEW i \in 1 .. m PROVE total[i] = total[i - 1] + astray[i]
  <2>1. i \in 0 .. m /\ i - 1 \in 0 .. m /\ i \in Int
    BY <1>1
  <2>2. total[i] = a * q[i] - b * u[i] + i * d
        /\ total[i - 1] = a * q[i - 1] - b * u[i - 1] + (i - 1) * d
    BY <2>1
  <2> HIDE DEF total
  <2>3. q[i] = q[i - 1] + s[i] * s[i] /\ u[i] = u[i - 1] + s[i]
    BY <1>2, <1>4, <1>5
  <2>4. astray[i] = a * (s[i] * s[i]) - b * s[i] + d
    BY <1>1, <1>3, <1>7
  <2>5. q[i - 1] \in Int /\ u[i - 1] \in Int /\ s[i] \in Int /\ s[i] * s[i] \in Int
    BY <1>1, <2>1
  <2>6. /\ a * (q[i - 1] + s[i] * s[i]) = a * q[i - 1] + a * (s[i] * s[i])
        /\ a * q[i - 1] \in Int /\ a * (s[i] * s[i]) \in Int
    BY <1>6, <2>5, Multiplied, Zenon
  <2>7. /\ b * (u[i - 1] + s[i]) = b * u[i - 1] + b * s[i]
        /\ b * u[i - 1] \in Int /\ b * s[i] \in Int
    BY <1>6, <2>5, Multiplied, Zenon
  <2>8. i * d = (i - 1) * d + d /\ (i - 1) * d \in Int
    BY <1>6, <2>1
  <2> DEFINE aq == a * q[i - 1]
             ax == a * (s[i] * s[i])
             bu == b * u[i - 1]
             by == b * s[i]
             less == (i - 1) * d
  <2>9. aq \in Int /\ ax \in Int /\ bu \in Int /\ by \in Int /\ less \in Int
    BY <2>6, <2>7, <2>8
  <2>10. (aq + ax) - (bu + by) + (less + d) = (aq - bu + less) + (ax - by + d)
    <3> HIDE DEF aq, ax, bu, by, less
    <3>1. QED
      BY <1>6, <2>9
  <2>11. QED
    BY <2>2, <2>3, <2>4, <2>6, <2>7, <2>8, <2>10, Zenon
<1>10. total[m] = a * q[m] - b * u[m] + m * d
  BY <1>1
<1> HIDE DEF total
<1>11. Sum(astray) = total[m]
  BY <1>3, <1>8, <1>9, SumIs
<1>12. QED
  BY <1>4, <1>5, <1>10, <1>11, Zenon DEF a, b, d, m, squares, astray

LEMMA TimesKeepsOrder ==
  ASSUME NEW w \in Nat \ {0}, NEW a \in Int, NEW b \in Int
  PROVE  w * a < w * b <=> a < b
<1>1. ASSUME NEW x \in Int, NEW y \in Int, x < y PROVE w * x < w * y
  <2>1. y - x \in Nat \ {0}
    BY <1>1
  <2>2. \A k \in Nat \ {0} : w * k > 0
    OBVIOUS
  <2>3. w * (y - x) > 0
    BY <2>1, <2>2
  <2>4. w * (y - x) = w * y - w * x
    OBVIOUS
  <2>5. w * y \in Int /\ w * x \in Int
    OBVIOUS
  <2>6. QED
    BY <2>3, <2>4, <2>5
<1>2. CASE a < b
  BY <1>1, <1>2
<1>3. CASE b < a
  <2>1. w * b < w * a /\ w * a \in Int /\ w * b \in Int
    BY <1>1, <1>3
  <2>2. QED
    BY <1>3, <2>1
<1>4. CASE a = b
  <2>1. w * a \in Int /\ w * a = w * b
    BY <1>4
  <2>2. QED
    BY <1>4, <2>1
<1>5. QED
  BY <1>2, <1>3, <1>4

(* fabrication.py, MD-I5: the variance as the code's library takes it, from *)
(* the squares, is below the floor exactly when the closes stray from their *)
(* mean by less.                                                           *)
LEMMA VarianceIsDeviation ==
  ASSUME NEW s \in Seq(Int), NEW w \in Nat \ {0}, Len(s) = w, NEW floor \in Nat
  PROVE  Sum([i \in 1 .. w |-> (w * s[i] - Sum(s)) * (w * s[i] - Sum(s))]) < floor * w * w * w
           <=> ~(w * Sum([i \in 1 .. w |-> s[i] * s[i]]) - Sum(s) * Sum(s) >= floor * w * w)
<1> DEFINE t == Sum(s)
           q == Sum([i \in 1 .. w |-> s[i] * s[i]])
           e == Sum([i \in 1 .. w |-> (w * s[i] - t) * (w * s[i] - t)])
<1>1. t \in Int
  BY SumIsInt
<1>2. q \in Int
  <2>1. \A i \in 1 .. w : s[i] * s[i] \in Int
    <3>1. \A i \in 1 .. w : s[i] \in Int
      OBVIOUS
    <3>2. QED
      BY <3>1
  <2>2. [i \in 1 .. w |-> s[i] * s[i]] \in Seq(Int)
    BY <2>1
  <2>3. QED
    BY <2>2, SumIsInt
<1>3. e = (w * w) * q - (2 * (w * t)) * t + w * (t * t)
  <2>1. w \in Int
    OBVIOUS
  <2>2. Sum([i \in 1 .. Len(s) |-> (w * s[i] - t) * (w * s[i] - t)])
          = (w * w) * Sum([i \in 1 .. Len(s) |-> s[i] * s[i]]) - (2 * (w * t)) * Sum(s)
            + Len(s) * (t * t)
    <3> HIDE DEF t, q, e
    <3>1. QED
      BY <1>1, <2>1, SumOfSquares, Zenon
  <2>3. QED
    BY <2>2, Zenon
<1> HIDE DEF t, q, e
<1>4. e = w * (w * q - t * t)
  <2>1. \A ww, qq, tt \in Int :
          (ww * ww) * qq - (2 * (ww * tt)) * tt + ww * (tt * tt) = ww * (ww * qq - tt * tt)
    OBVIOUS
  <2>2. QED
    BY <1>1, <1>2, <1>3, <2>1
<1>5. floor * w * w * w = w * (floor * w * w)
  OBVIOUS
<1>6. w * q - t * t \in Int /\ floor * w * w \in Int
  BY <1>1, <1>2
<1>7. w * (w * q - t * t) < w * (floor * w * w) <=> w * q - t * t < floor * w * w
  BY <1>6, TimesKeepsOrder
<1>8. w * q - t * t < floor * w * w <=> ~(w * q - t * t >= floor * w * w)
  BY <1>6
<1>9. e < floor * w * w * w <=> ~(w * q - t * t >= floor * w * w)
  BY <1>4, <1>5, <1>7, <1>8, Zenon
<1>10. QED
  BY <1>9, Zenon DEF e, q, t

-----------------------------------------------------------------------------
(* The checks of a packed series                                           *)

LEMMA Leasts ==
  ASSUME NEW S, S \subseteq Nat, S # {}
  PROVE  Min(S) \in S /\ \A k \in S : Min(S) <= k
<1>1. \E x \in S : \A k \in S : x <= k
  BY Least
<1>2. Min(S) = CHOOSE x \in S : \A k \in S : x <= k
  BY DEF Min
<1>3. QED
  BY <1>1, <1>2, Zenon

LEMMA Greatests ==
  ASSUME NEW m \in Nat, NEW S, S \subseteq 0 .. m, S # {}
  PROVE  Max(S) \in S /\ \A k \in S : k <= Max(S)
<1> DEFINE T == {k + 1 : k \in S}
<1>1. T \subseteq 1 .. m + 1 /\ T # {} /\ m + 1 \in Nat
  <2>1. \A k \in S : k + 1 \in 1 .. m + 1
    OBVIOUS
  <2>2. PICK k \in S : TRUE
    OBVIOUS
  <2>3. k + 1 \in T
    OBVIOUS
  <2>4. QED
    BY <2>1, <2>3
<1>2. PICK x \in T : \A k \in T : k <= x
  <2> HIDE DEF T
  <2>1. QED
    BY <1>1, Greatest
<1>3. x - 1 \in S /\ \A k \in S : k <= x - 1
  <2>1. PICK y \in S : x = y + 1
    BY <1>2
  <2>2. ASSUME NEW k \in S PROVE k <= y
    <3>1. k + 1 <= y + 1
      BY <1>2, <2>1
    <3>2. k \in Int /\ y \in Int
      OBVIOUS
    <3>3. QED
      BY <3>1, <3>2
  <2>3. x - 1 = y
    BY <2>1
  <2>4. QED
    BY <2>2, <2>3
<1>4. Max(S) = CHOOSE z \in S : \A k \in S : k <= z
  BY DEF Max
<1>5. QED
  BY <1>3, <1>4

(* MD-I5 accuses exactly the series with a degenerate window, and does not *)
(* judge one that has none.                                                *)
LEMMA DegenerateIsSeen ==
  ASSUME feed \in Seq(BarRecord), invariant \in Invariants
  PROVE  /\ check_md_i5_degenerate(feed, invariant, {}) = "FAIL" <=> Degenerate
         /\ check_md_i5_degenerate(feed, invariant, {}) = "UNKNOWN"
              <=> Len(feed) < invariant.variance_window
<1> DEFINE closes == Closes(feed)
           w == invariant.variance_window
           floor == invariant.min_expected_variance
<1>1. w \in Nat \ {0} /\ floor \in Nat
  BY MarketAssumption
<1>2. closes \in Seq(Int) /\ Len(closes) = Len(feed) /\ Len(feed) \in Nat
  <2>1. /\ Len(feed) \in Nat /\ DOMAIN feed = 1 .. Len(feed)
        /\ \A i \in 1 .. Len(feed) : feed[i] \in BarRecord
    OBVIOUS
  <2>2. \A i \in 1 .. Len(feed) : feed[i].shape.close \in Int
    BY <2>1, MarketAssumption DEF BarRecord, Printed
  <2>3. closes = [i \in 1 .. Len(feed) |-> feed[i].shape.close]
    BY <2>1 DEF Closes
  <2> HIDE DEF closes
  <2>4. QED
    BY <2>1, <2>2, <2>3
<1> HIDE DEF closes, w, floor
<1>3. ASSUME NEW start \in 1 .. Len(feed) - w + 1
      PROVE  LET close == SubSeq(closes, start, start + w - 1)
                 astray == [i \in 1 .. w |-> w * close[i] - Sum(close)]
             IN  Sum([i \in 1 .. w |-> astray[i] * astray[i]]) < floor * w * w * w
                   <=> ~(ScaledVariance(closes, start, w) >= floor * w * w)
  <2> DEFINE close == SubSeq(closes, start, start + w - 1)
             astray == [i \in 1 .. w |-> w * close[i] - Sum(close)]
  <2>1. close \in Seq(Int) /\ Len(close) = w
    BY <1>1, <1>2
  <2>2. ScaledVariance(closes, start, w)
          = w * Sum([i \in 1 .. w |-> close[i] * close[i]]) - Sum(close) * Sum(close)
    BY DEF ScaledVariance
  <2>3. [i \in 1 .. w |-> astray[i] * astray[i]]
          = [i \in 1 .. w |-> (w * close[i] - Sum(close)) * (w * close[i] - Sum(close))]
    OBVIOUS
  <2> HIDE DEF close, astray
  <2>4. Sum([i \in 1 .. w |-> astray[i] * astray[i]]) < floor * w * w * w
          <=> ~(ScaledVariance(closes, start, w) >= floor * w * w)
    BY <1>1, <2>1, <2>2, <2>3, VarianceIsDeviation
  <2>5. QED
    BY <2>4, Zenon DEF close, astray
<1>4. Degenerate <=> \E start \in 1 .. Len(feed) - w + 1 :
                       Real(feed, start, w) /\ ~(ScaledVariance(closes, start, w) >= floor * w * w)
  BY <1>3, Zenon DEF Degenerate, closes, w, floor
<1>5. CASE Len(feed) < w
  <2>1. 1 .. Len(feed) - w + 1 = {}
    BY <1>1, <1>2, <1>5
  <2>2. check_md_i5_degenerate(feed, invariant, {}) = "UNKNOWN"
    BY <1>2, <1>5 DEF check_md_i5_degenerate, WhenDeclared, closes, w
  <2>3. QED
    BY <1>4, <1>5, <2>1, <2>2 DEF w
<1>6. CASE ~(Len(feed) < w)
  <2>1. check_md_i5_degenerate(feed, invariant, {}) =
          IF \A start \in 1 .. Len(feed) - w + 1 :
               Real(feed, start, w) => ScaledVariance(closes, start, w) >= floor * w * w
          THEN "PASS" ELSE "FAIL"
    <3>1. Starts(closes, w) = 1 .. Len(feed) - w + 1
      BY <1>2, Zenon DEF Starts
    <3>2. check_md_i5_degenerate(feed, invariant, {}) =
            WhenDeclared({}, {"min_expected_variance", "variance_window"},
              \A start \in Starts(closes, w) :
                Real(feed, start, w) => ScaledVariance(closes, start, w) >= floor * w * w)
      <4>1. ~(Len(closes) < w)
        BY <1>2, <1>6
      <4>2. {} \cup {} = {}
        OBVIOUS
      <4>3. QED
        BY <4>1, <4>2, Zenon DEF check_md_i5_degenerate, closes, w, floor
    <3>3. QED
      BY <3>1, <3>2 DEF WhenDeclared
  <2>2. QED
    BY <1>4, <1>6, <2>1 DEF w
<1>7. QED
  BY <1>5, <1>6

(* MD-I7 keeps the first index of a block only, and finds every two disjoint *)
(* runs that repeat all the same, if the length declared is positive.      *)
LEMMA RepetitionIsSeen ==
  ASSUME feed \in Seq(BarRecord), invariant \in Invariants
  PROVE  RepeatsABlock(feed, invariant.duplicate_block_min_len)
           <=> invariant.duplicate_block_min_len > 0 /\ Repeated
<1> DEFINE k == invariant.duplicate_block_min_len
<1>1. k \in Int /\ Len(feed) \in Nat
  BY MarketAssumption
<1> HIDE DEF k
<1>2. ASSUME k > 0, NEW i \in 1 .. Len(feed) - k + 1
      PROVE  /\ Kept(feed, i, k) \in 1 .. i
             /\ Kept(feed, i, k) = i \/ Matches(feed, Kept(feed, i, k), i, k)
             /\ \A j \in 1 .. i : Matches(feed, j, i, k) => Kept(feed, i, k) <= j
  <2> DEFINE S == {i} \cup {j \in 1 .. i : Matches(feed, j, i, k)}
  <2>1. S \subseteq Nat /\ S # {} /\ S \subseteq 1 .. i
    BY <1>1
  <2>2. Min(S) \in S /\ \A j \in S : Min(S) <= j
    <3> HIDE DEF S
    <3>1. QED
      BY <2>1, Leasts
  <2>3. Kept(feed, i, k) = Min(S)
    BY DEF Kept
  <2>4. QED
    BY <2>1, <2>2, <2>3
<1>3. ASSUME RepeatsABlock(feed, k) PROVE k > 0 /\ Repeated
  <2>1. PICK j \in 1 .. Len(feed) - k + 1 : j >= Kept(feed, j, k) + k
    BY <1>3 DEF RepeatsABlock
  <2> DEFINE i == Kept(feed, j, k)
  <2>2. k > 0
    BY <1>3 DEF RepeatsABlock
  <2>3. i \in 1 .. j /\ (i = j \/ Matches(feed, i, j, k))
    BY <1>2, <2>2
  <2> HIDE DEF i
  <2>4. i \in 1 .. Len(feed) - k + 1 /\ i + k <= j /\ k \in 1 .. Len(feed) /\ k >= k /\ i # j
    BY <1>1, <2>1, <2>2, <2>3 DEF i
  <2>5. \A n \in 0 .. k - 1 : SameBar(feed[i + n].shape, feed[j + n].shape)
    BY <2>3, <2>4 DEF Matches
  <2>6. QED
    BY <2>2, <2>4, <2>5 DEF Repeated, k
<1>4. ASSUME k > 0, Repeated PROVE RepeatsABlock(feed, k)
  <2>1. PICK l \in 1 .. Len(feed) :
          /\ l >= k
          /\ \E i, j \in 1 .. Len(feed) - l + 1 :
               i + l <= j /\ \A n \in 0 .. l - 1 : SameBar(feed[i + n].shape, feed[j + n].shape)
    BY <1>4 DEF Repeated, k
  <2>2. PICK i \in 1 .. Len(feed) - l + 1, j \in 1 .. Len(feed) - l + 1 :
          i + l <= j /\ \A n \in 0 .. l - 1 : SameBar(feed[i + n].shape, feed[j + n].shape)
    BY <2>1
  <2>3. /\ l \in Nat /\ k <= l /\ i \in 1 .. j /\ j \in 1 .. Len(feed) - k + 1
        /\ Len(feed) >= 2 * k /\ i \in Nat /\ j \in Nat
    BY <1>1, <1>4, <2>1, <2>2
  <2>4. Matches(feed, i, j, k)
    <3>1. \A n \in 0 .. k - 1 : n \in 0 .. l - 1
      BY <1>1, <2>3
    <3>2. QED
      BY <2>2, <3>1 DEF Matches
  <2>5. Kept(feed, j, k) <= i /\ Kept(feed, j, k) \in 1 .. j
    BY <1>2, <1>4, <2>3, <2>4
  <2>6. j >= Kept(feed, j, k) + k
    BY <1>1, <2>2, <2>3, <2>5
  <2>7. QED
    BY <1>4, <2>3, <2>6 DEF RepeatsABlock
<1>5. QED
  BY <1>3, <1>4 DEF k

LEMMA PackedIsAccusedExactly == MarketInv => AccusedExactly
<1> SUFFICES ASSUME MarketInv, phase = "packed"
             PROVE  detect_fabricated_market_data({}) =
                      IF Culpable THEN "FAIL"
                      ELSE IF invariant.calendar_known /\ Len(feed) >= invariant.variance_window
                        THEN "PASS" ELSE "UNKNOWN"
  BY DEF AccusedExactly
<1>1. /\ feed \in Seq(BarRecord) /\ invariant \in Invariants /\ FaultsShow
      /\ session - 1 = Sessions /\ Days(feed) \subseteq 0 .. Sessions
  BY MarketAssumption DEF MarketInv
<1>2. detect_fabricated_market_data({}) = worst_verdict(SeriesVerdicts({}))
  BY DEF detect_fabricated_market_data, SeriesVerdicts
<1>3. /\ check_md_i4_ohlc(feed) = "FAIL" <=> "misprint" \in faults
      /\ check_md_i4_ohlc(feed) # "UNKNOWN"
  <2>1. \A i \in DOMAIN feed : feed[i].shape \in Misprints <=> ~Sane(feed[i].shape)
    <3>1. \A i \in DOMAIN feed : feed[i] \in BarRecord
      BY <1>1
    <3>2. \A i \in DOMAIN feed : feed[i].shape \in Printed
      BY <3>1 DEF BarRecord
    <3>3. QED
      BY <3>2, MisprintsShow DEF Printed
  <2>2. "misprint" \in faults <=> \E i \in DOMAIN feed : ~Sane(feed[i].shape)
    BY <1>1, <2>1 DEF FaultsShow, Misprinted
  <2>3. QED
    BY <2>2 DEF check_md_i4_ohlc, WhenDeclared
<1>4. /\ check_md_i5_degenerate(feed, invariant, {}) = "FAIL" <=> Degenerate
      /\ check_md_i5_degenerate(feed, invariant, {}) = "UNKNOWN"
           <=> ~(Len(feed) >= invariant.variance_window)
  <2>1. Len(feed) \in Nat /\ invariant.variance_window \in Nat
    BY <1>1, MarketAssumption
  <2>2. QED
    BY <1>1, <2>1, DegenerateIsSeen
<1>5. /\ check_md_i7_duplicate_block(feed, invariant, {}) = "FAIL"
           <=> /\ ~invariant.allows_repeated_bars
               /\ invariant.duplicate_block_min_len > 0 /\ Repeated
      /\ check_md_i7_duplicate_block(feed, invariant, {}) # "UNKNOWN"
  BY <1>1, RepetitionIsSeen DEF check_md_i7_duplicate_block, WhenDeclared
<1>6. check_md_p1_provenance({}) = "PASS"
  BY DEF check_md_p1_provenance, WhenDeclared
<1>7. /\ check_md_i1_digest(snapshot, {}) = "FAIL" <=> "snapshot" \in faults
      /\ check_md_i1_digest(snapshot, {}) # "UNKNOWN"
  BY <1>1 DEF check_md_i1_digest, WhenDeclared, FaultsShow
<1>8. /\ check_md_i2_snapshot_exists(snapshot, {}) = "FAIL" => "snapshot" \in faults
      /\ check_md_i2_snapshot_exists(snapshot, {}) # "UNKNOWN"
  BY <1>1 DEF check_md_i2_snapshot_exists, WhenDeclared, FaultsShow
<1>9. /\ check_md_i6_calendar(feed, gaps, invariant, {}) = "FAIL"
           <=> invariant.calendar_known /\ ("lost" \in faults \/ "outside" \in faults)
      /\ check_md_i6_calendar(feed, gaps, invariant, {}) = "UNKNOWN" <=> ~invariant.calendar_known
  <2>1. "lost" \in faults <=> ~((1 .. Sessions) \ Days(feed) \subseteq gaps)
    BY <1>1 DEF FaultsShow
  <2>2. "outside" \in faults <=> ~(Days(feed) \subseteq 1 .. Sessions)
    BY <1>1, MarketAssumption DEF FaultsShow, Holiday
  <2>3. QED
    BY <2>1, <2>2 DEF check_md_i6_calendar, WhenDeclared
<1>10. /\ check_md_i3_coverage(invariant, {}) = "FAIL" <=> ~Covers(invariant)
       /\ check_md_i3_coverage(invariant, {}) # "UNKNOWN"
  BY DEF check_md_i3_coverage, WhenDeclared
<1>11. "FAIL" \in SeriesVerdicts({}) <=> Culpable
  BY <1>3, <1>4, <1>5, <1>6, <1>7, <1>8, <1>9, <1>10 DEF SeriesVerdicts, Culpable
<1>12. "UNKNOWN" \in SeriesVerdicts({})
         <=> ~(invariant.calendar_known /\ Len(feed) >= invariant.variance_window)
  BY <1>3, <1>4, <1>5, <1>6, <1>7, <1>8, <1>9, <1>10 DEF SeriesVerdicts
<1>13. SeriesVerdicts({}) # {}
  BY <1>6 DEF SeriesVerdicts
<1>14. worst_verdict(SeriesVerdicts({})) =
         IF "FAIL" \in SeriesVerdicts({}) THEN "FAIL"
         ELSE IF "UNKNOWN" \in SeriesVerdicts({}) THEN "UNKNOWN" ELSE "PASS"
  BY <1>13, Zenon DEF worst_verdict
<1>15. CASE Culpable
  BY <1>2, <1>11, <1>14, <1>15
<1>16. CASE ~Culpable
  <2>1. detect_fabricated_market_data({}) =
          IF "UNKNOWN" \in SeriesVerdicts({}) THEN "UNKNOWN" ELSE "PASS"
    BY <1>2, <1>11, <1>14, <1>16
  <2>2. QED
    BY <1>12, <1>16, <2>1
<1>17. QED
  BY <1>15, <1>16

(* fabrication.py, the MD checks: of a pack that declares everything, the  *)
(* verdict is FAIL exactly when a session was lost or a bar dated outside a *)
(* calendar that is known, a bar was misprinted in numbers, the snapshot    *)
(* changed, the coverage declared falls short, or the closes or blocks break*)
(* what was declared of the instrument; UNKNOWN exactly when that is not so *)
(* and the calendar is unknown or the bars are too few; and PASS otherwise: *)
(* whatever the series, infinite and NaN bars among it, and its pack.       *)
THEOREM AccusedIffSo == FabricationSpec => []AccusedExactly
  BY PackedIsAccusedExactly, MarketIsKept, PTL

=============================================================================
