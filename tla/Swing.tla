--------------------------------- MODULE Swing ---------------------------------
(***************************************************************************)
(* runner/swing.py: swings, and the moment each may be known.              *)
(*                                                                         *)
(* A market feed delivers bars one by one and the detector is run again on *)
(* everything seen so far, as a live system would.  Bars are counted from  *)
(* 1, so "at bar t" and "after t bars" are the same moment.                *)
(***************************************************************************)
EXTENDS Integers, Sequences, SequencesExt

CONSTANTS
  Bars,          \* records [high, low]
  Definitions,   \* [pivot_bars, min_amplitude, amplitude_mode]
  MaxBars        \* bound on the feed

ASSUME SwingAssumption ==
  /\ Bars \subseteq [high: Int, low: Int]
  /\ Definitions \subseteq
       [pivot_bars: Nat \ {0}, min_amplitude: Nat, amplitude_mode: {"absolute", "relative"}]
  /\ MaxBars \in Nat

VARIABLES
  bars, definition,
  swings   \* what the detector said when the last bar arrived

swing_vars == <<bars, definition, swings>>

Kinds == {"high", "low"}
Opposite(kind) == IF kind = "high" THEN "low" ELSE "high"

Price(bar, kind) == IF kind = "high" THEN bar.high ELSE bar.low

Abs(n) == IF n < 0 THEN -n ELSE n

(* min_amplitude counts tenths: of a point, or of the old price.           *)
moved_far_enough(d, previous, price) ==
  LET move == Abs(price - previous.price)
      unit == IF d.amplitude_mode = "relative" /\ previous.price # 0
                THEN Abs(previous.price) ELSE 1
  IN  10 * move >= d.min_amplitude * unit

(* Strictly beyond every bar within reach, on both sides.                  *)
is_pivot(b, index, reach, kind) ==
  /\ index - reach >= 1 /\ index + reach <= Len(b)
  /\ \A other \in (index - reach .. index + reach) \ {index} :
       IF kind = "high" THEN b[other].high < b[index].high
                        ELSE b[other].low > b[index].low

(* The latest swing of a kind, as a sequence of at most one.               *)
LastOf(kind, found) ==
  LET same == {n \in DOMAIN found : found[n].kind = kind}
  IN  IF same = {} THEN <<>> ELSE <<found[Max(same)]>>

(* Mutant: a better extreme of the same kind withdraws the last (ZigZag).  *)
Accept_ZigZag(found, swing) ==
  IF found # <<>> /\ Last(found).kind = swing.kind
    THEN Append(Front(found), swing) ELSE Append(found, swing)

(* Nothing is ever revised.                                                *)
Accept(found, swing) == Append(found, swing)

(* Mutant: a swing is known on its own bar.                                *)
SwingAt_Immediate(b, d, index, kind) ==
  [index |-> index, price |-> Price(b[index], kind), kind |-> kind, confirmed_at |-> index]

SwingAt(b, d, index, kind) ==
  [index |-> index, price |-> Price(b[index], kind), kind |-> kind,
   confirmed_at |-> index + d.pivot_bars]

(* One candidate: the n-th of high 1, low 1, high 2, low 2, ...            *)
Consider(b, d, found, n) ==
  LET index == (n + 1) \div 2
      kind == IF n % 2 = 1 THEN "high" ELSE "low"
      previous_opposite == LastOf(Opposite(kind), found)
  IN  IF /\ is_pivot(b, index, d.pivot_bars, kind)
         /\ previous_opposite # <<>> =>
              moved_far_enough(d, previous_opposite[1], Price(b[index], kind))
        THEN Accept(found, SwingAt(b, d, index, kind))
        ELSE found

detect(b, d) ==
  LET found[n \in 0 .. 2 * Len(b)] ==
        IF n = 0 THEN <<>> ELSE Consider(b, d, found[n - 1], n)
  IN  found[2 * Len(b)]

known_at(found, when) ==
  LET known[n \in 0 .. Len(found)] ==
        IF n = 0 THEN <<>>
        ELSE IF found[n].confirmed_at <= when THEN Append(known[n - 1], found[n])
        ELSE known[n - 1]
  IN  known[Len(found)]

(* Each swing against the previous one of its own kind.                    *)
label(found) ==
  [n \in DOMAIN found |->
     LET earlier == LastOf(found[n].kind, SubSeq(found, 1, n - 1))
     IN  IF earlier = <<>> \/ found[n].price = earlier[1].price THEN "none"
         ELSE IF found[n].price > earlier[1].price
           THEN IF found[n].kind = "high" THEN "HH" ELSE "HL"
           ELSE IF found[n].kind = "high" THEN "LH" ELSE "LL"]

-----------------------------------------------------------------------------

SwingInit ==
  /\ bars = <<>>
  /\ definition \in Definitions
  /\ swings = <<>>

(* The next bar, and the detector on the longer series.                    *)
Arrive ==
  /\ Len(bars) < MaxBars
  /\ \E bar \in Bars : bars' = Append(bars, bar)
  /\ swings' = detect(bars', definition)
  /\ UNCHANGED definition

SwingNext == Arrive

SwingSpec == SwingInit /\ [][SwingNext]_swing_vars

-----------------------------------------------------------------------------
(* Properties                                                              *)

(* swing.py:156-161: filtering by confirmed_at and truncating the bars give*)
(* the same answer, for every cut.  This is what makes a backtest on the   *)
(* whole series honest about what a live system saw.                       *)
CutsAgree ==
  \A when \in 0 .. Len(bars) :
    known_at(swings, when) = detect(SubSeq(bars, 1, when), definition)

(* "Nothing is ever revised": what bars add is at the end, in the order it *)
(* becomes known, and no old swing and no label of one changes.            *)
OnlyAdds ==
  /\ IsPrefix(swings, swings')
  /\ IsPrefix(label(swings), label(swings'))
  /\ \A n \in DOMAIN swings' \ DOMAIN swings : swings'[n].confirmed_at = Len(bars')

(* swing.py:113-116: the swing the amplitude is measured against was       *)
(* confirmed strictly earlier.                                             *)
MeasuredAgainstEarlier ==
  \A n \in DOMAIN swings :
    \A s \in Range(LastOf(Opposite(swings[n].kind), SubSeq(swings, 1, n - 1))) :
      s.confirmed_at < swings[n].confirmed_at

=============================================================================
