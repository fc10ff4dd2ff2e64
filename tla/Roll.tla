---------------------------------- MODULE Roll ----------------------------------
(***************************************************************************)
(* runner/roll.py: the continuous series joined from futures contracts.    *)
(*                                                                         *)
(* A schedule is made, validated, and the join measured on the contracts'  *)
(* history as a probe.  Then the series is built as of every bar in turn,  *)
(* as a live system would, and each is compared with the one before.       *)
(* Bars are counted from 0, as in the source; a series of n bars is a      *)
(* sequence whose element i + 1 is bar i.  A bar is its one price: high and*)
(* low move together.                                                      *)
(***************************************************************************)
EXTENDS Integers, Sequences, FiniteSets, SequencesExt, Functions

CONSTANTS
  Ordered,      \* the contracts in the order they expire
  Prices,       \* positive integers
  Horizon,      \* the bars there are: 0 .. Horizon
  Offsets       \* days before expiry at which to roll

ASSUME RollAssumption ==
  /\ Ordered \in Seq(Range(Ordered)) /\ IsInjective(Ordered) /\ Ordered # <<>>
  /\ Prices \subseteq Nat \ {0} /\ Horizon \in Nat /\ Offsets \subseteq Nat

Moments == 0 .. Horizon
Adjustments == {"raw_splice", "forward_adjusted", "back_adjusted", "ratio_back_adjusted"}

VARIABLES
  series,      \* contract -> bar -> price
  schedule,    \* sequence of [starts_at, contract]
  adjustment,
  pc,
  answer,      \* of may_use: usable, refused or uninformative
  as_of,
  built        \* the continuous series as of as_of

roll_vars == <<series, schedule, adjustment, pc, answer, as_of, built>>

-----------------------------------------------------------------------------
(* The schedule                                                            *)

(* Each contract is front from roll_offset before the one ahead of it      *)
(* expires, never before bar 0.                                            *)
calendar_schedule(expiries, roll_offset) ==
  [n \in 1 .. Len(Ordered) |->
     [contract |-> Ordered[n],
      starts_at |-> IF n = 1 \/ expiries[n - 1] < roll_offset THEN 0
                    ELSE expiries[n - 1] - roll_offset]]

validate(sch) ==
  /\ sch # <<>> /\ sch[1].starts_at = 0
  /\ \A n \in 2 .. Len(sch) : sch[n - 1].starts_at < sch[n].starts_at

(* The segment in charge of a bar: the last of those that have started.    *)
front_contract(sch, index) ==
  LET started == {n \in 2 .. Len(sch) : \A k \in 2 .. n : sch[k].starts_at <= index}
  IN  sch[CHOOSE n \in started \cup {1} : \A k \in started : k <= n].contract

(* The segments a roll starts, by their place in the schedule.             *)
Rolls(sch, until) == {k \in DOMAIN sch : 0 < sch[k].starts_at /\ sch[k].starts_at <= until}

(* Both contracts' prices on the bar the new one takes over.               *)
Seam(ser, sch, roll) ==
  [old |-> ser[front_contract(sch, roll.starts_at - 1)][roll.starts_at],
   new |-> ser[roll.contract][roll.starts_at]]

-----------------------------------------------------------------------------
(* The join.  A price is a fraction, so that a ratio stays exact.          *)

Shift(p, offset) == [num |-> p.num + offset * p.den, den |-> p.den]
Scale(p, new, old) == [num |-> p.num * new, den |-> p.den * old]
SamePrice(p, q) == p.num * q.den = q.num * p.den

Same(one, other) ==
  Len(one) = Len(other) /\ \A n \in DOMAIN one : SamePrice(one[n], other[n])

Raw(ser, sch, until) ==
  [n \in 1 .. until + 1 |-> [num |-> ser[front_contract(sch, n - 1)][n - 1], den |-> 1]]

(* Mutant: the seams of every roll so far go into every bar.               *)
Forward_Backdated(ser, sch, bars, rolls) ==
  [n \in DOMAIN bars |->
     LET bar[k \in 0 .. Len(sch)] ==
           IF k = 0 THEN bars[n]
           ELSE IF k \notin rolls THEN bar[k - 1]
           ELSE LET seam == Seam(ser, sch, sch[k]) IN Shift(bar[k - 1], seam.old - seam.new)
     IN  bar[Len(sch)]]

(* Every seam is accumulated into what comes after it.                     *)
Forward(ser, sch, bars, rolls) ==
  [n \in DOMAIN bars |->
     LET bar[k \in 0 .. Len(sch)] ==
           IF k = 0 THEN bars[n]
           ELSE IF k \notin rolls \/ n - 1 < sch[k].starts_at THEN bar[k - 1]
           ELSE LET seam == Seam(ser, sch, sch[k]) IN Shift(bar[k - 1], seam.old - seam.new)
     IN  bar[Len(sch)]]

(* Every roll reaches back over the bars before it.                        *)
Back(ser, sch, adj, bars, rolls) ==
  [n \in DOMAIN bars |->
     LET bar[k \in 0 .. Len(sch)] ==
           IF k = 0 THEN bars[n]
           ELSE IF k \notin rolls \/ n - 1 >= sch[k].starts_at THEN bar[k - 1]
           ELSE LET seam == Seam(ser, sch, sch[k])
                IN  IF adj = "back_adjusted" THEN Shift(bar[k - 1], seam.new - seam.old)
                    ELSE Scale(bar[k - 1], seam.new, seam.old)
     IN  bar[Len(sch)]]

build_continuous(ser, sch, adj, until) ==
  LET bars == Raw(ser, sch, until)
      rolls == Rolls(sch, until)
  IN  IF adj = "raw_splice" THEN bars
      ELSE IF adj = "forward_adjusted" THEN Forward(ser, sch, bars, rolls)
      ELSE Back(ser, sch, adj, bars, rolls)

-----------------------------------------------------------------------------
(* The measurement                                                         *)

HasGap(ser, sch, roll) == Seam(ser, sch, roll).old # Seam(ser, sch, roll).new

(* Mutant: the two moments are the same moment.                            *)
rewrites_history_OneMoment(ser, sch, adj) ==
  LET last == Last(sch).starts_at
      before == build_continuous(ser, sch, adj, last)
      after == build_continuous(ser, sch, adj, last)
  IN  ~Same(SubSeq(after, 1, Len(before)), before)

(* Build it just before the last roll and just after.                      *)
rewrites_history(ser, sch, adj) ==
  LET last == Last(sch).starts_at
      before == build_continuous(ser, sch, adj, last - 1)
      after == build_continuous(ser, sch, adj, last)
  IN  ~Same(SubSeq(after, 1, Len(before)), before)

(* UninformativeProbe unless some roll has a gap.                          *)
Informative(ser, sch) == \E k \in Rolls(sch, Horizon) : HasGap(ser, sch, sch[k])

may_use(ser, sch, adj) ==
  IF ~Informative(ser, sch) THEN "uninformative"
  ELSE IF rewrites_history(ser, sch, adj) THEN "refused" ELSE "usable"

-----------------------------------------------------------------------------

RollInit ==
  /\ series \in [Range(Ordered) -> [Moments -> Prices]]
  /\ \E expiries \in [1 .. Len(Ordered) -> Moments], offset \in Offsets :
       /\ \A n \in 2 .. Len(Ordered) : expiries[n - 1] <= expiries[n]
       /\ schedule = calendar_schedule(expiries, offset)
  /\ adjustment \in Adjustments
  /\ pc = "validate"
  /\ answer = "none"
  /\ as_of = -1
  /\ built = <<>>

Validate ==
  /\ pc = "validate"
  /\ pc' = IF validate(schedule) THEN "measure" ELSE "unusable"
  /\ UNCHANGED <<series, schedule, adjustment, answer, as_of, built>>

Measure ==
  /\ pc = "measure"
  /\ answer' = may_use(series, schedule, adjustment)
  /\ pc' = "live"
  /\ UNCHANGED <<series, schedule, adjustment, as_of, built>>

(* A bar goes by and the series is built again.                            *)
Build ==
  /\ pc = "live" /\ as_of < Horizon
  /\ as_of' = as_of + 1
  /\ built' = build_continuous(series, schedule, adjustment, as_of')
  /\ UNCHANGED <<series, schedule, adjustment, pc, answer>>

RollNext == Validate \/ Measure \/ Build

RollSpec == RollInit /\ [][RollNext]_roll_vars

-----------------------------------------------------------------------------
(* Properties                                                              *)

KeepsThePast == Same(SubSeq(built', 1, Len(built)), built)

(* "A bar, once emitted, is final": a raw splice and a forward adjustment  *)
(* never move a bar they built at an earlier moment.                       *)
EmittedBarsAreFinal ==
  [][(adjustment \in {"raw_splice", "forward_adjusted"}) => KeepsThePast]_roll_vars

(* What the measurement is worth: where the last roll has a gap, a join    *)
(* that may be used keeps every bar at every moment.                       *)
UsableWhenLastRollGaps ==
  [][answer = "usable" /\ HasGap(series, schedule, Last(schedule)) => KeepsThePast]_roll_vars

(* roll.py:218: "UPTM-012's invariant, applied to the series a detector    *)
(* would read": a join that may be used does not rewrite history.          *)
UsableNeverRewrites == [][answer = "usable" => KeepsThePast]_roll_vars

=============================================================================
