------------------------------- MODULE MarketData -------------------------------
(***************************************************************************)
(* The fabricated_market_data half of runner/detectors/fabrication.py: the *)
(* pack that says where a series of bars came from, and the eight checks   *)
(* made on it.                                                             *)
(*                                                                         *)
(* A feed delivers a bar for each session of the calendar, and may lose a  *)
(* session, misprint a bar, date one outside the calendar, or send a block *)
(* again.  Then the series is snapshotted and packed, and the pack, the    *)
(* snapshot and the declarations have time to part.                        *)
(***************************************************************************)
EXTENDS Sequences, SequencesExt, FiniteSetsExt, Sums, Verdicts

CONSTANTS
  Shapes,      \* bars as a market makes them: open, high, low, close, volume
  Misprints,   \* bars no market makes
  Unreal,      \* bars whose close and high are infinite, or are no number
  Invariants,  \* what packs declare: [min_expected_variance, variance_window,
               \*  duplicate_block_min_len, allows_repeated_bars,
               \*  calendar_known, coverage, computation_interval]
  Sessions,    \* bound: the days of the calendar
  MaxFaults    \* bound: what goes wrong with one series

Printed == Shapes \cup Misprints \cup Unreal

ASSUME MarketAssumption ==
  /\ Printed \subseteq
       [open: Int, high: Int, low: Int, close: Int, volume: Int,
        closes_at: {"number", "infinity", "nan"}]
  /\ Invariants \subseteq
       [min_expected_variance: Nat, variance_window: Nat \ {0},
        duplicate_block_min_len: Int, allows_repeated_bars: BOOLEAN,
        calendar_known: BOOLEAN, coverage: [first: Int, last: Int],
        computation_interval: [first: Int, last: Int]]
  /\ Sessions \in Nat \ {0}
  /\ MaxFaults \in Nat

Declarable ==
  {"source_id", "acquired_at_utc", "content_digest", "coverage", "snapshot_ref",
   "computation_interval", "min_expected_variance", "variance_window",
   "calendar_id", "duplicate_block_min_len", "allows_repeated_bars", "declared_gaps"}

(* A day that is not in the calendar.                                      *)
Holiday == 0

VARIABLES
  phase,       \* feeding, or packed
  feed,        \* the bars: [day, shape]
  session,     \* the session the market is in
  invariant,   \* what the pack declares of the instrument and the interval
  gaps,        \* declared_gaps
  snapshot,    \* the file: as digested, changed, or absent
  faults,      \* history: what went wrong
  faulted      \* bound

market == <<feed, session, gaps>>
market_vars == <<phase, market, invariant, snapshot, faults, faulted>>

MarketInit ==
  /\ phase = "feeding"
  /\ feed = <<>>
  /\ session = 1
  /\ invariant \in Invariants
  /\ gaps = {}
  /\ snapshot = "digested"
  /\ faults = {}
  /\ faulted = 0

-----------------------------------------------------------------------------
(* The feed                                                                *)

Faults(f) ==
  /\ faulted < MaxFaults
  /\ faulted' = faulted + 1
  /\ faults' = faults \cup f

Bar(day, shape) == [day |-> day, shape |-> shape]

Feeding == phase = "feeding" /\ UNCHANGED <<phase, invariant, snapshot>>

Deliver ==
  /\ Feeding /\ session <= Sessions
  /\ \E shape \in Shapes : feed' = Append(feed, Bar(session, shape))
  /\ session' = session + 1
  /\ UNCHANGED <<gaps, faults, faulted>>

(* A session goes by without a bar, whether or not a reason is declared.   *)
LoseSession ==
  /\ Feeding /\ session <= Sessions
  /\ session' = session + 1
  /\ UNCHANGED feed
  /\ \/ gaps' = gaps \cup {session} /\ UNCHANGED <<faults, faulted>>
     \/ Faults({"lost"}) /\ UNCHANGED gaps

Misprint ==
  /\ Feeding /\ session <= Sessions
  /\ \E shape \in Misprints \cup Unreal :
       /\ feed' = Append(feed, Bar(session, shape))
       /\ Faults(IF shape \in Unreal THEN {"unreal"} ELSE {"misprint"})
  /\ session' = session + 1
  /\ UNCHANGED gaps

OutsideCalendar ==
  /\ Feeding
  /\ \E shape \in Shapes : feed' = Append(feed, Bar(Holiday, shape))
  /\ Faults({"outside"})
  /\ UNCHANGED <<session, gaps>>

(* The last n bars come again, dated as the next n sessions.               *)
Replay ==
  /\ Feeding
  /\ \E n \in 1 .. Len(feed) :
       /\ session + n - 1 <= Sessions
       /\ feed' = feed \o [i \in 1 .. n |->
                             Bar(session + i - 1, feed[Len(feed) - n + i].shape)]
       /\ session' = session + n
  /\ Faults({"replay"})
  /\ UNCHANGED gaps

-----------------------------------------------------------------------------
(* The pack                                                                *)

Pack ==
  /\ phase = "feeding" /\ session > Sessions
  /\ phase' = "packed"
  /\ UNCHANGED <<market, invariant, snapshot, faults, faulted>>

SnapshotChanges ==
  /\ phase = "packed"
  /\ \E s \in {"changed", "absent"} : snapshot = "digested" /\ snapshot' = s
  /\ Faults({"snapshot"})
  /\ UNCHANGED <<phase, market, invariant>>

-----------------------------------------------------------------------------
(* The checks                                                              *)

check_md_p1_provenance(absent) ==
  WhenDeclared(absent, {"source_id", "acquired_at_utc", "content_digest", "coverage"}, TRUE)

check_md_i1_digest(file, absent) ==
  WhenDeclared(absent, {"content_digest", "snapshot_ref"}, file = "digested")

check_md_i2_snapshot_exists(file, absent) ==
  WhenDeclared(absent, {"snapshot_ref"}, file # "absent")

(* Two declarations are compared; the bars are not looked at.              *)
Covers(inv) ==
  /\ inv.coverage.first <= inv.computation_interval.first
  /\ inv.computation_interval.last <= inv.coverage.last

check_md_i3_coverage(inv, absent) ==
  WhenDeclared(absent, {"coverage", "computation_interval"}, Covers(inv))

(* What is infinite or NaN is not found to be out of order.                *)
Sane(s) ==
  /\ s.open > 0 /\ s.low > 0 /\ s.volume >= 0 /\ s.low <= s.open
  /\ s.closes_at = "number" =>
       /\ s.high > 0 /\ s.close > 0 /\ s.low <= s.close
       /\ s.open <= s.high /\ s.close <= s.high

ASSUME MisprintsShow ==
  /\ \A s \in Shapes : Sane(s) /\ s.closes_at = "number"
  /\ \A s \in Unreal : Sane(s) /\ s.closes_at # "number"
  /\ \A s \in Misprints : ~Sane(s)

check_md_i4_ohlc(series) ==
  WhenDeclared({}, {}, \A i \in DOMAIN series : Sane(series[i].shape))

(* statistics.pvariance of the n closes from start on, times n squared, so *)
(* that it stays an integer.                                               *)
ScaledVariance(closes, start, n) ==
  LET window == SubSeq(closes, start, start + n - 1)
      squares == [i \in 1 .. n |-> window[i] * window[i]]
      total == Sum(window)
  IN  n * Sum(squares) - total * total

Closes(series) == [i \in DOMAIN series |-> series[i].shape.close]

(* The variance of closes that are not all numbers is below nothing.       *)
Real(series, start, n) ==
  \A i \in start .. start + n - 1 : series[i].shape.closes_at = "number"

(* Mutant: the last window is left out.                                    *)
Starts_OffByOne(closes, window) == 1 .. Len(closes) - window

Starts(closes, window) == 1 .. Len(closes) - window + 1

check_md_i5_degenerate(series, inv, absent) ==
  LET closes == Closes(series)
      window == inv.variance_window
      few == IF Len(closes) < window THEN {"variance_window"} ELSE {}
  IN  WhenDeclared(absent \cup few, {"min_expected_variance", "variance_window"},
        \A start \in Starts(closes, window) :
          Real(series, start, window) =>
            ScaledVariance(closes, start, window)
              >= inv.min_expected_variance * window * window)

Days(series) == {series[i].day : i \in DOMAIN series}

(* A calendar the registry does not know is as good as none.               *)
check_md_i6_calendar(series, declared_gaps, inv, absent) ==
  LET listed == IF "declared_gaps" \in absent THEN {} ELSE declared_gaps
      unknown == IF inv.calendar_known THEN {} ELSE {"calendar_id"}
  IN  WhenDeclared(absent \cup unknown, {"calendar_id"},
        Days(series) \subseteq 1 .. Sessions /\ (1 .. Sessions) \ Days(series) \subseteq listed)

(* NaN is equal to nothing.                                                *)
SameBar(s, t) == s = t /\ s.closes_at # "nan"

(* Blocks of k are kept in a dictionary under their first index, and a     *)
(* later one is compared with that index only.                             *)
Matches(series, i, j, k) == \A n \in 0 .. k - 1 : SameBar(series[i + n].shape, series[j + n].shape)

Kept(series, i, k) == Min({i} \cup {j \in 1 .. i : Matches(series, j, i, k)})

(* A length that is not positive is too long for any series.               *)
RepeatsABlock(series, k) ==
  /\ k > 0 /\ Len(series) >= 2 * k
  /\ \E i \in 1 .. Len(series) - k + 1 : i >= Kept(series, i, k) + k

check_md_i7_duplicate_block(series, inv, absent) ==
  WhenDeclared(absent, {"duplicate_block_min_len", "allows_repeated_bars"},
    inv.allows_repeated_bars \/ ~RepeatsABlock(series, inv.duplicate_block_min_len))

(* The verdict on a pack that leaves absent out.                           *)
detect_fabricated_market_data(absent) ==
  worst_verdict(
    {check_md_i4_ohlc(feed), check_md_i5_degenerate(feed, invariant, absent),
     check_md_i7_duplicate_block(feed, invariant, absent), check_md_p1_provenance(absent),
     check_md_i1_digest(snapshot, absent),
     check_md_i2_snapshot_exists(snapshot, absent),
     check_md_i3_coverage(invariant, absent),
     check_md_i6_calendar(feed, gaps, invariant, absent)})

-----------------------------------------------------------------------------

MarketNext ==
  \/ Deliver \/ LoseSession \/ Misprint \/ OutsideCalendar \/ Replay
  \/ Pack \/ SnapshotChanges

MarketSpec == MarketInit /\ [][MarketNext]_market_vars

-----------------------------------------------------------------------------
(* Properties                                                              *)

(* UPTM-002 4: two disjoint equal runs of at least the declared length.    *)
Repeated ==
  \E k \in {n \in 1 .. Len(feed) : n >= invariant.duplicate_block_min_len} :
    \E i, j \in 1 .. Len(feed) - k + 1 :
      /\ i + k <= j
      /\ \A n \in 0 .. k - 1 : SameBar(feed[i + n].shape, feed[j + n].shape)

(* A window of numbers whose closes stray from their mean by less than the *)
(* floor, the mean and the deviations times the window's length.           *)
Degenerate ==
  LET w == invariant.variance_window IN
  \E start \in 1 .. Len(feed) - w + 1 :
    Real(feed, start, w) /\
    LET close == SubSeq(Closes(feed), start, start + w - 1)
        astray == [i \in 1 .. w |-> w * close[i] - Sum(close)]
    IN  Sum([i \in 1 .. w |-> astray[i] * astray[i]])
          < invariant.min_expected_variance * w * w * w

(* What there is to accuse a series of, as far as its pack gives the means *)
(* to tell: a calendar that is known, a block length that is positive.     *)
Culpable ==
  \/ faults \cap {"misprint", "snapshot"} # {}
  \/ invariant.calendar_known /\ faults \cap {"lost", "outside"} # {}
  \/ ~Covers(invariant)
  \/ Degenerate
  \/ ~invariant.allows_repeated_bars /\ invariant.duplicate_block_min_len > 0 /\ Repeated

(* A pack that declares everything fails exactly when the feed did         *)
(* something wrong that is a number, the snapshot is no longer the one     *)
(* digested, or what is declared is broken by the bars or by itself.  It is*)
(* denied unaccused when its calendar is unknown or the bars are too few to*)
(* measure, and passes otherwise.  What passes although it should not is   *)
(* in PricesAreFinite and BlocksAreCompared.                               *)
AccusedExactly ==
  phase = "packed" =>
    detect_fabricated_market_data({}) =
      IF Culpable THEN "FAIL"
      ELSE IF invariant.calendar_known /\ Len(feed) >= invariant.variance_window
        THEN "PASS" ELSE "UNKNOWN"

(* Leaving out what is asked for denies and does not accuse: no pack passes*)
(* without it, and a pack it is accused without is accused with.  Only gaps*)
(* that are not listed are taken for sessions that were lost.              *)
SeriesWithheld ==
  phase = "packed" =>
    \A d \in Declarable :
      LET left_out == detect_fabricated_market_data({d}) IN
      /\ d # "declared_gaps" => left_out # "PASS"
      /\ left_out = "FAIL" =>
           \/ detect_fabricated_market_data({}) = "FAIL"
           \/ d = "declared_gaps" /\ gaps # {} /\ invariant.calendar_known

(* UPTM-002 4, MD-I4: "all four finite and positive", "Violation -> FAIL". *)
PricesAreFinite ==
  phase = "packed" /\ "unreal" \in faults => detect_fabricated_market_data({}) = "FAIL"

(* UPTM-002 4, MD-I7: a series that repeats its bars and was not declared  *)
(* to is accused, whatever length it declares.                             *)
BlocksAreCompared ==
  phase = "packed" /\ ~invariant.allows_repeated_bars /\ Repeated
    => detect_fabricated_market_data({}) = "FAIL"

=============================================================================
