--------------------------------- MODULE Series ---------------------------------
(***************************************************************************)
(* Swing and Roll together, as tests/test_roll.py runs them and a live     *)
(* system would: the detector reads the bars of one market, or it reads the*)
(* continuous series, which is built anew as of every bar.                 *)
(*                                                                         *)
(* A ratio leaves fractions behind, which Swing does not compute with; the *)
(* detector is not run on that join.                                       *)
(***************************************************************************)
EXTENDS Roll, Swing

NoRoll ==
  /\ series = <<>> /\ schedule = <<>> /\ adjustment = "none" /\ pc = "none"
  /\ answer = "none" /\ as_of = -1 /\ built = <<>>

SeriesInit == SwingInit /\ (RollInit \/ NoRoll)

FromMarket == pc = "none" /\ Arrive /\ UNCHANGED roll_vars

Prepare == (Validate \/ Measure) /\ UNCHANGED swing_vars

AsBars(prices) == [n \in DOMAIN prices |-> [high |-> prices[n].num, low |-> prices[n].num]]

FromContracts ==
  /\ Build
  /\ IF adjustment = "ratio_back_adjusted" THEN UNCHANGED <<bars, swings>>
     ELSE bars' = AsBars(built') /\ swings' = detect(bars', definition)
  /\ UNCHANGED definition

SeriesNext == FromMarket \/ Prepare \/ FromContracts

SeriesSpec == SeriesInit /\ [][SeriesNext]_<<roll_vars, swing_vars>>

-----------------------------------------------------------------------------
(* Properties                                                              *)

(* The joins a detector may stand on: those that never move a bar, and any *)
(* other the measurement let through on a probe whose last roll has a gap. *)
Steady ==
  \/ adjustment \in {"none", "raw_splice", "forward_adjusted"}
  \/ answer = "usable" /\ HasGap(series, schedule, Last(schedule))

(* swing.py:19-22 and R6 of UPTM-014: a swing once reported is never       *)
(* withdrawn, moved or labelled otherwise, whether bars arrive or a roll   *)
(* makes the whole series anew.                                            *)
NothingRevised == [][Steady => OnlyAdds]_bars

=============================================================================
