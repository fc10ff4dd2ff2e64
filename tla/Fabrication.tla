------------------------------- MODULE Fabrication -------------------------------
(***************************************************************************)
(* runner/detectors/fabrication.py as the gate uses it: a submission holds *)
(* the pack of a trading run, or the pack of a series of market data, and  *)
(* each is made, tampered with and judged by itself.  A pack that is not in*)
(* the submission stays as it is.                                          *)
(***************************************************************************)
EXTENDS PnlLedger, MarketData

NoLedger ==
  /\ stage = "none" /\ moves = 0 /\ pack = <<>> /\ position = 0 /\ profit = 0
  /\ orphans = FALSE /\ altered = 0

NoMarket ==
  /\ phase = "none" /\ feed = <<>> /\ session = 1 /\ invariant = <<>> /\ gaps = {}
  /\ snapshot = "digested" /\ faults = {} /\ faulted = 0

FabricationInit == (Init /\ NoMarket) \/ (MarketInit /\ NoLedger)

FabricationNext ==
  \/ Next /\ UNCHANGED market_vars
  \/ MarketNext /\ UNCHANGED vars

FabricationSpec == FabricationInit /\ [][FabricationNext]_<<vars, market_vars>>

(* "UNKNOWN denies without accusing" (fabrication.py:51).  Whatever a pack *)
(* leaves out of what the checks ask for, no ledger and no series passes   *)
(* without it; and none is accused for leaving something out, but for the  *)
(* orders a run gated and the gaps of a series.                            *)
WithholdingOnlyDenies == LedgerWithheld /\ SeriesWithheld

=============================================================================
