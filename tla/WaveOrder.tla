------------------------------- MODULE WaveOrder -------------------------------
(***************************************************************************)
(* What the runner promises of a programme of waves: waves are recorded    *)
(* one at a time in their order, the programme is complete exactly when    *)
(* the last one is, and it may halt at any moment before that, for good.   *)
(* Whoever holds it may pass over the wave it stands at, never go back.    *)
(***************************************************************************)
EXTENDS Integers

CONSTANT MaxWave

VARIABLES recorded, skipped, outcome

waveVars == <<recorded, skipped, outcome>>

Init == recorded = {} /\ skipped = {} /\ outcome = "open"

IsAt(w) == recorded \cup skipped = 0 .. w - 1

Record(w) ==
  /\ outcome = "open"
  /\ IsAt(w)
  /\ recorded' = recorded \cup {w}
  /\ outcome' = IF w = MaxWave THEN "complete" ELSE "open"
  /\ UNCHANGED skipped

Skip(w) ==
  /\ w < MaxWave /\ IsAt(w)
  /\ skipped' = skipped \cup {w}
  /\ UNCHANGED <<recorded, outcome>>

Halt ==
  /\ outcome = "open"
  /\ outcome' = "halted"
  /\ UNCHANGED <<recorded, skipped>>

Next == (\E w \in 0 .. MaxWave : Record(w) \/ Skip(w)) \/ Halt

Spec == Init /\ [][Next]_waveVars

=============================================================================
