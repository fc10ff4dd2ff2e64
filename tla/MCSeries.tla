------------------------------- MODULE MCSeries -------------------------------
EXTENDS Series

MCOrdered == <<"H", "M", "U">>

(* Prices of three levels, and a bar whose range spans two of them: the    *)
(* outside bar, which can be a pivot both ways.                            *)
MCBars == {[high |-> h, low |-> l] : <<h, l>> \in {<<1, 1>>, <<2, 2>>, <<3, 2>>, <<3, 1>>, <<4, 0>>}}

MCDefinitions ==
  {[pivot_bars |-> r, min_amplitude |-> a, amplitude_mode |-> m] :
     <<r, a, m>> \in {<<1, 0, "absolute">>, <<1, 20, "absolute">>, <<1, 5, "relative">>, <<2, 10, "absolute">>}}

=============================================================================
