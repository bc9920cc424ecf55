------------------------------ MODULE CardsMC -------------------------------
(* Two days, two styles that take turns, two places.                        *)
EXTENDS Cards, TLC

MCStyles == <<"apple", "blue">>
MCSymmetry == Permutations(Quotes) \cup Permutations(Designs) \cup Permutations(Places)

\* The two cards share the clock and the event loop and no file: a behaviour
\* draws one of them.
MCOneCard == (\A d \in Days : quote[d] = {}) \/ (\A d \in Days : design[d] = {})

\* A crash and a change of style, or else a write that fails.
MCOneMishap == failures = 0 \/ crashes + restyles = 0
=============================================================================
