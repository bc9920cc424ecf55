--------------------------- MODULE CalibrationMC ----------------------------
(* The placeholder palette and the palette of a dark panel, in units of     *)
(* four levels, with colours in and out of what they can mix.               *)
EXTENDS Calibration

P(k, w, y, r, b, g) == [i \in Inks |-> <<k, w, y, r, b, g>>[i + 1]]
Placeholder == P(<<0, 0, 0>>, <<64, 64, 64>>, <<41, 44, 24>>,
                 <<27, 5, 4>>, <<8, 16, 32>>, <<22, 30, 24>>)
Dark == P(<<0, 0, 0>>, <<54, 54, 54>>, <<62, 62, 4>>,
          <<40, 0, 0>>, <<0, 2, 46>>, <<4, 35, 2>>)
MCPalettes == {Placeholder, Dark}
MCBands == {<<0, 64, 64>>, <<64, 0, 64>>, <<14, 32, 0>>, <<32, 48, 32>>,
            <<32, 32, 32>>, <<0, 64, 0>>}
MCColours == MCBands \cup {Placeholder[i] : i \in Inks} \cup {Dark[i] : i \in Inks}

MCBiases == {-1, 1, 5}

Good == ChartFps6
MCForeign == {[Good EXCEPT !.format = 2],
              [Good EXCEPT !.magic = FALSE],
              [Good EXCEPT !.data = SubSeq(@, 1, Len(@) - 1)],
              [Good EXCEPT !.data = Append(@, 0)],
              [Good EXCEPT !.width = Height, !.height = Width]}
=============================================================================
