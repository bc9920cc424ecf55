-------------------------------- MODULE Fps6 --------------------------------
(* The frame format between service and device, and what becomes of it on   *)
(* both sides: rotating a landscape picture, packing two pixels to a byte,  *)
(* the checks of parse_fps6 and of the firmware, the two driver chips of    *)
(* the panel, and the preview made back from a frame.  Pictures and panels  *)
(* are sequences in raster order.                                           *)
EXTENDS Integers, Sequences

CONSTANTS Width, Height     \* of the panel, 1200 by 1600 in the code

ASSUME Fps6Assumption == /\ Width \in Nat \ {0} /\ Width % 4 = 0
                         /\ Height \in Nat \ {0}

At(pic, width, x, y) == pic[y * width + x + 1]
Raster(width, height, P(_, _)) ==
    [n \in 1..(width * height) |-> P((n - 1) % width, (n - 1) \div width)]

\* From the landscape a viewer sees (Height wide) to the upright panel, a
\* quarter turn counter-clockwise, and back.
Rotate90(view) == Raster(Width, Height, LAMBDA x, y : At(view, Height, Height - 1 - y, x))
RotateBack(pic) == Raster(Height, Width, LAMBDA x, y : At(pic, Width, y, Height - 1 - x))

Nibbles == [i \in 0..5 |-> <<0, 1, 2, 3, 5, 6>>[i + 1]]
NibbleToIndex == [n \in 0..15 |-> IF \E i \in 0..5 : Nibbles[i] = n
                                  THEN CHOOSE i \in 0..5 : Nibbles[i] = n ELSE 0]

ToDeviceLayout(indices) ==
    [k \in 1..(Len(indices) \div 2) |->
        16 * Nibbles[indices[2 * k - 1]] + Nibbles[indices[2 * k]]]

PackFps6(raw, width, height) ==
    [magic |-> TRUE, width |-> width, height |-> height, format |-> 1, data |-> raw]

\* Variant: any size will do if the length fits it.
ParseAnySize(f) ==
    IF ~f.magic THEN "bad magic"
    ELSE IF Len(f.data) < (f.width * f.height) \div 2 THEN "truncated"
    ELSE IF Len(f.data) > (f.width * f.height) \div 2 THEN "length mismatch"
    ELSE "ok"

\* parse_fps6 with the size the upload routes expect: the first check that
\* fails.  The format and the palette version are not read.
Parse(f) ==
    IF ~f.magic THEN "bad magic"
    ELSE IF Len(f.data) < (f.width * f.height) \div 2 THEN "truncated"
    ELSE IF Len(f.data) > (f.width * f.height) \div 2 THEN "length mismatch"
    ELSE IF <<f.width, f.height>> # <<Width, Height>> THEN "size"
    ELSE "ok"

\* The firmware's: the header before anything is written, the length after.
HeaderCheck(f) == f.magic /\ f.width = Width /\ f.height = Height
DeviceTakes(f) == HeaderCheck(f) /\ Len(f.data) >= (Width * Height) \div 2

RowBytes == Width \div 2
HalfRow == RowBytes \div 2

\* Variant: the chips are given each other's half.
IcRowsSwapped(data, ic) ==
    [y \in 0..(Height - 1) |->
        SubSeq(data, y * RowBytes + (1 - ic) * HalfRow + 1, y * RowBytes + (2 - ic) * HalfRow)]

\* The rows each of the two chips gets: all the left halves to the first,
\* then all the right halves to the second.
IcRows(data, ic) ==
    [y \in 0..(Height - 1) |->
        SubSeq(data, y * RowBytes + ic * HalfRow + 1, y * RowBytes + (ic + 1) * HalfRow)]

\* A chip paints its half from left to right, the high nibble first.
Paint(data) ==
    LET rows == [ic \in {0, 1} |-> IcRows(data, ic)]
        Pixel(x, y) ==
            LET ic == x \div (Width \div 2)
                byte == rows[ic][y][(x % (Width \div 2)) \div 2 + 1]
            IN  NibbleToIndex[IF x % 2 = 0 THEN byte \div 16 ELSE byte % 16]
    IN  Raster(Width, Height, Pixel)

\* preview_png_landscape: the colours of the inks, from a table by name.
PreviewPng(data, device) ==
    RotateBack([n \in 1..(2 * Len(data)) |->
        LET byte == data[(n - 1) \div 2 + 1]
        IN  device[NibbleToIndex[IF n % 2 = 1 THEN byte \div 16 ELSE byte % 16]]])
=============================================================================
