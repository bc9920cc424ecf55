---------------------------- MODULE Calibration -----------------------------
(* The screen calibration of the console and the pictures it is judged by.  *)
(* The owner shows the chart, photographs the panel or enters six colours,  *)
(* and the service writes them to calibrated.json and converts with them    *)
(* from then on; the rainbow chart, pushed or only previewed, shows what    *)
(* they give.  Around it the way of a frame: converted by InkMix, packed,   *)
(* checked and painted by Fps6.  The tool calibrate_profile.py does the     *)
(* same from a process of its own.                                          *)
EXTENDS InkMix, Fps6

CONSTANTS Default,      \* the palette without calibration
          Real,         \* the colours the inks of this panel have
          Bands,        \* colours of the rainbow's bands
          Biases,       \* what the owner asks for, in and out of 0..4
          Foreign,      \* frames of another make, for the raw upload
          ToolRuns,     \* TRUE where the tool is used
          MaxSteps      \* things the owner does

\* What another tool may send: any header and any number of bytes.
Sendable == [magic : BOOLEAN, width : Nat, height : Nat, format : Nat, data : Seq(0..255)]

\* The chart's six bands and the checkerboard below them fit.
ASSUME CalibrationAssumption ==
    /\ {Default, Real} \subseteq Palettes /\ Bands \subseteq Colours
    /\ \A t \in Palettes : t \in [Inks -> Colours]
    /\ Biases \subseteq Int /\ ToolRuns \in BOOLEAN /\ MaxSteps \in Nat
    /\ Foreign \subseteq Sendable
    /\ Width > 5 /\ Height > 1

MaxBias == 4

VARIABLES
    file,       \* calibrated.json
    profile,    \* _PROFILES["v2"]
    lookup,     \* _BYTE_LOOKUP_CACHE: the palettes the table of v2 was made from
    bias,       \* chroma_bias of the runtime configuration
    display,    \* the pushed frame
    panel,      \* what the device painted last
    preview,    \* the last answer of /rainbow/preview
    steps

calibrationVars == <<file, profile, lookup, bias, display, panel, preview, steps>>

NoFile == [is |-> "none", t |-> Default]
TornFile == [is |-> "torn", t |-> Default]
Written(t) == [is |-> "ok", t |-> t]

\* _load_calibrated_profile, and the placeholder where it finds nothing.
Load(f) == IF f.is = "ok" THEN f.t ELSE Default

\* What a frame was made of.
Chart == [what |-> "chart", band |-> Zero, t |-> Default, bias |-> 0]
RainbowOf(band, t, b) == [what |-> "rainbow", band |-> band, t |-> t, bias |-> b]
PatchOf(band, t, b) == [what |-> "patch", band |-> band, t |-> t, bias |-> b]
RawOf(f) == [what |-> "raw", frame |-> f]
NoFrame == [made |-> [Chart EXCEPT !.what = "none"], frame |-> PackFps6(<<>>, 0, 0)]
NoPanel == [made |-> NoFrame.made, inks |-> <<>>]
NoPreview == [made |-> NoFrame.made, image |-> <<>>]

CalibrationInit ==
    /\ file = NoFile /\ profile = Default /\ lookup = {}
    /\ bias = 0
    /\ display = NoFrame /\ panel = NoPanel /\ preview = NoPreview
    /\ steps = 0

Step == steps < MaxSteps /\ steps' = steps + 1

-----------------------------------------------------------------------------
(* The pictures, as the viewer sees them.                                   *)

\* Six bands, a label at the left end of each, and the checkerboard below.
LabelInk == <<1, 0, 0, 1, 1, 1>>
ChartInk(x, y) == IF y > 5 THEN (x + y) % 2
                  ELSE IF x = 0 THEN LabelInk[y + 1] ELSE y
BuildChart == Raster(Height, Width, ChartInk)
ChartFps6 == PackFps6(ToDeviceLayout(Rotate90(BuildChart)), Width, Height)

\* A band of one colour above six blocks in the colours of the inks.
Block(x) == (6 * x) \div Height

BuildRainbow(band, t) ==
    Raster(Height, Width, LAMBDA x, y : IF 2 * y < Width THEN band ELSE t[Block(x)])
BuildPatch(band) == Raster(Height, Width, LAMBDA x, y : band)
View(made) == IF made.what = "patch" THEN BuildPatch(made.band)
              ELSE BuildRainbow(made.band, made.t)

\* prepare_image: turned upright and dithered.
Convert(made) == FloydSteinberg(Rotate90(View(made)), Width, made.t, made.bias)
InRange(b) == Most(0, Least(MaxBias, b))
Kinds == UNION {{RainbowOf(c, t, InRange(b)), PatchOf(c, t, InRange(b))} :
                    c \in Bands, t \in Palettes, b \in Biases \cup {0}}
Inked == [made \in Kinds |-> Convert(made)]
Frame(made) == PackFps6(ToDeviceLayout(Inked[made]), Width, Height)

-----------------------------------------------------------------------------
(* The handlers of routers/calibration.py, one at a time.                   *)

\* Variant: the table of the previews is kept.
ReloadKeepsLookup(f) == profile' = Load(f) /\ UNCHANGED lookup

\* reload_calibrated_profile: the table of the previews goes with the colours.
Reload(f) == profile' = Load(f) /\ lookup' = {}

SaveCalibrated(t) == file' = Written(t) /\ Reload(file')

SetDevice(t) == /\ Step /\ SaveCalibrated(t)
                /\ UNCHANGED <<bias, display, panel, preview>>

\* The middle of band i, right of its label.
Sample(view, i) == At(view, Height, Height \div 2, i)
SamplePhoto(photo) == [i \in Inks |-> Sample(photo, i)]

\* The owner photographs the panel once it shows the chart.
UploadPhoto ==
    /\ Step
    /\ panel.made.what = "chart"
    /\ SaveCalibrated(SamplePhoto(RotateBack([n \in DOMAIN panel.inks |-> Real[panel.inks[n]]])))
    /\ UNCHANGED <<bias, display, panel, preview>>

Clear == /\ Step
         /\ file' = NoFile /\ Reload(NoFile)
         /\ UNCHANGED <<bias, display, panel, preview>>

\* Rejected outside of 0..4.
SetBias(b) == /\ Step
              /\ bias' = IF b \in 0..MaxBias THEN b ELSE bias
              /\ UNCHANGED <<file, profile, lookup, display, panel, preview>>

Show(made, frame) ==
    /\ display' = IF Parse(frame) = "ok" THEN [made |-> made, frame |-> frame] ELSE display
    /\ UNCHANGED <<file, profile, lookup, bias, panel, preview>>

PushChart == Step /\ Show(Chart, ChartFps6)
PushRainbow(c) == /\ Step
                  /\ LET made == RainbowOf(c, profile, bias) IN Show(made, Frame(made))

\* display_upload of a picture of one colour, display_upload_raw_fps6.
UploadPicture(c) == /\ Step
                    /\ LET made == PatchOf(c, profile, bias) IN Show(made, Frame(made))
UploadRaw(f) == Step /\ Show(RawOf(f), f)

\* The preview of a bias that need not be saved; the table it colours the
\* inks by is made when there is none.
PreviewRainbow(c, b) ==
    /\ Step
    /\ LET made == RainbowOf(c, profile, InRange(b))
           table == IF lookup = {} THEN {profile} ELSE lookup
       IN  /\ lookup' = table
           /\ preview' = [made |-> made,
                          image |-> PreviewPng(Frame(made).data, CHOOSE t \in table : TRUE)]
    /\ UNCHANGED <<file, profile, bias, display, panel>>

\* The device's round: it takes the frame only if its own checks pass.
Poll == /\ display # NoFrame /\ panel.made # display.made
        /\ DeviceTakes(display.frame)
        /\ panel' = [made |-> display.made, inks |-> Paint(display.frame.data)]
        /\ UNCHANGED <<file, profile, lookup, bias, display, preview, steps>>

-----------------------------------------------------------------------------
(* Restarts, and the tool.                                                  *)

Restart == /\ Step
           /\ Reload(file)
           /\ UNCHANGED <<file, bias, display, panel, preview>>

\* The service ends while it writes the file, or before it reads it again.
CrashInSave(t) == /\ Step
                  /\ file' \in {TornFile, Written(t)}
                  /\ Reload(file')
                  /\ UNCHANGED <<bias, display, panel, preview>>

\* calibrate_profile.py: the same save, in a process with a profile of its own.
Tool(t) == /\ Step /\ ToolRuns
           /\ file' = Written(t)
           /\ UNCHANGED <<profile, lookup, bias, display, panel, preview>>

CalibrationNext ==
    \/ \E t \in Palettes : SetDevice(t) \/ CrashInSave(t) \/ Tool(t)
    \/ UploadPhoto \/ Clear \/ Restart \/ Poll \/ PushChart
    \/ \E b \in Biases : SetBias(b)
    \/ \E c \in Bands : PushRainbow(c) \/ UploadPicture(c)
    \/ \E c \in Bands, b \in Biases : PreviewRainbow(c, b)
    \/ \E f \in Foreign : UploadRaw(f)

CalibrationSpec == CalibrationInit /\ [][CalibrationNext]_calibrationVars

-----------------------------------------------------------------------------
(* What is promised, and measures of it that owe nothing to InkMix.         *)

\* A colour the inks can mix lies in the tetrahedron of four of them.
Volume(a, b, c, d) == Dot(Minus(b, a), Cross(Minus(c, a), Minus(d, a)))
InGamut(p, t) ==
    \E f \in {g \in Inks \X Inks \X Inks \X Inks : g[1] < g[2] /\ g[2] < g[3] /\ g[3] < g[4]} :
        LET a == t[f[1]]  b == t[f[2]]  c == t[f[3]]  d == t[f[4]]
            v == Volume(a, b, c, d)
        IN  /\ v # 0
            /\ \A w \in {Volume(p, b, c, d), Volume(a, p, c, d),
                         Volume(a, b, p, d), Volume(a, b, c, p)} :
                  IF v > 0 THEN w >= 0 ELSE w <= 0
Mixed(c, t) == /\ Saturated(c) /\ ~InGamut(c, t)
               /\ \A i \in Inks : Dist2(c, t[i]) > Snap
MixedIn == [t \in Palettes |-> {c \in Bands : Mixed(c, t)}]

\* Distances in eighths of a unit.
Fine == 8
Root(n) == CHOOSE k \in 0..(2 * Fine * Top) : k * k <= n /\ n < (k + 1) * (k + 1)
Apart(u, v) == Root(Dist2(u, v))
BestLeft ==
    [t \in Palettes, c \in Bands |->
        LET left == {Apart([m \in 1..3 |-> (Fine * (k * t[p[1]][m] + (16 - k) * t[p[2]][m])) \div 16],
                           Scale(Fine, c)) : p \in Pairs, k \in 0..16}
        IN  CHOOSE x \in left : \A y \in left : x <= y]
Count(inks, i) == Cardinality({n \in DOMAIN inks : inks[n] = i})
Average(inks, t) ==
    LET n == [i \in Inks |-> Count(inks, i)]
    IN  [m \in 1..3 |-> (Fine * (n[0] * t[0][m] + n[1] * t[1][m] + n[2] * t[2][m] + n[3] * t[3][m]
                               + n[4] * t[4][m] + n[5] * t[5][m])) \div Len(inks)]

\* Two units, eight of the 256 levels.
Tolerance == 2 * Fine

\* A colour the inks cannot mix comes out, over an area, as near to itself as
\* any mixture with a coloured ink could bring it: no saturated area fades to
\* white (ADR-0004).
NearestMixture ==
    (/\ panel.made.what = "patch" /\ panel.made.bias = 0
     /\ panel.made.band \in MixedIn[panel.made.t]) =>
        Apart(Average(panel.inks, panel.made.t), Scale(Fine, panel.made.band))
            <= BestLeft[panel.made.t, panel.made.band] + Tolerance

\* The bias changes nothing in a picture the inks can mix.
MixableIsUntouched ==
    LET c == panel.made.band
    IN  panel.made.what = "patch" /\ (~Saturated(c) \/ InGamut(c, panel.made.t)) =>
            panel.inks = Inked[[panel.made EXCEPT !.bias = 0]]

\* Nor does it elsewhere take colour away (ADR-0004, decision 5).
Coloured(inks) == Cardinality({n \in DOMAIN inks : inks[n] > 1})
BiasOnlyDeepens ==
    /\ MixableIsUntouched
    /\ panel.made.what = "patch" =>
         Coloured(panel.inks) >= Coloured(Inked[[panel.made EXCEPT !.bias = 0]])

\* A photograph of the chart gives each ink the colour it has on this panel,
\* whatever way the chart took there.
PhotoFindsInks == [][UploadPhoto => profile' = Real]_calibrationVars

\* A preview shows what the panel would, had the picture been pushed
\* (rainbow_quantized_preview_png), in the colours of the calibration it was
\* asked for under.
PreviewIsThePush ==
    preview # NoPreview =>
        LET shown == Paint(Frame(preview.made).data)
        IN  preview.image = RotateBack([n \in DOMAIN shown |-> preview.made.t[shown[n]]])

\* A frame the upload routes accept is one the device takes.
AcceptedIsShown == display # NoFrame => DeviceTakes(display.frame)
=============================================================================
