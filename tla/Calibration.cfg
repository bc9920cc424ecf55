SPECIFICATION CalibrationSpec
CONSTANTS
    Width = 8
    Height = 12
    Palettes <- MCPalettes
    Colours <- MCColours
    Default <- Placeholder
    Real <- Dark
    Bands <- MCBands
    Biases <- MCBiases
    Foreign <- MCForeign
    ToolRuns = TRUE
    MaxSteps = 3
INVARIANTS NearestMixture BiasOnlyDeepens PreviewIsThePush AcceptedIsShown
PROPERTY PhotoFindsInks
CHECK_DEADLOCK FALSE
