SPECIFICATION Spec
CONSTANTS
    MaxDays = 1
    Styles <- MCStyles
    Places = {home, away}
    Quotes = {q1, q2}
    Designs = {g1, g2}
    Keep = 2
    MaxRestyles = 1
    MaxCrashes = 1
    MaxFailures = 1
INVARIANTS CurrentCard  
SYMMETRY MCSymmetry
CONSTRAINTS MCOneCard MCOneMishap
