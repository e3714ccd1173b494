\* The complete check of the plots of MCPlotFormat.cfg.
CONSTANTS
    NUM_SCOOPS  = 2
    Levels      = {1, 2}
    Warps       = {1, 2}
    Escalates   = {1}
    ReadCaches  = {2}
    MaxSteps    = 1
    MaxRestarts = 1

SPECIFICATION Spec

INVARIANT
    CompletePasses
