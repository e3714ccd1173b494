\* Plots of both plotters at levels 1 to 3, of up to six warps written one
\* or two at a time, mined up to two levels above their own.
CONSTANTS
    NUM_SCOOPS  = 2
    Levels      = {1, 2, 3}
    Warps       = {1, 5, 6}
    Escalates   = {1, 2}
    ReadCaches  = {2, 3, 4}
    MaxSteps    = 2
    MaxRestarts = 1

SPECIFICATION Spec

INVARIANTS
    WarpsVerify
    SubmissionsVerify
    ScanCovers
