SPECIFICATION Spec
CONSTANTS
    NoJob = NoJob
    Job = {j1, j2}
    MaxClock = 1
SYMMETRY JobSymmetry
PROPERTIES
    OneTime
