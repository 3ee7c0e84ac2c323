CONSTANTS
    Controls <- MCControls
    Autos = {"exposure_auto"}
    Dependents <- MCDependents
    ReadOnly = {"pixel_rate"}
    Rank <- MCRank
    Cameras = {"mipi", "usb"}
    InRange <- MCInRange
    Makes <- MCMakes
    Default <- MCDefault
    Requests <- MCRequests
    MaxFaults = 1
    MaxSwaps = 1
SPECIFICATION Spec
INVARIANTS ControlsInv InForce NoNeedlessError
PROPERTIES ImplementsStore JobEnds
