CONSTANTS
    p1 = p1  p2 = p2  i1 = i1  i2 = i2  i3 = i3
    Procs = {p1, p2}
    Images = {i1, i2, i3}
    Devices = {d1, d2, d3}
    ImageOf <- OwnImages
    PidOf <- OwnPids
    UserImages = {i3}
    ReuseDevices = FALSE
    MaxBusy = 0
    QueriesFail = TRUE
    Free = Free
    User = User
    Nowhere = Nowhere
    Elsewhere = Elsewhere
SPECIFICATION Spec
SYMMETRY RunSymmetry
INVARIANTS
  CleanOrWarned
  SweepComplete
PROPERTIES
  DetachOnlyOwnOrStale
CHECK_DEADLOCK FALSE
