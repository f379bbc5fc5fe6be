CONSTANTS
    p1 = p1  p2 = p2  i1 = i1  i2 = i2  i3 = i3
    Procs = {p1}
    Images = {i1}
    Devices = {d1}
    ImageOf <- OneImage
    PidOf <- OnePid
    UserImages = {}
    ReuseDevices = FALSE
    MaxBusy = 0
    QueriesFail = FALSE
    Free = Free
    User = User
    Nowhere = Nowhere
    Elsewhere = Elsewhere
SPECIFICATION Spec
INVARIANTS InterruptedIsClean
CHECK_DEADLOCK FALSE
