CONSTANTS
    p1 = p1  p2 = p2  i1 = i1  i2 = i2  i3 = i3
    Procs = {p1}
    Images = {i1, i2}
    Devices = {d1, d2}
    ImageOf <- OneImage
    PidOf <- OnePid
    UserImages = {i2}
    ReuseDevices = TRUE
    MaxBusy = 1
    QueriesFail = TRUE
    Free = Free
    User = User
    Nowhere = Nowhere
    Elsewhere = Elsewhere
SPECIFICATION FairSpec
PROPERTIES RunEnds CancelledRunEnds
CHECK_DEADLOCK FALSE
