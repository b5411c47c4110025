SPECIFICATION Spec
CONSTANTS
    rider = rider
    friend = friend
    p1 = p1
    p2 = p2
    Users = {rider, friend}
    Reqs = {p1, p2}
    MaxDeaths = 0
INVARIANT AtomicToggle
