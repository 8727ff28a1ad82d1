SPECIFICATION AccountFairSpec
CONSTANTS
    s1 = s1
    s2 = s2
    Stores = {s1, s2}
    Emails = {"e"}
    Passwords = {"p"}
    WebWorkers <- Two_And_One
    Peers <- Each_Other
    MaxLogins = 3
    MaxAccountUpdates = 2
    MaxCrashes = 1
INVARIANTS LoginBacked StaffStayLocal HalfMadeInFlight
PROPERTIES LoginEnds
\* Every login may have been made.
CHECK_DEADLOCK FALSE
