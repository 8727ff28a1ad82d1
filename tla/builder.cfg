SPECIFICATION BuilderSpec
CONSTANTS
    Items = {"double-berry-float", "vanilla-sunset"}
    Opened = {"vanilla-sunset"}
    Limit = 1
    Forms <- Profiles
    Picks = {"lime-wedge"}
    Ideas <- Drinks
    Savers = {w1, w2}
    MaxEdits = 1
    MaxKept = 1
    MaxSaves = 2
SYMMETRY Alike
INVARIANTS ProfileWhole
PROPERTIES FillKeepsDiet AvoidedComesLast
