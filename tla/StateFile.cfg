CONSTANTS
    Models = {n1, n2}
    Writers = {w1, w2}
    Restorer = main
    Inodes = {f1, f2, f3}
    NoFile = nofile
    MaxCrashes = 2
SPECIFICATION SFSpec
SYMMETRY Symmetry
INVARIANTS
    CompleteUnlessOverlapped
    CurrentUnlessOverlapped
