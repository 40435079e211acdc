\* Two operations at a time; one id is in config.yaml.
CONSTANTS
    a = a
    c = c
    f1 = f1
    f2 = f2
    Ids = {a, c}
    Base = {c}
    Files = {f1, f2}
    NameOf <- TwoNames
    Ops = {o1, o2}
    Nodes = {n1, n2}
    None = none
SPECIFICATION Spec
SYMMETRY Symmetry
VIEW View
INVARIANTS
    CatalogCurrent
    CompleteFiles
    VisibleHasEngine
