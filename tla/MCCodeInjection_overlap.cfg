CONSTANTS
    p = p
    q = q
    A = A
    Products = {p, q}
    Suffixes = {A}
    None = None
    Filenames <- MCFilenames
    Kinds <- MCKinds
    Documents = {d, e}
    Injectors = {i, j}
    EditKinds <- MCEditKinds
    MaxTaps = 2
    MaxChunks = 2
SPECIFICATION Spec
SYMMETRY Symmetry
INVARIANTS TypeOK InjectedResolvable BestFile
