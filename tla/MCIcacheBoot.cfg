\* Two pages, two lines of two words; the cache is invalidated while off, then on.
CONSTANTS
    Pages = {p0, p1}
    Lines = {l0, l1}
    LineWords = 2
    Inhibited = {p1}
    Faulty = {}
    Ops <- BootOps
    NoWord = NoWord
SPECIFICATION BootSpec
INVARIANTS FetchCorrect LineFaithful
PROPERTY TransferHeld
SYMMETRY SymLines
