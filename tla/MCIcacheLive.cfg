\* One line of three words; no symmetry, for the liveness property.
CONSTANTS
    Pages = {p0, p1}
    Lines = {l0}
    LineWords = 3
    Inhibited = {p1}
    Faulty = {}
    Ops <- OnOps
    NoWord = NoWord
SPECIFICATION LiveSpec
PROPERTY FetchServed
