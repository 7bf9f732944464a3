\* List: one goroutine calling every method with in- and out-of-range
\* indices on lists of up to three nodes, data nil or x.
\* Validator: one goroutine validating values of seven struct types that
\* cover every field kind and rule key modelled; strings of at most two
\* runes from a, A, /, w (a rune above \xff), ints 0..2, slices of at most
\* two elements, no nil element in a []*Struct.
CONSTANTS
    Threads = {t1}
    Nil = Nil
    Vals = {Nil, x}
    Indices <- MCIndices
    MaxNodes = 3
    Types <- MCTypes
    TopTypes <- MCTopTypes
    Callers = {g1}
    Latin1 <- MCLatin1
    AsciiRunes <- MCAscii
    NilV = NilV
    NoRules = NoRules
    Strs <- MCStrs
    Ints <- MCInts
    MaxElems = 2
    NilElems = FALSE
SPECIFICATION SumSpec
INVARIANT WellFormed
 
PROPERTY Linearizable
