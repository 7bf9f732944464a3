\* Slices of *Inner that may hold nil elements, as JSON null decodes to.
CONSTANTS
    Types <- MCTypes
    TopTypes = {"Outers"}
    Callers = {g1}
    Latin1 <- MCLatin1
    AsciiRunes <- MCAscii
    NilV = NilV
    NoRules = NoRules
    Strs <- MCStrs
    Ints <- MCInts
    MaxElems = 2
    NilElems = TRUE
SPECIFICATION Spec
INVARIANT ValidateAgreesWithTags
