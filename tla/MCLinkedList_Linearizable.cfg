\* Two goroutines: AddBefore's unlocked size check races with the other's
\* calls.
CONSTANTS
    Threads = {t1, t2}
    Nil = Nil
    Vals = {Nil, x}
    Indices <- MCIndices
    MaxNodes = 3
SPECIFICATION Spec
PROPERTY Linearizable
