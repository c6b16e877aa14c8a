SPECIFICATION Spec
CONSTANTS
    fa = fa
    fb = fb
    fc = fc
    k1 = k1
    k2 = k2
    k3 = k3
    Missing = Missing
    NoCompletion = NoCompletion
    Files <- ThreeFiles
    Size <- SizeOf
    Keys <- ThreeKeys
    MaxSubmissions = 2
    MaxSeals = 2
SYMMETRY UploadSymmetry
INVARIANTS
    ReceivedFileIsTheDeclared
    EachVersionIsAnotherFile
PROPERTIES
    ReceivedOnce
