\* An object of three chunks, signatures in any of them.
CONSTANT Length = 3
SPECIFICATION Spec
INVARIANTS TypeOK CleanIsScanned
PROPERTY ScanEnds
