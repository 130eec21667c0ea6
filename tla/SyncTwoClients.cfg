SPECIFICATION MCSpec
CONSTANTS
    Client = {c1, c2}
    Name = {n1, n2}
    p1 = p1
    p2 = p2
    Piece = {p1, p2}
    MaxPieces = 2
    BinaryPiece = bin
    CutPiece = cut
    Absent = Absent
    Overlap = FALSE
    SamePath = TRUE
SYMMETRY ClientsAndNames
INVARIANTS
    TypeOK
    Transferred
PROPERTY DiffIsRight
