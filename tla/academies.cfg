SPECIFICATION Spec
CONSTANTS
    Academy = {a1, a2, a3}
    Slug = {s1, s2, s3}
    Creator = {c1, c2}
    Changer = {g1, g2}
    None = None
    Faults <- ToleratedFaults
    TakenSlugs = FALSE
    Overlap = FALSE
SYMMETRY Symmetry
INVARIANTS
    EntriesHaveSchema
    WholeAcademy
CHECK_DEADLOCK FALSE
