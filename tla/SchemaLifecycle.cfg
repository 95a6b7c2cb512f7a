\* A migration and its retry, an adoption, two dumps and two restores.
SPECIFICATION Spec
CONSTANTS
    table = table
    column = column
    text = text
    index = index
    extra = extra
    Facts <- MCFacts
    Kind <- MCKind
    Baseline <- MCBaseline
    Schemas <- MCSchemas
    Rows = {row}
    Main = main
    Databases = {main, copy}
    Migrations = {m1, m2}
    Adoptions = {a1}
    Backups = {b1, b2}
    Restores = {r1, r2}
SYMMETRY MCSymmetry
INVARIANTS TypeOK StampMeansSchema RestoreExact OwnDatabase
CHECK_DEADLOCK FALSE
