SPECIFICATION Spec
CONSTANTS
    Tab = {t1, t2}
    User = {u1, u2}
    home = home
    away = away
    Branch = {home, away}
    Home <- AllHome
    Req = {q1, q2}
    Cut = {"refresh"}
    Apart = TRUE
    None = None
SYMMETRY Symmetry
INVARIANTS
    TypeOK
    BranchSurvives
    ServedAsShown
    KeepsRefreshing
