SPECIFICATION Spec
CONSTANTS
    NoAccount = NoAccount
    NoEmail = NoEmail
    NoName = NoName
    Accounts = {a1, a2, a3}
    Emails = {e1, e2}
    Names = {n1, n2}
    Workers = {w1, w2}
    MayAbort = TRUE
SYMMETRY Interchangeable
INVARIANTS RegistrationWhole
PROPERTIES OnlyAdministratorsReenable
