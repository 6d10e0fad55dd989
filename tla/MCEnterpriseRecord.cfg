\* Two documents are stored while the enterprise is parsed and looked at.
SPECIFICATION Spec
CONSTANTS
    Run = {r1, r2}
    Key = {"enterprise_detail", "profile", "publication_search"}
    named = named
    broken = broken
    refused = refused
    Page = {named, broken, refused}
    Refused = {refused}
    Answer <- MCAnswer
    Parseable = {named}
    Named = {named}
    Stamp = {1, 2}
    Missing = Missing
    Torn = Torn
    NoRow = NoRow
    MaxSnapshots = 2
SYMMETRY Symmetry
INVARIANTS
    TypeOK
    RegisteredIsReadable
    SuccessIsRegistered
PROPERTIES
    InconsistencyIsReal
    ImplementsRegistry
    KboPageNeverGoesBack
