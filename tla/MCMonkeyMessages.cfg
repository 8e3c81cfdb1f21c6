CONSTANTS
    Exchanges <- MCExchanges
    ReqIds = {0, 16777215, 16777216}
    Default = Default
    Absent = Absent
SPECIFICATION Spec
INVARIANTS
    TypeOK
    ShownAsGiven
