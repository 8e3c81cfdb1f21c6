CONSTANTS
    r1 = r1 r2 = r2 l1 = l1 l2 = l2 l3 = l3
    ada = ada bob = bob p1 = p1 p2 = p2 phone = phone desk = desk
    Register = {r1, r2}
    Login = {l1, l2, l3}
    Name = {ada, bob}
    Password = {p1, p2}
    Device = {phone, desk}
    Wishes <- MCWishes
    Rules <- MCRules
    Breaks <- MCBreaks
    FaultSets <- MCFaultSets
    MaxChanges = 1
SPECIFICATION Spec
INVARIANTS
    TypeOK
    NameIsExclusive
    PolicyKept
    DevicesAreLogins
