SPECIFICATION Spec
CONSTANTS
    Handlers = {h1, h2}
    UserRules <- MCUserRules
    NameOrder <- MCNameOrder
    Ops <- MCOps
    MaxCrashes = 2
INVARIANTS SerialEditsGovern AuditMatchesTable RulesKept
PROPERTIES OnlyToggleSwitches
