CONSTANTS
    Processes = {p1, p2}
    ProviderNames = {"m"}
    ApiKeys = {"a"}
    KeyName <- MCKeyName
    Overlay = "unset"
    Exported = TRUE
    MaxChanges = 4
SPECIFICATION SettingsSpec
INVARIANT InitKeepsConfig
CHECK_DEADLOCK FALSE
