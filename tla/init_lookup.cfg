SPECIFICATION FairSpec
CHECK_DEADLOCK FALSE
CONSTANTS
    Text = {"SWITCH-CONFIG", "switchConfig", "config-xml", "a", "5", "on"}
    Null = Null
    Number <- MCNumber
    On = {"on"}
    Calls = {c1, c2}
    NoCall = NoCall
    Sites <- MCSites
    Template = "SWITCH-CONFIG"
    SwitchConfigName = "switchConfig"
    ConfigXml = "config-xml"
    BuildSize = 5
INVARIANTS CrashesOnlyWhen SuccessMeansServing LoadedAsWritten LogNotLeaked
PROPERTIES InitializeAnswered
