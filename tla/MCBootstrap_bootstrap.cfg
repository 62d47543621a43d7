SPECIFICATION BootstrapSpec
CONSTANTS
    Unset = Unset
    NaN = NaN
    None = None
    Height = 12
    Head = 12
    Example <- MCExample
    Choice <- MCChoice
INVARIANTS BootstrapTypeOK SearchInv BootInv FindsDeployment FirstScanComplete RecommendationFits
CHECK_DEADLOCK FALSE
