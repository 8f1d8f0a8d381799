SPECIFICATION Spec
CONSTANTS
    Horizon = 3
    Weekend <- MCWeekend
    Contracts <- MCContracts
    Indices <- MCIndices
    Stocks <- MCStocks
    NoName = NoName
    FOListing <- MCFOListing
    IndexListing <- MCIndexListing
    CMListing <- MCCMListing
    Corrected <- MCCorrected
    MaxStarts = 2
INVARIANTS
    CompletedMeansStored
    ContinuousAgreesWithContracts
PROPERTIES
    ImplementsMarketData
    FailedDayDoesNotStopTheRest
CHECK_DEADLOCK FALSE
