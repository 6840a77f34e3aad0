SPECIFICATION MCSpec
CONSTANTS
    i1 = i1
    d1 = d1
    d2 = d2
    r1 = r1
    r2 = r2
    r3 = r3
    Nothing = Nothing
    Items = {i1}
    Details = {d1, d2}
    Requests = {r1, r2, r3}
    Retries = 1
    MaxFailures = 1
    Absent = Absent
    Amounts <- MCAmounts
    Balances = {0, 2}
    StartingGil = 1
    MaxChanges = 3
    Attempts = 1
    MaxFaults = 1
INVARIANTS
    CatalogTypeOK
    UpdatesStick
    CopyMatchesCatalog
    CalmCopyIsTrue
PROPERTIES
    CreatedArrives
    TotalsArrive
CHECK_DEADLOCK FALSE
