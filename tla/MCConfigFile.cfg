CONSTANTS
    dated = dated
    undated = undated
    idless = idless
    window = window
    worker = worker
    Processes = {window, worker}
    Legacy = {dated, undated, idless}
    Undated = {undated}
    Idless = {idless}
    MaxFaults = 2
SPECIFICATION ConfigSpec
INVARIANT ConfigTypeOK
INVARIANT ImportedAtMostOnce
INVARIANT ImportNotLost
