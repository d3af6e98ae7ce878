CONSTANTS
    dated = dated
    undated = undated
    idless = idless
    window = window
    worker = worker
    Processes = {worker}
    Legacy = {dated, undated}
    Undated = {undated}
    Idless = {}
    MaxFaults = 0
SPECIFICATION ConfigSpec
INVARIANT ImportedExactlyOnce
