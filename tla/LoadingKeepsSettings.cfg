CONSTANTS
    dated = dated
    undated = undated
    idless = idless
    window = window
    worker = worker
    Processes = {window}
    Legacy = {}
    Undated = {}
    Idless = {}
    MaxFaults = 1
SPECIFICATION ConfigSpec
PROPERTY LoadingKeepsSettings
