CONSTANTS
    dated = dated
    undated = undated
    idless = idless
    window = window
    worker = worker
    Processes = {window, worker}
    Legacy = {}
    Undated = {}
    Idless = {}
    MaxFaults = 0
SPECIFICATION ConfigSpec
PROPERTY WorkerKeepsSettings
