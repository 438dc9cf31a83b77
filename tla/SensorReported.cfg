SPECIFICATION Spec
CONSTANTS
    MIN_INTERVAL = 10
    MAX_INTERVAL = 3600
    DEFAULT_INTERVAL = 60
    Requested = {5, 300, 7200}
    MaxWrites = 2
    None = None
PROPERTY ResultReported
