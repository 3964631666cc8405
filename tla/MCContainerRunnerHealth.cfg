CONSTANTS
    MayFail = TRUE
    sedona = sedona
    minio = minio
    None = None
    Images <- MCImages
    Containers <- MCImages
    Checked <- MCChecked
    Terminals <- MCTerminals
    WebUI <- MCWebUI
SPECIFICATION Spec
INVARIANTS
    ReadyMeansHealthy
CHECK_DEADLOCK FALSE
