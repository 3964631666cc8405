CONSTANTS
    sedona = sedona
    minio = minio
    prefect = prefect
    old1 = old1
    None = None
    Images = {sedona, prefect}
    Tagged = {sedona}
    Checked = {}
    Terminals = {}
    WebUI = {sedona}
    Old = {}
    MayFail = FALSE
    MaxFaults = 0
SPECIFICATION FairSpec
PROPERTIES
    NotebookOpens
\* The command ends, or waits with no goroutine left to act.
CHECK_DEADLOCK FALSE
