CONSTANTS
    sedona = sedona
    minio = minio
    book1 = book1
    book2 = book2
    init1 = init1
    init2 = init2
    Images <- MCImages
    Volumes <- MCVolumes
    Commands <- MCCommands
    Chapters <- MCChapters
    SubChapters <- MCSubChapters
SPECIFICATION Spec
INVARIANTS
    TypeOK
    OneRequestPerImage
    MountsOfFirstMention
\* Resolve answers once: the system stops.
CHECK_DEADLOCK FALSE
