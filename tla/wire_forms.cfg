\* Type texts, rows and query parameters both ways, and two clients made from
\* configurations that share objects.
SPECIFICATION WireSpec
CONSTANTS
    Streams <- MCStreams
    Recurring <- MCRecurring
    TypeTexts <- MCTypeTexts
    ReaderFor <- TypeStringToReader
    NoReader <- TypeError
    MaxSize = 2
    MaxStreams = 3
    Configs <- MCConfigs
    Contents <- MCContents
    URLs <- MCURLs
    Platforms <- BothPlatforms
    ZstdAvailable = FALSE
    MaxCreations = 2
    Calls <- MCCalls
    MAX_URL_BIND_PARAM_LENGTH = 24
    SendingClients = 1
INVARIANTS
    PrintedTypesParse
    DecodesWhatWasWritten
    CacheKeepsRecent
    ColumnTypesAgree
    TextsReadBack
    OptionsInEffect
    RequestSaysTheCall
\* A row that has been read, a request that was sent.
CHECK_DEADLOCK FALSE
