\* A session_id in the URL, which is no option of the client.
SPECIFICATION RequestsSpec
CONSTANTS
    Configs <- MCConfigs
    Contents <- MCContents
    URLs <- MCURLs
    Platforms <- BothPlatforms
    ZstdAvailable = FALSE
    MaxCreations = 1
    Calls <- MCCalls
    MAX_URL_BIND_PARAM_LENGTH = 24
    SendingClients = 1
INVARIANTS
    URLParametersOverride
CHECK_DEADLOCK FALSE
