CONSTANTS
    Identities = {alice, bob}
    NChannels = 2
    Tasks = {scanner}
    Scanner = scanner
    NCandidates = 2
    MaxRelogins = 1
    MaxExpiries = 1
    ChannelErrors = FALSE
    SecretExpires = TRUE
SPECIFICATION ScanSpec
INVARIANTS NoFalsePositive NothingLeft
CHECK_DEADLOCK FALSE
