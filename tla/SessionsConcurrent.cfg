CONSTANTS
    Identities = {alice, bob}
    NChannels = 3
    Tasks = {t1, t2}
    MaxRelogins = 1
    MaxExpiries = 1
    ChannelErrors = TRUE
    SecretExpires = TRUE
SPECIFICATION Spec
INVARIANTS RegisteredIsOpen ReloginsBounded AskedAfterVerification
CHECK_DEADLOCK FALSE
