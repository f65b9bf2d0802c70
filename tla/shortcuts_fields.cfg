SPECIFICATION MCSpec
CONSTANTS
    Kinds = {SSH, Telnet}
    SSH = SSH
    Telnet = Telnet
    MaxSaves = 3
    MaxFaults = 1
    MaxTimers = 1
    LocalUser = TRUE
    NoId = NoId
    MaxId = 6
    toggle = toggle
    settings = settings
    quit = quit
    Actions = {toggle, settings, quit}
    Configurable = {toggle, settings}
    Default <- MCDefault
    Strokes = {"k", ",", "q", "x"}
    Unbound = Unbound
    zen = zen
    go = go
    Builtin = {zen, go}
    Main = zen
    Lender <- MCLender
    Endpoint <- MCEndpoint
    Urls = {21}
    NoUrl = 0
    MaxAdds = 1
    Themes <- MCThemes
    Fallback = "dark"
    Customs = {"mine"}
    Palettes = {"red"}
    Files = {"old"}
    Locales = {"en"}
    DefaultLocale = "en"
    Hosts = {"h1"}
    Home = "home"
    SizeMin = 8
    SizeMax = 32
    DefaultSize = 14
    Digits = {2}
    TUNNEL = TUNNEL
    SNIPPET = SNIPPET
    Bodies = {"b1"}
    Names = {"n1"}
    MaxItems = 2
    MaxGroups = 1
    MAX_NOTIFICATIONS = 2
    MaxGeneration = 5
    MaxCloses = 1
CHECK_DEADLOCK FALSE
INVARIANT FieldsEditable
