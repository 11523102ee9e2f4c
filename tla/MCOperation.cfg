SPECIFICATION OperationSpec
CONSTANTS
    ann = ann
    bob = bob
    x = x
    y = y
    z = z
    jo = jo
    kim = kim
    Users = {ann, bob}
    Tenants = {x, y}
    Member <- Belongs
    None = None
    MaxTabCalls = 2
    Attempts = 3
    MaxRuns = 4
    Services = {x, y}
    OldRows <- Old
    Ticks <- Some
    Admins = {jo, kim}
    Urls = {x, y, z}
    NoUrl = NoUrl
    First <- Two
    MaxCalls = 2
    MaxWork = 2
    MaxFeeds = 4
    site = site
    link = link
    Desks = {x, y}
    Fields = {site, link}
    Tabs <- OneEach
    Fetched = link
    Unset = Unset
    NotHere = NotHere
    MaxAsked = 2
    MaxVisits = 1
    MaxTyped = 2
    News = {x, y}
    NoNews = NoNews
    MaxBegun = 3
INVARIANTS OperationInv RepeatsArePaid SourcesHold PagesHold
PROPERTIES PagesKept
CHECK_DEADLOCK FALSE
