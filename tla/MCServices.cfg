SPECIFICATION Spec
CONSTANTS
    None = None
    Gone = Gone
    Plain = Plain
    e1 = e1
    e2 = e2
    h1 = h1
    h2 = h2
    d1 = d1
    r1 = r1
    r2 = r2
    p1 = p1
    p2 = p2
    c1 = c1
    c2 = c2
    Hooks = {h1, h2}
    Deliveries = {d1}
    Organizers = {r1, r2}
    Subscriptions = {{"event.cancelled"}}
    MaxHooks = 1
    MaxSecrets = 2
    MaxCrashes = 1
    Sends = {1, 2}
    MailEvents = {e1}
    Clients = {c1, c2}
    maxSendAttempts = 2
    Events = {e1, e2}
    First = e1
    Requests = {r1, r2}
    MaxClock = 1
    Restorers = {p1, p2}
    RetainedEvents = {e1}
    Window = 2
    MaxHour = 5
    Seekers = {r1, r2}
    Sources = {c1, c2}
    Destinations = {c1}
    SourceLimit = 1
    DestinationLimit = 2
    EventLimit = 2
    Base = 2
    Hour = 2
    Expiry = 1
    MaxTicks = 10
    Addresses = {c1, c2}
    RequestLimit = 2
    RateWindow = 2
    LastInstant = 4
    MaxImportRows = 3
    MaxImportHouseholds = 2
    MaxHouseholdGuests = 2
    Records <- SomeRecords
INVARIANTS RateKept HookLimit RotatedSecretKept OutcomeFollowsAnswers NoMailAfterUnsubscribe LogTellsTheOutcome  BundleIsComplete  BudgetKept CleanPreviewCommits
PROPERTIES DeliverySettles 
CONSTRAINT Bound
CHECK_DEADLOCK FALSE
