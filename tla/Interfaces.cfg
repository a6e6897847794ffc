SPECIFICATION MCSpec
CONSTANTS
    Lines <- MCLines
    MaxList = 5
    MaxWords = 4
    MaxStatements = 2
    MaxCommands = 1
    MaxConnections = 3
    MaxLength = 13
    Browsers = {"browser"}
    Mailboxes = {"known", "new"}
    Earlier = "known"
    Entries <- MCForms
    MaxSubmissions = 2
    MaxLoads = 1
    MaxEdits = 2
    Rows = 3
    Count = 5
    Options = {"a", "ab", "b"}
    Late = {"b"}
    FilterTexts = {"", "a", "b"}
    Everything = ""
    Found <- MCFound
    Calendars = {1}
    Clocks = {1}
    Locales <- MCLocales
    Todays <- MCTodays
    Apart = {1}
    Typed <- MCTyped
    Clicked = {31}
    MaxTurns = 2
    MaxTicks = 1
    Fields = {"g", "h"}
    Depth = 2
    MaxObjects = 2
    MaxOpened = 2
    Layouts <- MCLayouts
    MaxForms = 4
    MaxSubmits = 2
    Tabs = {"one", "two"}
    First = "one"
    Indexes = {"waitlist", "users"}
    FiltersOf <- MCFiltersOf
    Models = {"users", "waitlist"}
    QuickTexts = {"", "Us", "zz"}
    Empty = ""
    Lower <- MCLower
    Matches <- MCMatches
    MaxActs = 4
    Emails = {"a", "b"}
    MaxClicks = 2
    MaxLosses = 1
    MaxLogins = 1
INVARIANTS
    TypesOK ShowsItsAnswer 
     ShowsItsPosition RunsOnWhatItNames LosesNoOption
    HasItsOpener LinksOpenTheChosen OpenBoxIsRight ServerFindsEveryForm
    ShowsWhatIsKept ShowsTheDatabase
PROPERTIES
    RunsAsTyped NobodyWaitsForEver LeavesTheHidden ReadsWhatItWrote
CHECK_DEADLOCK FALSE
