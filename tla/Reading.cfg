SPECIFICATION Spec
CONSTANTS
  None = None
  Ids = {1, 2, 3}
  Files = {8, 9}
  Path <- Path3
  Instants = {2, 5}
  Grants <- MCGrants
  Bases <- MCBases
  Start = 3
  Window = 1
  MaxNow = 4
  MaxWrites = 2
  Feeds = {"verified_at", "stale_after", "usage", "failed", "", "bundle"}
  Filters <- MCFilters
  Limits = {1}
  Directories <- MCDirectories
  MaxBrowseEntries = 1
  Second = 1
  Kanji = {"K", "L"}
  Hiragana = {"h", "o"}
  Katakana = {"T"}
  Marks = {"-"}
  Honorifics = {"o"}
  Words = {"w", "W", "the", "n"}
  Stops = {"the"}
  Underscore = "_"
  Hyphen = "~"
  Dot = "."
  Space = " "
  Folded <- FullWidth
  MinLoanword = 3
  MaxFragments = 3
  MaxIdentifier = 5
  Questions = {}
  AskFilters <- AllOnly
  AskLimits = {2}
  Embeds = {TRUE, FALSE}
  Rarity <- MCRarity
  RrfK = 60
  MaxFailures = 1
INVARIANTS
  
  
  NamedFirst
  MissMeansAbsent
CHECK_DEADLOCK FALSE
