SPECIFICATION WebSpec
CONSTANTS
  root = root
  child = child
  leaf = leaf
  a = a
  b = b
  OtherService = OtherService
  NoSpan = NoSpan
  NoService = NoService
  t1 = t1
  t2 = t2
  t3 = t3
  q = q
  s1 = s1
  s2 = s2
  s3 = s3
  Undefined = Undefined
  Gone = Gone
  Nothing = Nothing
  front = front
  middle = middle
  storage = storage
  NoModal = NoModal
  Off = Off
  A = A
  B = B
  doc = doc
  el = el
  click = click
  go = go
  leave = leave
  swap = swap
  OwnNode = OwnNode
  Nobody = Nobody
  submit = submit
  wild = wild
  regex = regex
  bind = bind
  trigger = trigger
  All = All
  Junk = Junk
  NoDate = NoDate
  Anonymous = Anonymous
  NoExports = NoExports
  Invalid = Invalid
  Spans <- TheSpans
  Parent <- TheParent
  ServiceNames <- TheNames
  First = root
  Start <- TheStart
  End <- TheEnd
  Whole <- WholeTrace
  Ranges <- SomeRanges
  MaxActs = 4
  Found <- TheFound
  TraceServices <- TheLabels
  Queried = q
  IdOf <- TheIds
  SortKey <- TheKeys
  Selectable = {q, s1, s2}
  MaxChanges = 2
  MaxTags = 4
  LinkSets <- TheLinkSets
  Log <- Logs
  Components = {A, B}
  Nodes = {doc, el}
  Types = {click}
  Handlers = {go, leave, swap}
  Bubbles <- TheBubbles
  Listens <- TheListens
  Effects <- TheEffects
  MaxObjects = 3
  MaxBinds = 3
  MaxOffs = 1
  Wait = 3
  MaxLate = 2
  MaxTime = 14
  Actions = {bind, trigger}
  Names = {click, submit}
  PatternSets <- TheFilters
  Stands <- TheStands
  Regexes = {regex}
  Options <- TheOptions
  Dates <- TheDates
  Typed <- TheTyped
  Today <- TheToday
  TimesOfDay = {"noon"}
  Days = {1, 2, 3, 4}
  Allowed <- TheLimits
  Worlds <- TheWorlds
  Configs <- TheConfigs
  Asked <- TheAsked
  UrlSegments = {"d3.js"}
  MaxStamps = 1
  MaxModules = 2
INVARIANTS
  WantedIsShown
  TraceShowsChoices
  PagesShowAnswers
  FlightHolds
  DatesAgree
  PagesAreAssembled
PROPERTIES
  SpinnerGoesAway
  LoaderAnswers
CHECK_DEADLOCK FALSE
