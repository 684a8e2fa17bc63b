SPECIFICATION PartsSpec
CONSTANTS
    s = s  ann = ann  bob = bob  n1 = n1  n2 = n2  m1 = m1  m2 = m2
    thing = thing  e1 = e1  e2 = e2
    l1 = l1  l2 = l2  q1 = q1  q2 = q2  d1 = d1  d2 = d2
    f = f  g = g  one = one  two = two  r1 = r1  r2 = r2  box = box
    home = home  my = my  sh = sh  st = st
    Requests = {q1, q2}
    MaxBegun = 3  MaxFew = 2  MaxFaults = 1
    Null = Null
    People = {s, ann}  Seeds = {s}
    SeedName <- MCSeedName  SeedMail <- MCSeedMail
    Names = {n1, n2}  Mails = {m1, m2}
    Tokens = {e1, e2}  Roles = {thing}  Entries = {e1, e2}  Labels = {l1, l2}
    Users = {ann}  Devices = {d1, d2}  Counting = {d1}
    MaxAsked = 2  MaxSigned <- MCMaxSigned
    Inputs <- SomeInputs  Plans <- SomePlans
    Everybody = {ann, bob}  Subjects = {one, two}
    Fields = {f, g}  FileFields = {g}  Defined <- MCDefined
    StudyRoles = {r1, r2}  Members <- MCMembers  Managing = {r1}
    Grants <- SomeGrants  Archives <- SomeArchives
    Bare = {ann}  Studies = {st}  Files = {e1, e2}  OtherBucket = my
    MaxSize = 2  Default = 2
    Guests = {ann}  Admins = {}  NameOf <- MCNameOf
    Pubkeys = {thing}  HolderOf <- MCHolderOf  Cookies = {e1, e2}  MaxChanges = 1
    MaxSaid = 2
    Boxes = {box}  OwnerOf <- MCOwnerOf  Targets = {one}  TTL = 1  MaxTime = 3
    Usual <- MCUsual  Patient <- MCPatient
    Location <- MCLocation  Aggregate <- MCAggregate
    MaxNow = 4  MaxOccurred = 3
    Leased = {e1, e2}  Quota = 1  Enough = 1  MaxLife = 1  MaxMore = 1  MaxHeld = 2
    Events = {e1}  Requesters = {ann}  Day = 2  Days = 2  MaxLogs = 3  MaxHours = 5
    Nodes = {home, one, two}  Words = {my, sh, st, thing, n1}
    MyRoot = my  SharedRoot = sh  StudyRoot = st
    FullName <- MCFullName  Titles = {thing}
    Paths <- SomePaths  Documents <- SomeDocuments  IsFile = {thing}
    MaxCalls = 3  MaxChanged = 1
    Tabs = {e1, e2}  MaxClicks = 5
SYMMETRY Interchangeable
CHECK_DEADLOCK FALSE
INVARIANTS PartsTypeOK ResetsOnce RolesListLive DevicesKept AggregationsRight AnswersAgree
    FilesReadable CallsAccounted LogoutIsFinal RelaysDeliver ProxiesExpire
    LeasesBounded ErrorsTold SummariesAddUp PathsAgree StaysOffered
