CONSTANTS
  d1 = d1
  d2 = d2
  n1 = n1
  n2 = n2
  n3 = n3
  n4 = n4
  OutboxMessages = 2
  Attachment = {2}
  OutboxLosses = 2
  OutboxDrops = 1
  OutboxRetries = 1
  OutboxLoads = 1
  InboxMessages = 4
  InboxHistory = 3
  PageSize = 2
  InboxRemovals = 1
  InboxLoads = 3
  InboxDrops = 1
  TrustKeys = 3
  TrustAnswers = 3
  TrustDialogs = 2
  TrustSends = 2
  Device = {d1, d2}
  KeysPasswords = 3
  KeysOfAccount = 3
  KeysLogins = 3
  KeysReloads = 1
  StreamSources = 4
  StreamFaults = 3
  StreamEvents = 3
  StreamLogins = 2
  Name = {n1, n2, n3, n4}
  Renames = 2
  NameReloads = 1
  NameSends = 1
  NameLoads = 1
  ReceiptMessages = 2
  ReceiptLoads = 1
  ReceiptDrops = 1
  ReceiptSwitches = 1
SPECIFICATION Spec
CONSTRAINTS RenamesAreHeard ReloadOrMoreLists
INVARIANTS TypeOK NothingWrittenIsLost ConversationComplete StatusIsHonest OnlyConfirmedKeys DevicesGetIn
INVARIANTS RenameIsFollowed ReadMarksAreTrue
\* The parts are bounded, and stop when their bounds are used up.
CHECK_DEADLOCK FALSE
