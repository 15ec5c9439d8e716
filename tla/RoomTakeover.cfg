CONSTANTS
  ann = ann  bot = bot
  phone = phone  tablet = tablet  robot = robot
  Room = {r1}
  User = {ann, bot}
  Bot = {bot}
  Socket = {phone, tablet, robot}
  Owner <- MCOwner
  Key = {}
  Modes = {TRUE}
  InviteLists <- InviteAnn
  ModeratorLists <- AnnModerates
  NoSocket = NoSocket
  NoKey = NoKey
  NoView = NoView
  MaxJoinTimers = 2
  MaxReapers = 1
SPECIFICATION Spec
CHECK_DEADLOCK FALSE
INVARIANTS MembersListen ListenersAreMembers ViewsCurrent EmptyRoomDoomed
PROPERTIES OccupiedRoomKept
