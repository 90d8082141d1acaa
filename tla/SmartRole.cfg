CONSTANTS
  r1 = r1 r2 = r2 chat = chat hook = hook head = head gpu = gpu spare = spare
  local = local cloud = cloud sharp = sharp home = home away = away
  Req = {r1}  Conv = {hook}  Model = {local, cloud, sharp}
  Prefix = {head}  Instance = {gpu}  Worth = {}
  HeadOf <- MCHeadOf  Role <- MCRole  HookTier = "routine"  Cheap = "careful"
  Fork = {}  Grades = {"routine", "hard"}  Lists <- MCLists
  ProviderOf <- MCProviderOf  LlamaSwap = {home}  Forced = {}
  Members <- MCMembers  Pools = {}  Window <- MCWindow  Sighted = {sharp}
  Size = {20, 60}  Est <- MCEst  Images = {chat}
  HeadSize = 18  LocalMax = 100  Budget = 25  Shaky <- MCShaky  Mute = {}  Dropped = {}
  Default = Default  None = None  Idle = Idle  MaxWaiting = 1
  MaxTurns = 3  MaxChanges = 2
SPECIFICATION Bounded
CHECK_DEADLOCK FALSE
PROPERTY RoleStaysPut
