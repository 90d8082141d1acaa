CONSTANTS
  r1 = r1 r2 = r2 chat = chat hook = hook head = head gpu = gpu spare = spare
  local = local cloud = cloud sharp = sharp home = home away = away
  Req = {r1}  Conv = {chat}  Model = {local, cloud, sharp}
  Prefix = {head}  Instance = {gpu}  Worth = {head}
  HeadOf <- MCHeadOf  Role <- MCRole  HookTier = "routine"  Cheap = "routine"
  Fork = {}  Grades = {"routine", "hard"}  Lists <- MCLists
  ProviderOf <- MCProviderOf  LlamaSwap = {home}  Forced = {}
  Members <- MCMembers  Pools = {}  Window <- MCWindow  Sighted = {sharp}
  Size = {60}  Est <- MCEst  Images = {}
  HeadSize = 40  LocalMax = 100  Budget = 25  Shaky <- MCShaky  Mute = {}  Dropped = {}
  Default = Default  None = None  Idle = Idle  MaxWaiting = 1
SPECIFICATION Spec
PROPERTY ComesHome
