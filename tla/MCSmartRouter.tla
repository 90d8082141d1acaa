---------------------------- MODULE MCSmartRouter -----------------------------
(***************************************************************************)
(* Two conversations over one static head; a local runtime, a cloud model  *)
(* with a window the headroom matters for, and a sighted one.              *)
(***************************************************************************)
EXTENDS SmartRouter

CONSTANTS r1, r2, chat, hook, head, gpu, spare, local, cloud, sharp, home, away,
          HookTier, \* the role's tier
          Cheap,    \* the easier tier that is configured
          Mute,     \* providers that may fall silent
          Dropped   \* models a listing may drop

MCHeadOf == [c \in Conv |-> head]
MCRole == [c \in Conv |-> IF c = hook THEN HookTier ELSE None]
MCLists == [l \in {"routine", "careful", "hard", "vision"} |->
              CASE l = Cheap -> <<<<local>>, <<cloud>>>>
                [] l \in {"hard", "vision"} -> <<<<sharp>>>>
                [] OTHER -> <<>>]
MCProviderOf == [m \in Model |-> IF m = local THEN home ELSE away]
MCMembers == [m \in Model |-> IF m = local THEN SetToSeq(Instance) ELSE <<>>]
MCWindow == [m \in Model |-> CASE m = local -> 128 [] m = cloud -> 64 [] OTHER -> 200]
MCEst == [s \in Size |-> s \div 2]
MCShaky == [ready |-> Instance, full |-> {gpu}, mute |-> Mute, sick |-> {local},
            served |-> Dropped]
===============================================================================
