----------------------------- MODULE MCServices -----------------------------
(* A small instance of the services that share the process but no state with *)
(* one another: each behaviour is one of one of them (part), the others stay *)
(* as they began. They are checked in one run because each is small.         *)
EXTENDS Skills, WebSearch, Panels, Preparation, Catalog, Tables, PoolLoad, TLC

VARIABLE part

-----------------------------------------------------------------------------
(* Skills: two files of the vault and one of an agent; the first one is the  *)
(* archived copy of the second.                                              *)

MCRootOf == <<"vault", "vault", "agent">>
MCSame == [n \in Names |-> IF n = "pdf tools" THEN "pdf-tools" ELSE n]

-----------------------------------------------------------------------------
(* The catalog: two providers, one with an alias and a filter.               *)

Asked == Ids \union {"glmair", "fast", "air", "default"}
MCAsks == {<<1, "glm">>, <<2, "">>, <<0, "glmair">>, <<0, "fast">>}
MCCatalogues == {Ids, {"glm"}}
MCFolds == [w \in Asked |-> {}]
MCWithin == [w \in Asked |-> IF w = "glm" THEN {"glm", "glm-air"} ELSE {w} \intersect Ids]
MCBlind == [w \in Asked |-> IF w = "glmair" THEN {"glm-air"} ELSE {}]
MCMapTo == [w \in {"fast"} |-> <<2, "glm">>]

Conf(on, keep, pins, default, aliases, window) ==
    [on |-> on, keep |-> keep, pins |-> pins, default |-> default, aliases |-> aliases,
     window |-> window]

MCConfigs ==
    <<{Conf(TRUE, Asked, {}, "glm", {}, 0), Conf(TRUE, {"glm-air"}, {"glm"}, "glm-air", {}, 2)},
      {Conf(TRUE, {"glm"}, {}, "glm", {"air"}, 0), Conf(FALSE, Asked, {}, "glm", {}, 0)}>>

MCDeclares ==
    <<[id \in Ids |-> [sight |-> IF id = "glm" THEN "blind" ELSE "none", window |-> 1]],
      [id \in Ids |-> [sight |-> "none", window |-> 0]]>>

MCPublished == [id \in Ids |-> IF id = "glm" THEN 2 ELSE 0]

MCRules ==
    {[off |-> FALSE, include |-> {"glm"}, exclude |-> {}, window |-> 0],
     [off |-> FALSE, include |-> Ids, exclude |-> {"glm-air"}, window |-> 2],
     [off |-> TRUE, include |-> {}, exclude |-> {}, window |-> 0]}

MCShares ==
    {[force |-> None, exact |-> {}, globs |-> {}, cap |-> 3],
     [force |-> None, exact |-> {<<1, "glm">>}, globs |-> {<<2, "glm">>, <<2, "glm-air">>}, cap |-> 1]}

-----------------------------------------------------------------------------
(* Pool load: two pools of one provider that share an instance.              *)

MCLists == {<<1, 2>>, <<2, 3>>}

\* Where each part begins; one that does not run has any settings.
SkillSettings ==
    \/ /\ part = "skills"
       /\ files = <<"pdf tools", "pdf tools", NoFile>> /\ direct = {}
       /\ groups = GroupIds /\ members = groups \X {"pdf-tools"}
       /\ \E t \in Targets : carried = {t} \X groups
    \/ /\ part = "skills"
       /\ files = <<"pdf tools", "pdf tools", "notes">>
       /\ \E t \in Targets, i \in Paths : direct = {<<t, i>>}
       /\ groups = {} /\ members = {} /\ carried = {}
    \/ /\ part # "skills"
       /\ files = [p \in Paths |-> NoFile]
       /\ direct = {} /\ groups = {} /\ members = {} /\ carried = {}

CatalogSettings ==
    \/ /\ part = "catalog"
       /\ rules \in {r \in Rules : r.exclude # {}}
       /\ provs \in {<<c, d>> : c \in {c \in Configs[1] : c.keep = Asked}, d \in {d \in Configs[2] : d.on}}
    \/ /\ part # "catalog"
       /\ rules \in {r \in Rules : r.off}
       /\ provs = [p \in Providers |-> CHOOSE c \in Configs[p] : c.on]

LoadSettings ==
    IF part = "load" THEN cond[3] = "idle" ELSE cond = [m \in Instances |-> "idle"]

AdminSettings == part # "admin" => hash.pass = "old"

PrepSettings == part # "preparation" => history[1].text = CHOOSE t \in Texts : TRUE

-----------------------------------------------------------------------------

ServicesInit ==
    /\ part \in {"skills", "search", "panels", "preparation", "catalog",
                 "seats", "notices", "admin", "log", "load"}
    /\ SkillSettings /\ SkillsInit
    /\ CatalogSettings /\ CatalogInit
    /\ SearchInit /\ PanelsInit
    /\ PrepInit /\ PrepSettings
    /\ TablesInit /\ AdminSettings
    /\ PoolLoadInit /\ LoadSettings

ServicesNext ==
    \/ /\ part = "skills" /\ SkillsNext
       /\ UNCHANGED <<searchVars, panelVars, prepVars, catalogVars, tablesVars, poolLoadVars, part>>
    \/ /\ part = "search" /\ SearchNext
       /\ UNCHANGED <<skillVars, panelVars, prepVars, catalogVars, tablesVars, poolLoadVars, part>>
    \/ /\ part = "panels" /\ PanelsNext
       /\ UNCHANGED <<skillVars, searchVars, prepVars, catalogVars, tablesVars, poolLoadVars, part>>
    \/ /\ part = "preparation" /\ PrepNext
       /\ UNCHANGED <<skillVars, searchVars, panelVars, catalogVars, tablesVars, poolLoadVars, part>>
    \/ /\ part = "catalog" /\ CatalogNext
       /\ UNCHANGED <<skillVars, searchVars, panelVars, prepVars, tablesVars, poolLoadVars, part>>
    \/ /\ \/ part = "seats" /\ SeatsNext
          \/ part = "notices" /\ NoticesNext
          \/ part = "admin" /\ AdminNext
          \/ part = "log" /\ LogNext
          \/ part \in {"seats", "notices", "admin", "log"} /\ CommonNext
       /\ UNCHANGED <<skillVars, searchVars, panelVars, prepVars, catalogVars, poolLoadVars, part>>
    \/ /\ part = "load" /\ PoolLoadNext
       /\ UNCHANGED <<skillVars, searchVars, panelVars, prepVars, catalogVars, tablesVars, part>>

servicesVars == <<skillVars, searchVars, panelVars, prepVars, catalogVars, tablesVars, poolLoadVars, part>>

ServicesSpec == ServicesInit /\ [][ServicesNext]_servicesVars

Symmetry == Permutations(Targets) \union Permutations(Lookups)
=============================================================================
