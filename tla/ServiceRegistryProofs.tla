------------------------ MODULE ServiceRegistryProofs ------------------------
(***************************************************************************)
(* Proofs about ServiceRegistry for any servers and clients, any path and  *)
(* any number of interruptions.  All the properties rest on what a session *)
(* that was never interrupted has been (SessionInv); that a registration   *)
(* fails only in a race, on what the checks before it have seen (PathInv); *)
(* what a client makes of its list, on servers never registering twice     *)
(* (PastInv); whose address it goes by, on what stands in the registry     *)
(* when a server has served or was cut off (AddressInv).                   *)
(***************************************************************************)
EXTENDS ServiceRegistry, TLAPS

(* Where a process is between start() and its end.                         *)
Working == {"check", "create", "zoo_create", "serving",
            "exists", "children", "list", "update", "get", "ready"}

(* The state of a session follows from where its process is, unless it was *)
(* interrupted.                                                            *)
SessionInv ==
    \A p \in Processes :
        /\ session[p] = "lost" => interrupted[p]
        /\ at[p] = "new" => session[p] = "none"
        /\ at[p] = "init" => session[p] = "new"
        /\ at[p] \in {"new", "init"} => ~posted[p]
        /\ at[p] = "wait" /\ ~interrupted[p] =>
             session[p] = IF posted[p] THEN "connected" ELSE "new"
        /\ at[p] \in Working /\ ~interrupted[p] => session[p] = "connected"

(* What a server that was never interrupted knows of the path.             *)
PathInv ==
    /\ \A i \in 1 .. Depth : creator[i] # None => i \in nodes
    /\ \A s \in Servers :
        /\ slash_ok /\ ~interrupted[s] => \A i \in 1 .. Depth : i < level[s] => i \in nodes
        /\ slash_ok /\ ~interrupted[s] /\ at[s] = "zoo_create" /\ level[s] \in nodes =>
             creator[level[s]] \in Servers \ {s}
        /\ ~slash_ok /\ at[s] \in {"create", "zoo_create"} => level[s] = Depth + 1

(* Who is or was registered is done with registerService.                  *)
Past == {"serving", "gone"} \cup Failed

PastInv ==
    /\ \A s \in providers : at[s] \in Past
    /\ \A c \in Clients : \A s \in service_info[c] : at[s] \in Past
    /\ \A c \in Clients : picked[c] # None => at[picked[c]] \in Past

IndInv ==
    /\ TypeOK
    /\ SessionInv /\ PathInv /\ PastInv
    /\ ServingIsAdvertised /\ GoneMeansUnadvertised /\ UnsetMeansGone
    /\ ExitsOnlyInARace

-----------------------------------------------------------------------------
LEMMA InitIndInv == Init => IndInv
<1> SUFFICES ASSUME Init PROVE IndInv
  OBVIOUS
<1>1. TypeOK
  <2>1. /\ nodes \subseteq 1 .. Depth
        /\ creator \in [1 .. Depth -> Servers \cup {None}]
        /\ level \in [Servers -> 1 .. Depth + 1]
    BY DepthAssumption DEF Init
  <2>2. /\ session \in [Processes -> {"none", "new", "connected", "lost", "expired", "closed"}]
        /\ at \in [Processes -> Failed \cup
                 {"new", "init", "wait", "check", "create", "zoo_create", "serving",
                  "exists", "children", "list", "update", "get", "ready", "gone"}]
        /\ service_info \in [Clients -> SUBSET Servers]
        /\ picked \in [Clients -> Servers \cup {None}]
        /\ ip_ \in [Clients -> Servers \cup {None}]
        /\ port_ \in [Clients -> {"unset", "own", "other"}]
    BY DEF Init
  <2>3. posted \in [Processes -> BOOLEAN] /\ interrupted \in [Processes -> BOOLEAN]
    BY Zenon DEF Init
  <2> QED BY <2>1, <2>2, <2>3 DEF Init, TypeOK
<1>2. SessionInv
  BY DEF Init, SessionInv, Working
<1>3. PathInv
  BY NoneAssumption, DepthAssumption DEF Init, PathInv, Processes
<1>4. PastInv
  BY DEF Init, PastInv
<1>5. ServingIsAdvertised /\ GoneMeansUnadvertised /\ UnsetMeansGone /\ ExitsOnlyInARace
  BY DEF Init, ServingIsAdvertised, GoneMeansUnadvertised, UnsetMeansGone,
         ExitsOnlyInARace, Processes, Failed
<1> QED BY <1>1, <1>2, <1>3, <1>4, <1>5 DEF IndInv

-----------------------------------------------------------------------------
(* Whoever was past registerService stays past it.                         *)
LEMMA PastFrame ==
    ASSUME TypeOK, PastInv, UNCHANGED <<providers, service_info, picked>>,
           \A q \in Processes : at[q] \in Past => at'[q] \in Past
    PROVE  PastInv'
<1>1. /\ providers \subseteq Processes
      /\ \A c \in Clients : service_info[c] \subseteq Processes
      /\ \A c \in Clients : picked[c] # None => picked[c] \in Processes
  BY DEF TypeOK, Processes
<1>2. \A s \in providers' : at'[s] \in Past
  BY <1>1 DEF PastInv
<1>3. \A c \in Clients : \A s \in service_info'[c] : at'[s] \in Past
  BY <1>1 DEF PastInv
<1>4. \A c \in Clients : picked'[c] # None => at'[picked'[c]] \in Past
  BY <1>1 DEF PastInv
<1> QED BY <1>2, <1>3, <1>4 DEF PastInv

-----------------------------------------------------------------------------
(* ZKClient::start.                                                        *)
LEMMA StartIndInv ==
    ASSUME IndInv, NEW p \in Processes, Start(p)
    PROVE  IndInv'
<1> USE DEF IndInv, zkVars, serverVars, clientVars
<1>1. /\ UNCHANGED <<zkVars, posted, interrupted, serverVars, clientVars>>
      /\ at[p] \in {"new", "init", "wait"}
      /\ \A q \in Processes \ {p} : at'[q] = at[q] /\ session'[q] = session[q]
      /\ \/ at[p] = "new" /\ at'[p] = "init" /\ session'[p] = "new"
         \/ at[p] = "new" /\ at'[p] = "exited" /\ session'[p] = session[p]
         \/ at[p] = "init" /\ at'[p] = "wait" /\ session'[p] = session[p]
         \/ /\ at[p] = "wait" /\ posted[p] /\ at'[p] \in {"check", "exists"}
            /\ session'[p] = session[p]
  BY DEF Start, zookeeper_init, zoo_set_context, sem_wait, Goto, sessionVars, TypeOK
<1>2. TypeOK'
  <2>1. at' \in [Processes -> Failed \cup
                 {"new", "init", "wait", "check", "create", "zoo_create", "serving",
                  "exists", "children", "list", "update", "get", "ready", "gone"}]
    BY DEF Start, zookeeper_init, zoo_set_context, sem_wait, Goto, TypeOK, Failed
  <2>2. session' \in [Processes -> {"none", "new", "connected", "lost", "expired", "closed"}]
    BY DEF Start, zookeeper_init, zoo_set_context, sem_wait, sessionVars, TypeOK
  <2> QED BY <1>1, <2>1, <2>2 DEF TypeOK
<1>3. SessionInv'
  BY <1>1 DEF SessionInv, Working, TypeOK
<1>4. PathInv'
  BY <1>1 DEF PathInv, Processes
<1>5. PastInv'
  <2>1. at[p] \notin Past
    BY <1>1 DEF Past, Failed
  <2>2. UNCHANGED <<providers, service_info, picked>>
    BY <1>1
  <2> QED BY <1>1, <2>1, <2>2, PastFrame
<1>6. ServingIsAdvertised' /\ GoneMeansUnadvertised' /\ UnsetMeansGone'
  BY <1>1 DEF ServingIsAdvertised, GoneMeansUnadvertised, UnsetMeansGone, Processes
<1>7. ExitsOnlyInARace'
  BY <1>1 DEF ExitsOnlyInARace, SessionInv, Processes
<1> QED BY <1>2, <1>3, <1>4, <1>5, <1>6, <1>7

LEMMA WatcherIndInv ==
    ASSUME IndInv, NEW p \in Processes, global_watcher(p)
    PROVE  IndInv'
<1> USE DEF IndInv, zkVars, serverVars, clientVars
<1>1. /\ UNCHANGED <<zkVars, interrupted, serverVars, clientVars>>
      /\ session[p] \in {"new", "lost"} /\ session' = [session EXCEPT ![p] = "connected"]
      /\ at[p] \notin Past \ {"serving"}
      /\ \A q \in Processes \ {p} : at'[q] = at[q] /\ posted'[q] = posted[q]
      /\ \/ at'[p] = "crashed" /\ UNCHANGED posted
         \/ at[p] = "wait" /\ at'[p] = "wait" /\ posted' = [posted EXCEPT ![p] = TRUE]
         \/ at[p] \notin {"init", "wait"} /\ at'[p] = at[p] /\ UNCHANGED posted
  BY DEF global_watcher, Goto, Post, Past, Failed, TypeOK
<1>2. TypeOK'
  <2>1. at' \in [Processes -> Failed \cup
                 {"new", "init", "wait", "check", "create", "zoo_create", "serving",
                  "exists", "children", "list", "update", "get", "ready", "gone"}]
    BY DEF global_watcher, Goto, TypeOK, Failed
  <2>2. posted' \in [Processes -> BOOLEAN]
    <3>1. posted' \in {posted, [posted EXCEPT ![p] = TRUE]} /\ posted \in [Processes -> BOOLEAN]
      BY <1>1 DEF TypeOK
    <3> QED BY <3>1, Zenon
  <2>3. session' \in [Processes -> {"none", "new", "connected", "lost", "expired", "closed"}]
    BY <1>1 DEF TypeOK
  <2> QED BY <1>1, <2>1, <2>2, <2>3 DEF TypeOK
<1>3. SessionInv'
  <2>1. \A q \in Processes \ {p} : session'[q] = session[q]
    BY <1>1 DEF TypeOK
  <2>2. session'[p] = "connected"
    BY <1>1 DEF TypeOK
  <2>3. at'[p] = "wait" => posted'[p]
    BY <1>1, Zenon DEF TypeOK
  <2> QED BY <1>1, <2>1, <2>2, <2>3 DEF SessionInv, Working
<1>4. PathInv'
  BY <1>1 DEF PathInv, Processes
<1>5. PastInv'
  <2>1. at[p] \in Past => at'[p] \in Past
    BY <1>1 DEF Past, Failed
  <2>2. UNCHANGED <<providers, service_info, picked>>
    BY <1>1
  <2> QED BY <1>1, <2>1, <2>2, PastFrame
<1>6. ServingIsAdvertised' /\ GoneMeansUnadvertised' /\ UnsetMeansGone'
  BY <1>1 DEF ServingIsAdvertised, GoneMeansUnadvertised, UnsetMeansGone, Processes
<1>7. ExitsOnlyInARace'
  BY <1>1 DEF ExitsOnlyInARace, Processes, TypeOK, Past, Failed
<1> QED BY <1>2, <1>3, <1>4, <1>5, <1>6, <1>7

(* Sessions that are interrupted and that expire.                          *)
LEMMA SessionLostIndInv ==
    ASSUME IndInv, NEW p \in Processes, SessionLost(p)
    PROVE  IndInv'
<1> USE DEF IndInv, zkVars, serverVars, clientVars
<1>1. /\ UNCHANGED <<zkVars, posted, at, serverVars, clientVars>>
      /\ session[p] = "connected" /\ session' = [session EXCEPT ![p] = "lost"]
      /\ interrupted' = [interrupted EXCEPT ![p] = TRUE]
  BY DEF SessionLost
<1>2. /\ interrupted'[p] /\ session'[p] = "lost"
      /\ \A q \in Processes \ {p} : session'[q] = session[q] /\ interrupted'[q] = interrupted[q]
  <2>1. interrupted'[p]
    BY <1>1, Zenon DEF TypeOK
  <2> QED BY <1>1, <2>1 DEF TypeOK
<1>3. TypeOK'
  <2>1. interrupted' \in [Processes -> BOOLEAN]
    BY <1>1, Zenon DEF TypeOK
  <2> QED BY <1>1, <2>1 DEF TypeOK
<1>4. SessionInv'
  BY <1>1, <1>2 DEF SessionInv, Working
<1>5. PathInv' /\ PastInv'
  BY <1>1, <1>2 DEF PathInv, PastInv, Processes
<1>6. ServingIsAdvertised' /\ GoneMeansUnadvertised' /\ UnsetMeansGone' /\ ExitsOnlyInARace'
  BY <1>1, <1>2 DEF ServingIsAdvertised, GoneMeansUnadvertised, UnsetMeansGone,
                    ExitsOnlyInARace, Processes
<1> QED BY <1>3, <1>4, <1>5, <1>6

LEMMA SessionExpiresIndInv ==
    ASSUME IndInv, NEW p \in Processes, SessionExpires(p)
    PROVE  IndInv'
<1> USE DEF IndInv, zkVars, serverVars, clientVars
<1>1. /\ UNCHANGED <<nodes, creator, slash_ok, posted, interrupted, at, serverVars, clientVars>>
      /\ session[p] = "lost" \/ (session[p] = "connected" /\ at[p] \in Failed)
      /\ session' = [session EXCEPT ![p] = "expired"]
      /\ providers' = providers \ {p}
  BY DEF SessionExpires, EphemeralsOf
<1>2. /\ session'[p] = "expired"
      /\ \A q \in Processes \ {p} : session'[q] = session[q]
  BY <1>1 DEF TypeOK
<1>3. interrupted[p] \/ at[p] \in Failed
  BY <1>1 DEF SessionInv
<1>4. TypeOK'
  BY <1>1 DEF TypeOK
<1>5. SessionInv'
  BY <1>1, <1>2, <1>3 DEF SessionInv, Working, Failed
<1>6. PathInv' /\ PastInv'
  BY <1>1 DEF PathInv, PastInv
<1>7. ServingIsAdvertised' /\ GoneMeansUnadvertised' /\ UnsetMeansGone'
  BY <1>1, <1>3 DEF ServingIsAdvertised, GoneMeansUnadvertised, UnsetMeansGone, Failed
<1>8. ExitsOnlyInARace'
  BY <1>1, <1>2 DEF ExitsOnlyInARace, Processes
<1> QED BY <1>4, <1>5, <1>6, <1>7, <1>8

-----------------------------------------------------------------------------
(* The checks of registerService and of ZKClient::create.                  *)
LEMMA CheckIndInv ==
    ASSUME IndInv, NEW s \in Servers, registerService(s) \/ create(s)
    PROVE  IndInv'
<1> USE DEF IndInv, zkVars, sessionVars, clientVars
<1>0. s \in Processes /\ level[s] \in 1 .. Depth + 1 /\ Depth \in Nat
  BY DepthAssumption DEF Processes, TypeOK
<1>1. /\ UNCHANGED <<zkVars, sessionVars, clientVars>>
      /\ at[s] \in {"check", "create"}
      /\ \A q \in Processes \ {s} : at'[q] = at[q]
      /\ \A t \in Servers \ {s} : level'[t] = level[t]
      /\ level' \in [Servers -> 1 .. Depth + 1]
      /\ at' \in [Processes -> Failed \cup
                 {"new", "init", "wait", "check", "create", "zoo_create", "serving",
                  "exists", "children", "list", "update", "get", "ready", "gone"}]
  <2>1. /\ UNCHANGED <<zkVars, sessionVars, clientVars>>
        /\ at[s] \in {"check", "create"}
        /\ \E place \in {"check", "create", "zoo_create", "serving"} :
              at' = [at EXCEPT ![s] = place]
        /\ \/ level' = level
           \/ level[s] <= Depth /\ level' = [level EXCEPT ![s] = @ + 1]
    BY DEF registerService, create, NextLevel, MoreComponents, Goto
  <2>2. /\ level' \in [Servers -> 1 .. Depth + 1]
        /\ \A t \in Servers \ {s} : level'[t] = level[t]
    BY <1>0, <2>1 DEF TypeOK
  <2> QED BY <1>0, <2>1, <2>2 DEF TypeOK
<1>2. \/ level[s] <= Depth /\ Exists(s) /\ level'[s] = level[s] + 1 /\ at'[s] = "check"
      \/ /\ ~(level[s] <= Depth /\ Exists(s)) /\ at'[s] = "create" /\ level'[s] = level[s]
      \/ level[s] > Depth /\ Exists(s) /\ at'[s] = "serving" /\ level'[s] = level[s]
      \/ ~Exists(s) /\ at'[s] = "zoo_create" /\ level'[s] = level[s]
  BY <1>0 DEF registerService, create, NextLevel, MoreComponents, Goto, TypeOK
<1>3. ~interrupted[s] => session[s] = "connected"
  BY <1>0, <1>1 DEF SessionInv, Working
<1>4. TypeOK'
  BY <1>1 DEF TypeOK
<1>5. SessionInv'
  BY <1>1, <1>2, <1>3 DEF SessionInv, Working
<1>6. PathInv'
  <2>1. level[s] <= Depth /\ Exists(s) /\ slash_ok /\ ~interrupted[s] => level[s] \in nodes
    BY <1>3 DEF Exists, check_znode_exists, Connected
  <2>2. ~slash_ok /\ ~(level[s] <= Depth /\ Exists(s)) => level[s] = Depth + 1
    BY <1>0 DEF Exists, check_znode_exists
  <2>3. ~Exists(s) => level[s] \notin nodes
    BY <1>0 DEF Exists, check_znode_exists, TypeOK
  <2>4. slash_ok /\ ~interrupted[s] => \A i \in 1 .. Depth : i < level'[s] => i \in nodes
    BY <1>0, <1>2, <2>1 DEF PathInv
  <2>5. /\ slash_ok /\ ~interrupted[s] /\ at'[s] = "zoo_create" /\ level'[s] \in nodes => FALSE
        /\ ~slash_ok /\ at'[s] \in {"create", "zoo_create"} => level'[s] = Depth + 1
    BY <1>2, <2>2, <2>3
  <2> QED BY <1>1, <2>4, <2>5 DEF PathInv, Processes
<1>7. PastInv'
  <2>1. at[s] \notin Past
    BY <1>1 DEF Past, Failed
  <2>2. UNCHANGED <<providers, service_info, picked>>
    BY <1>1
  <2> QED BY <1>1, <2>1, <2>2, PastFrame
<1>8. ServingIsAdvertised' /\ GoneMeansUnadvertised' /\ UnsetMeansGone'
  <2>1. at'[s] = "serving" => interrupted[s]
    BY <1>0, <1>2, <1>3 DEF Exists, check_znode_exists, ProviderPresent, Connected
  <2> QED BY <1>1, <1>2, <2>1, NoneAssumption
        DEF ServingIsAdvertised, GoneMeansUnadvertised, UnsetMeansGone, Processes
<1>9. ExitsOnlyInARace'
  BY <1>1, <1>2 DEF ExitsOnlyInARace, Processes
<1> QED BY <1>4, <1>5, <1>6, <1>7, <1>8, <1>9

(* zoo_create that makes the node; its answer may be lost on the way.      *)
LEMMA MakeIndInv ==
    ASSUME IndInv, NEW s \in Servers, at[s] = "zoo_create", zoo_create(s),
           Connected(s), CanCreate(s), Make(s)
    PROVE  IndInv'
<1> USE DEF IndInv, clientVars
<1>0. s \in Processes /\ level[s] \in 1 .. Depth + 1 /\ Depth \in Nat \ {0}
  BY DepthAssumption DEF Processes, TypeOK
<1>1. /\ UNCHANGED <<slash_ok, posted, clientVars>>
      /\ \A q \in Processes \ {s} :
            at'[q] = at[q] /\ session'[q] = session[q] /\ interrupted'[q] = interrupted[q]
      /\ \A t \in Servers \ {s} : level'[t] = level[t]
      /\ level' \in [Servers -> 1 .. Depth + 1]
      /\ at' \in [Processes -> Failed \cup
                 {"new", "init", "wait", "check", "create", "zoo_create", "serving",
                  "exists", "children", "list", "update", "get", "ready", "gone"}]
      /\ session' \in [Processes -> {"none", "new", "connected", "lost", "expired", "closed"}]
  <2>1. /\ UNCHANGED <<slash_ok, posted, clientVars>>
        /\ \E place \in {"check", "serving", "exited"} : at' = [at EXCEPT ![s] = place]
        /\ \/ level' = level
           \/ level[s] <= Depth /\ level' = [level EXCEPT ![s] = @ + 1]
        /\ session' \in {session, [session EXCEPT ![s] = "lost"]}
        /\ interrupted' \in {interrupted, [interrupted EXCEPT ![s] = TRUE]}
    BY DEF zoo_create, Make, NextLevel, MoreComponents, Goto, sessionVars
  <2>2. /\ level' \in [Servers -> 1 .. Depth + 1]
        /\ \A t \in Servers \ {s} : level'[t] = level[t]
    BY <1>0, <2>1 DEF TypeOK
  <2>3. \A q \in Processes \ {s} : interrupted'[q] = interrupted[q]
    BY <1>0, <2>1, Zenon DEF TypeOK
  <2>4. /\ session' \in [Processes -> {"none", "new", "connected", "lost", "expired", "closed"}]
        /\ \A q \in Processes \ {s} : session'[q] = session[q]
    BY <1>0, <2>1 DEF TypeOK
  <2>5. /\ \A q \in Processes \ {s} : at'[q] = at[q]
        /\ at' \in [Processes -> Failed \cup
                 {"new", "init", "wait", "check", "create", "zoo_create", "serving",
                  "exists", "children", "list", "update", "get", "ready", "gone"}]
    BY <1>0, <2>1 DEF TypeOK, Failed
  <2> QED BY <2>1, <2>2, <2>3, <2>4, <2>5
<1>2. interrupted' \in [Processes -> BOOLEAN]
  <2>1. interrupted' \in {interrupted, [interrupted EXCEPT ![s] = TRUE]}
    BY DEF zoo_create, sessionVars
  <2> QED BY <2>1, Zenon DEF TypeOK
<1>3. \/ /\ interrupted'[s] = interrupted[s] /\ session'[s] = "connected"
         /\ \/ level[s] <= Depth /\ level'[s] = level[s] + 1 /\ at'[s] = "check"
            \/ level[s] = Depth + 1 /\ level'[s] = level[s] /\ at'[s] = "serving"
      \/ /\ interrupted'[s] /\ session'[s] = "lost"
         /\ level'[s] = level[s] /\ at'[s] = "exited"
  <2>1. interrupted' = [interrupted EXCEPT ![s] = TRUE] => interrupted'[s]
    BY <1>0, Zenon DEF TypeOK
  <2> QED BY <1>0, <2>1 DEF zoo_create, NextLevel, MoreComponents, Goto, sessionVars, Connected, TypeOK
<1>4. \/ /\ level[s] <= Depth /\ slash_ok /\ level[s] \notin nodes
         /\ nodes' = nodes \cup {level[s]}
         /\ creator' = [creator EXCEPT ![level[s]] = s]
         /\ providers' = providers
      \/ /\ level[s] = Depth + 1 /\ providers' = providers \cup {s}
         /\ nodes' = nodes /\ creator' = creator
  BY <1>0 DEF Make, CanCreate
<1>5. TypeOK'
  <2>1. nodes' \subseteq 1 .. Depth /\ providers' \subseteq Servers
    <3>1. nodes \subseteq 1 .. Depth /\ providers \subseteq Servers
      BY DEF TypeOK
    <3>2. level[s] <= Depth => level[s] \in 1 .. Depth
      BY <1>0
    <3> QED BY <1>4, <3>1, <3>2
  <2>2. creator' \in [1 .. Depth -> Servers \cup {None}]
    <3>1. creator \in [1 .. Depth -> Servers \cup {None}]
      BY DEF TypeOK
    <3> QED BY <1>4, <3>1
  <2>3. /\ slash_ok' \in SlashResults /\ posted' \in [Processes -> BOOLEAN]
        /\ service_info' \in [Clients -> SUBSET Servers]
        /\ picked' \in [Clients -> Servers \cup {None}]
        /\ ip_' \in [Clients -> Servers \cup {None}]
        /\ port_' \in [Clients -> {"unset", "own", "other"}]
    BY <1>1 DEF TypeOK
  <2> QED BY <1>1, <1>2, <2>1, <2>2, <2>3 DEF TypeOK
<1>6. SessionInv'
  BY <1>1, <1>3 DEF SessionInv, Working
<1>7. PathInv'
  <2>1. \A i \in 1 .. Depth : creator'[i] # None => i \in nodes'
    BY <1>0, <1>4 DEF PathInv, TypeOK
  <2>2. nodes \subseteq nodes'
    BY <1>4
  <2>3. slash_ok /\ ~interrupted'[s] => \A i \in 1 .. Depth : i < level'[s] => i \in nodes'
    BY <1>0, <1>3, <1>4 DEF PathInv
  <2>4. ASSUME NEW t \in Servers \ {s}, slash_ok, ~interrupted[t], at[t] = "zoo_create",
               level[t] \in nodes'
        PROVE  creator'[level[t]] \in Servers \ {t}
    <3>1. CASE level[s] <= Depth /\ level[t] = level[s]
      BY <1>0, <1>4, <3>1 DEF TypeOK
    <3>2. CASE ~(level[s] <= Depth /\ level[t] = level[s])
      <4>1. level[t] \in nodes /\ level[t] \in 1 .. Depth
        BY <1>0, <1>4, <2>4, <3>2 DEF TypeOK
      <4>2. creator'[level[t]] = creator[level[t]]
        BY <1>0, <1>4, <3>2, <4>1 DEF TypeOK
      <4> QED BY <2>4, <4>1, <4>2 DEF PathInv
    <3> QED BY <3>1, <3>2
  <2> QED BY <1>1, <1>3, <2>1, <2>2, <2>3, <2>4 DEF PathInv, Processes
<1>8. PastInv'
  <2>1. at[s] \notin Past
    BY DEF Past, Failed
  <2>2. s \in providers' => at'[s] \in Past \/ s \in providers
    BY <1>0, <1>3, <1>4 DEF Past, Failed
  <2>3. \A t \in providers' : t = s \/ t \in providers
    BY <1>4
  <2>4. \A t \in Servers : at[t] \in Past => at'[t] \in Past
    BY <1>1, <2>1 DEF Processes
  <2>5. \A t \in providers : t \in Servers /\ at[t] \in Past
    BY DEF PastInv, TypeOK
  <2>6. \A t \in providers' : at'[t] \in Past
    BY <2>2, <2>3, <2>4, <2>5
  <2>7. \A c \in Clients : \A t \in service_info'[c] : at'[t] \in Past
    BY <1>1, <2>4 DEF PastInv, TypeOK
  <2>8. \A c \in Clients : picked'[c] # None => at'[picked'[c]] \in Past
    BY <1>1, <2>4 DEF PastInv, TypeOK
  <2> QED BY <2>6, <2>7, <2>8 DEF PastInv
<1>9. ServingIsAdvertised' /\ GoneMeansUnadvertised'
  <2>1. at'[s] = "serving" => s \in providers'
    BY <1>0, <1>3, <1>4
  <2>2. \A t \in Servers \ {s} : t \in providers' <=> t \in providers
    BY <1>4
  <2> QED BY <1>1, <1>3, <2>1, <2>2 DEF ServingIsAdvertised, GoneMeansUnadvertised, Processes
<1>10. UnsetMeansGone'
  <2>1. \A c \in Clients : c \in Processes \ {s}
    BY NoneAssumption DEF Processes
  <2>2. \A c \in Clients : picked[c] # s
    BY NoneAssumption DEF PastInv, Past, Failed
  <2>3. \A c \in Clients : picked[c] \notin providers => picked[c] \notin providers'
    BY <1>4, <2>2
  <2> QED BY <1>1, <2>1, <2>3 DEF UnsetMeansGone
<1>11. ExitsOnlyInARace'
  <2>1. ASSUME NEW i \in 1 .. Depth, creator[i] \in Servers
        PROVE  creator'[i] = creator[i]
    <3>1. i \in nodes
      BY <2>1, NoneAssumption DEF PathInv
    <3> QED BY <1>0, <1>4, <3>1 DEF TypeOK
  <2>2. ~slash_ok => nodes' = nodes
    BY <1>4
  <2>3. at'[s] = "exited" => interrupted'[s]
    BY <1>3
  <2> QED BY <1>1, <2>1, <2>2, <2>3 DEF ExitsOnlyInARace, Processes
<1> QED BY <1>5, <1>6, <1>7, <1>8, <1>9, <1>10, <1>11

(* zoo_create that fails: without an interruption the node was made by     *)
(* another server after the checks, or the path has no end.                *)
LEMMA RefusedIndInv ==
    ASSUME IndInv, NEW s \in Servers, at[s] = "zoo_create",
           ~(Connected(s) /\ CanCreate(s)), Goto(s, "exited"),
           UNCHANGED <<zkVars, level, sessionVars, clientVars>>
    PROVE  IndInv'
<1> USE DEF IndInv, zkVars, sessionVars, clientVars
<1>0. s \in Processes /\ level[s] \in 1 .. Depth + 1 /\ Depth \in Nat \ {0}
  BY DepthAssumption DEF Processes, TypeOK
<1>1. at'[s] = "exited" /\ \A q \in Processes \ {s} : at'[q] = at[q]
  BY <1>0 DEF Goto, TypeOK
<1>2. TypeOK'
  BY DEF Goto, TypeOK, Failed
<1>3. SessionInv' /\ PathInv'
  BY <1>1 DEF SessionInv, PathInv, Working, Processes
<1>4. PastInv'
  <2>1. at'[s] \in Past /\ UNCHANGED <<providers, service_info, picked>>
    BY <1>1 DEF Past, Failed
  <2> QED BY <1>1, <2>1, PastFrame
<1>5. ServingIsAdvertised' /\ GoneMeansUnadvertised' /\ UnsetMeansGone'
  BY <1>1, NoneAssumption DEF ServingIsAdvertised, GoneMeansUnadvertised, UnsetMeansGone, Processes
<1>6. ~interrupted[s] => ~CanCreate(s)
  BY <1>0 DEF SessionInv, Working, Connected
<1>7. slash_ok /\ ~interrupted[s] => \E i \in 1 .. Depth : creator[i] \in Servers \ {s}
  <2> SUFFICES ASSUME slash_ok, ~interrupted[s]
               PROVE  \E i \in 1 .. Depth : creator[i] \in Servers \ {s}
    OBVIOUS
  <2>1. level[s] = 1 \/ level[s] - 1 \in nodes
    BY <1>0 DEF PathInv
  <2>2. level[s] \in nodes
    BY <1>6, <2>1 DEF CanCreate
  <2> QED BY <2>2 DEF PathInv, TypeOK
<1>8. ~slash_ok /\ ~interrupted[s] => Depth \notin nodes
  BY <1>0, <1>6 DEF CanCreate, PathInv, TypeOK
<1>9. ExitsOnlyInARace'
  BY <1>1, <1>7, <1>8 DEF ExitsOnlyInARace, Processes
<1> QED BY <1>2, <1>3, <1>4, <1>5, <1>9

LEMMA ZooCreateIndInv ==
    ASSUME IndInv, NEW s \in Servers, zoo_create(s)
    PROVE  IndInv'
<1>1. CASE Connected(s) /\ CanCreate(s)
  <2>1. at[s] = "zoo_create" /\ Make(s)
    BY <1>1 DEF zoo_create
  <2> QED BY <1>1, <2>1, MakeIndInv
<1>2. CASE ~(Connected(s) /\ CanCreate(s))
  <2>1. /\ at[s] = "zoo_create" /\ Goto(s, "exited")
        /\ UNCHANGED <<zkVars, level, sessionVars, clientVars>>
    BY <1>2 DEF zoo_create
  <2> QED BY <1>2, <2>1, RefusedIndInv
<1> QED BY <1>1, <1>2


-----------------------------------------------------------------------------
(* The end of a process.                                                   *)
LEMMA DestroyIndInv ==
    ASSUME IndInv, NEW s \in Processes, Destroy(s)
    PROVE  IndInv'
<1> USE DEF IndInv, serverVars, clientVars
<1>1. /\ UNCHANGED <<nodes, creator, slash_ok, posted, interrupted, serverVars, clientVars>>
      /\ at[s] \in {"serving", "ready"} /\ at' = [at EXCEPT ![s] = "gone"]
      /\ \/ /\ session[s] = "connected" /\ session' = [session EXCEPT ![s] = "closed"]
            /\ providers' = providers \ {s}
         \/ session[s] # "connected" /\ session' = session /\ providers' = providers
  BY DEF Destroy, Goto, zookeeper_close, Connected, EphemeralsOf
<1>2. /\ at'[s] = "gone"
      /\ \A q \in Processes \ {s} : at'[q] = at[q] /\ session'[q] = session[q]
      /\ session'[s] = session[s] \/ session'[s] = "closed"
  BY <1>1 DEF TypeOK
<1>3. providers' \subseteq providers /\ \A t \in Servers \ {s} : t \in providers' <=> t \in providers
  BY <1>1
<1>4. ~interrupted[s] => s \notin providers'
  BY <1>1 DEF SessionInv, Working
<1>5. TypeOK'
  BY <1>1 DEF TypeOK
<1>6. SessionInv'
  BY <1>1, <1>2 DEF SessionInv, Working
<1>7. PathInv'
  BY <1>1, <1>2 DEF PathInv, Processes
<1>8. PastInv'
  BY <1>1, <1>2, <1>3 DEF PastInv, Past, TypeOK, Processes
<1>9. ServingIsAdvertised' /\ GoneMeansUnadvertised' /\ UnsetMeansGone'
  BY <1>1, <1>2, <1>3, <1>4, NoneAssumption
     DEF ServingIsAdvertised, GoneMeansUnadvertised, UnsetMeansGone, Processes
<1>10. ExitsOnlyInARace'
  BY <1>1, <1>2 DEF ExitsOnlyInARace, Processes
<1> QED BY <1>5, <1>6, <1>7, <1>8, <1>9, <1>10

LEMMA KilledIndInv ==
    ASSUME IndInv, NEW s \in Servers, Killed(s)
    PROVE  IndInv'
<1> USE DEF IndInv, zkVars, sessionVars, serverVars, clientVars
<1>1. /\ UNCHANGED <<zkVars, sessionVars, serverVars, clientVars>>
      /\ at[s] = "serving" /\ at'[s] = "crashed"
      /\ \A q \in Processes \ {s} : at'[q] = at[q]
  BY DEF Killed, Goto, TypeOK, Processes
<1>2. TypeOK'
  BY DEF Killed, Goto, TypeOK, Failed
<1>3. SessionInv' /\ PathInv'
  BY <1>1 DEF SessionInv, PathInv, Working, Processes
<1>4. PastInv'
  <2>1. at'[s] \in Past /\ UNCHANGED <<providers, service_info, picked>>
    BY <1>1 DEF Past, Failed
  <2> QED BY <1>1, <2>1, PastFrame
<1>5. ServingIsAdvertised' /\ GoneMeansUnadvertised' /\ UnsetMeansGone' /\ ExitsOnlyInARace'
  BY <1>1, NoneAssumption
     DEF ServingIsAdvertised, GoneMeansUnadvertised, UnsetMeansGone, ExitsOnlyInARace, Processes
<1> QED BY <1>2, <1>3, <1>4, <1>5

-----------------------------------------------------------------------------
(* The constructor and update_ip_info of RPCClient: what a client sees of  *)
(* the registry is its own affair.                                         *)
LEMMA ClientIndInv ==
    ASSUME IndInv, NEW c \in Clients, Client(c)
    PROVE  IndInv'
<1> USE DEF IndInv, zkVars, sessionVars, serverVars
<1>0. c \in Processes /\ c \notin Servers
  BY NoneAssumption DEF Processes
<1>1. /\ UNCHANGED <<zkVars, sessionVars, serverVars>>
      /\ at[c] \in {"exists", "children", "list", "update", "get", "ready"}
      /\ \E place \in {"children", "list", "update", "get", "ready", "crashed"} :
            at' = [at EXCEPT ![c] = place]
  BY DEF Client, AskService, get_children, update_ip_info, get_data, Goto
<1>2. /\ at'[c] \in {"children", "list", "update", "get", "ready", "crashed"}
      /\ \A q \in Processes \ {c} : at'[q] = at[q]
      /\ \A s \in Servers : at'[s] = at[s]
  BY <1>0, <1>1 DEF TypeOK, Processes
<1>3. \A s \in providers : s \in Servers /\ at[s] \in Past
  BY DEF TypeOK, PastInv
<1>4. /\ service_info' \in [Clients -> SUBSET Servers]
      /\ \A d \in Clients \ {c} : service_info'[d] = service_info[d]
      /\ service_info'[c] = service_info[c] \/ service_info'[c] = providers
  <2>1. \/ service_info' = service_info
        \/ service_info' = [service_info EXCEPT ![c] = providers]
    BY DEF Client, AskService, get_children, update_ip_info, get_data, clientVars
  <2> QED BY <2>1 DEF TypeOK
<1>5. /\ picked' \in [Clients -> Servers \cup {None}]
      /\ \A d \in Clients \ {c} : picked'[d] = picked[d]
      /\ picked'[c] = picked[c] \/ picked'[c] \in service_info[c]
  <2>1. \/ picked' = picked
        \/ \E s \in service_info[c] : picked' = [picked EXCEPT ![c] = s]
    BY DEF Client, AskService, get_children, update_ip_info, get_data, clientVars
  <2> QED BY <2>1 DEF TypeOK
<1>6. /\ ip_' \in [Clients -> Servers \cup {None}]
      /\ \A d \in Clients \ {c} : ip_'[d] = ip_[d]
      /\ ip_'[c] = ip_[c] \/ ip_'[c] \in providers
  <2>1. \/ ip_' = ip_
        \/ picked[c] \in providers /\ ip_' = [ip_ EXCEPT ![c] = picked[c]]
    BY DEF Client, AskService, get_children, update_ip_info, get_data, CanRead, clientVars
  <2> QED BY <2>1 DEF TypeOK
<1>7. port_' \in [Clients -> {"unset", "own", "other"}]
  <2>1. \/ port_' = port_
        \/ \E port \in {"own", "other"} : port_' = [port_ EXCEPT ![c] = port]
    BY DEF Client, AskService, get_children, update_ip_info, get_data, clientVars
  <2> QED BY <2>1 DEF TypeOK
<1>8. TypeOK'
  <2>1. at' \in [Processes -> Failed \cup
                 {"new", "init", "wait", "check", "create", "zoo_create", "serving",
                  "exists", "children", "list", "update", "get", "ready", "gone"}]
    BY <1>1 DEF TypeOK, Failed
  <2> QED BY <1>1, <1>4, <1>5, <1>6, <1>7, <2>1 DEF TypeOK
<1>9. SessionInv'
  BY <1>0, <1>1, <1>2 DEF SessionInv, Working
<1>10. PathInv'
  BY <1>1, <1>2 DEF PathInv
<1>11. PastInv'
  <2>1. \A s \in providers' : at'[s] \in Past
    BY <1>1, <1>2, <1>3
  <2>2. \A d \in Clients : \A s \in service_info'[d] : s \in Servers /\ at'[s] \in Past
    BY <1>2, <1>3, <1>4 DEF PastInv, TypeOK
  <2>3. \A d \in Clients : picked'[d] # None => at'[picked'[d]] \in Past
    BY <1>2, <1>5 DEF PastInv, TypeOK
  <2> QED BY <2>1, <2>2, <2>3 DEF PastInv
<1>12. ServingIsAdvertised' /\ GoneMeansUnadvertised' /\ ExitsOnlyInARace'
  BY <1>1, <1>2 DEF ServingIsAdvertised, GoneMeansUnadvertised, ExitsOnlyInARace
<1>13. UnsetMeansGone'
  <2>1. ASSUME at'[c] = "ready", ip_'[c] = None, ~interrupted[c]
        PROVE  service_info'[c] = {} \/ picked'[c] \notin providers
    <3>1. session[c] = "connected"
      BY <1>0, <1>1, <2>1 DEF SessionInv, Working
    <3>2. CASE update_ip_info(c)
      BY <1>0, <2>1, <3>2 DEF update_ip_info, Goto, TypeOK
    <3>3. CASE get_data(c)
      <4>1. None \notin providers
        BY NoneAssumption DEF TypeOK
      <4>2. CASE CanRead(c)
        BY <2>1, <3>3, <4>1, <4>2 DEF get_data, CanRead, TypeOK
      <4>3. CASE ~CanRead(c)
        BY <3>1, <3>3, <4>3 DEF get_data, CanRead, Connected
      <4> QED BY <4>2, <4>3
    <3>4. ~AskService(c) /\ ~get_children(c)
      BY <1>0, <2>1 DEF AskService, get_children, Goto, TypeOK
    <3> QED BY <3>2, <3>3, <3>4 DEF Client
  <2>2. \A d \in Clients \ {c} : d \in Processes \ {c}
    BY DEF Processes
  <2> QED BY <1>1, <1>2, <1>4, <1>5, <1>6, <2>1, <2>2 DEF UnsetMeansGone
<1> QED BY <1>8, <1>9, <1>10, <1>11, <1>12, <1>13

-----------------------------------------------------------------------------
LEMMA NextIndInv == IndInv /\ [Next]_vars => IndInv'
<1> SUFFICES ASSUME IndInv, [Next]_vars PROVE IndInv'
  OBVIOUS
<1>1. ASSUME NEW p \in Processes, Start(p) PROVE IndInv'
  BY <1>1, StartIndInv
<1>2. ASSUME NEW p \in Processes, global_watcher(p) PROVE IndInv'
  BY <1>2, WatcherIndInv
<1>3. ASSUME NEW p \in Processes, SessionLost(p) PROVE IndInv'
  BY <1>3, SessionLostIndInv
<1>4. ASSUME NEW p \in Processes, SessionExpires(p) PROVE IndInv'
  BY <1>4, SessionExpiresIndInv
<1>5. ASSUME NEW s \in Servers, Server(s) PROVE IndInv'
  BY <1>5, CheckIndInv, ZooCreateIndInv DEF Server
<1>6. ASSUME NEW p \in Processes, Destroy(p) PROVE IndInv'
  BY <1>6, DestroyIndInv
<1>7. ASSUME NEW s \in Servers, Killed(s) PROVE IndInv'
  BY <1>7, KilledIndInv
<1>8. ASSUME NEW c \in Clients, Client(c) PROVE IndInv'
  BY <1>8, ClientIndInv
<1>9. CASE Done \/ UNCHANGED vars
  <2>1. UNCHANGED vars
    BY <1>9 DEF Done
  <2> USE <2>1 DEF vars, zkVars, sessionVars, serverVars, clientVars, IndInv
  <2>2. TypeOK'
    BY DEF TypeOK
  <2>3. SessionInv'
    BY DEF SessionInv
  <2>4. PathInv' /\ PastInv'
    BY DEF PathInv, PastInv
  <2>5. ServingIsAdvertised' /\ GoneMeansUnadvertised' /\ UnsetMeansGone' /\ ExitsOnlyInARace'
    BY DEF ServingIsAdvertised, GoneMeansUnadvertised, UnsetMeansGone, ExitsOnlyInARace
  <2> QED BY <2>2, <2>3, <2>4, <2>5
<1> QED BY <1>1, <1>2, <1>3, <1>4, <1>5, <1>6, <1>7, <1>8, <1>9 DEF Next

LEMMA Invariance == Spec => []IndInv
<1> QED BY InitIndInv, NextIndInv, PTL DEF Spec

-----------------------------------------------------------------------------
(* What a client can read is what a server leaves when registerService has *)
(* come to its end, or when it was cut off.                                *)
Known(s) == interrupted[s] \/ HasServed(s)

AddressInv ==
    /\ \A s \in providers : Known(s)
    /\ AddressWasServed

(* No step takes back that a server has served, or was interrupted.        *)
LEMMA KnownStable ==
    ASSUME TypeOK, [Next]_vars, NEW s \in Servers, Known(s)
    PROVE  Known(s)'
<1> USE DEF Known, HasServed, zkVars, sessionVars, serverVars, clientVars
<1>0. s \in Processes /\ s \notin Clients
  BY NoneAssumption DEF Processes
<1>1. ASSUME NEW p \in Processes, Start(p) PROVE Known(s)'
  BY <1>0, <1>1 DEF Start, zookeeper_init, zoo_set_context, sem_wait, Goto, TypeOK
<1>2. ASSUME NEW p \in Processes, global_watcher(p) PROVE Known(s)'
  BY <1>0, <1>2 DEF global_watcher, Goto, Failed, TypeOK
<1>3. ASSUME NEW p \in Processes, SessionLost(p) \/ SessionExpires(p) PROVE Known(s)'
  BY <1>0, <1>3 DEF SessionLost, SessionExpires, TypeOK
<1>4. ASSUME NEW p \in Processes, Destroy(p) PROVE Known(s)'
  BY <1>0, <1>4 DEF Destroy, Goto, TypeOK
<1>5. ASSUME NEW t \in Servers, Server(t) PROVE Known(s)'
  <2>0. t \in Processes
    BY DEF Processes
  <2>1. at[t] \in {"check", "create", "zoo_create"}
    BY <1>5 DEF Server, registerService, create, zoo_create
  <2>2. interrupted[s] => interrupted'[s]
    BY <1>0, <1>5, <2>0 DEF Server, registerService, create, zoo_create, TypeOK
  <2>3. t # s => level'[s] = level[s] /\ at'[s] = at[s]
    BY <1>0, <1>5, <2>0 DEF Server, registerService, create, zoo_create, NextLevel, Goto, TypeOK
  <2> QED BY <2>1, <2>2, <2>3
<1>6. ASSUME NEW t \in Servers, Killed(t) PROVE Known(s)'
  BY <1>0, <1>6 DEF Killed, Goto, TypeOK
<1>7. ASSUME NEW c \in Clients, Client(c) PROVE Known(s)'
  BY <1>0, <1>7 DEF Client, AskService, get_children, update_ip_info, get_data, Goto, TypeOK
<1>8. CASE Done \/ UNCHANGED vars
  BY <1>8 DEF Done, vars
<1> QED BY <1>1, <1>2, <1>3, <1>4, <1>5, <1>6, <1>7, <1>8 DEF Next

(* A process that crashed stays where it is.                               *)
LEMMA CrashedStable ==
    ASSUME TypeOK, [Next]_vars, NEW q \in Processes, at[q] = "crashed"
    PROVE  at'[q] = "crashed"
<1>0. Servers \subseteq Processes /\ Clients \subseteq Processes
  BY DEF Processes
<1>1. ASSUME NEW p \in Processes,
             Start(p) \/ global_watcher(p) \/ SessionLost(p) \/ SessionExpires(p) \/ Destroy(p)
      PROVE  at'[q] = "crashed"
  BY <1>1 DEF Start, zookeeper_init, zoo_set_context, sem_wait, global_watcher, SessionLost,
              SessionExpires, Destroy, Goto, Failed, TypeOK
<1>2. ASSUME NEW s \in Servers, Server(s) \/ Killed(s) PROVE at'[q] = "crashed"
  BY <1>0, <1>2 DEF Server, registerService, create, zoo_create, NextLevel, Killed, Goto, TypeOK
<1>3. ASSUME NEW c \in Clients, Client(c) PROVE at'[q] = "crashed"
  BY <1>0, <1>3 DEF Client, AskService, get_children, update_ip_info, get_data, Goto, TypeOK
<1>4. CASE Done \/ UNCHANGED vars
  BY <1>4 DEF Done, vars
<1> QED BY <1>1, <1>2, <1>3, <1>4 DEF Next

(* Only zoo_create adds a provider, as its last step or when it is cut off. *)
LEMMA ProvidersKnown ==
    ASSUME TypeOK, AddressInv, [Next]_vars
    PROVE  \A s \in providers' : Known(s)'
<1> USE DEF zkVars, sessionVars, serverVars, clientVars
<1>1. providers \subseteq Servers
  BY DEF TypeOK
<1>2. ASSUME NEW t \in Servers, zoo_create(t) PROVE \A s \in providers' : Known(s)'
  <2>0. t \in Processes
    BY DEF Processes
  <2>1. CASE providers' = providers
    BY <1>1, <2>1, KnownStable DEF AddressInv
  <2>2. CASE providers' # providers
    <3>1. Make(t) /\ level[t] > Depth /\ providers' = providers \cup {t}
      BY <1>2, <2>2, DepthAssumption DEF zoo_create, Make, TypeOK
    <3>2. Known(t)'
      <4>1. CASE NextLevel(t)
        BY <2>0, <3>1, <4>1, DepthAssumption
           DEF NextLevel, MoreComponents, Goto, Known, HasServed, TypeOK
      <4>2. CASE interrupted' = [interrupted EXCEPT ![t] = TRUE]
        BY <2>0, <4>2 DEF Known, TypeOK
      <4> QED BY <1>2, <2>2, <4>1, <4>2 DEF zoo_create
    <3> QED BY <1>1, <3>1, <3>2, KnownStable DEF AddressInv
  <2> QED BY <2>1, <2>2
<1>3. (\E t \in Servers : zoo_create(t)) \/ providers' \subseteq providers
  BY DEF Next, Start, zookeeper_init, zoo_set_context, sem_wait, global_watcher,
         SessionLost, SessionExpires, Server, registerService, create, Destroy, zookeeper_close,
         Killed, Client, AskService, get_children, update_ip_info, get_data, Done, vars
<1> QED BY <1>1, <1>2, <1>3, KnownStable DEF AddressInv

(* get_data takes the address of a provider, and the port with it.         *)
LEMMA NextAddressInv ==
    ASSUME IndInv, AddressInv, [Next]_vars
    PROVE  AddressInv'
<1> USE DEF zkVars, sessionVars, serverVars, clientVars
<1>0. TypeOK /\ None \notin Servers
  BY NoneAssumption DEF IndInv
<1>1. \A s \in providers' : Known(s)'
  BY <1>0, ProvidersKnown
<1>2. ASSUME NEW c \in Clients, ip_'[c] # None, at'[c] # "crashed"
      PROVE  (\E s \in Servers : ip_'[c] = s /\ Known(s)') /\ port_'[c] # "unset"
  <2>0. c \in Processes
    BY DEF Processes
  <2>1. CASE get_data(c) /\ CanRead(c)
    <3>1. PICK s \in Servers : s \in providers /\ ip_'[c] = s
      BY <1>0, <2>1 DEF get_data, CanRead, TypeOK
    <3>2. Known(s)'
      BY <1>0, <3>1, KnownStable DEF AddressInv
    <3>3. port_'[c] # "unset"
      BY <1>0, <1>2, <2>0, <2>1 DEF get_data, CanRead, Goto, TypeOK
    <3> QED BY <3>1, <3>2, <3>3
  <2>2. CASE ip_'[c] = ip_[c] /\ port_'[c] = port_[c] /\ (at[c] = "crashed" => at'[c] = "crashed")
    <3>1. PICK s \in Servers : ip_[c] = s /\ Known(s)
      BY <1>0, <1>2, <2>2 DEF AddressInv, AddressWasServed, Known, TypeOK
    <3>2. port_[c] # "unset"
      BY <1>0, <1>2, <2>2 DEF AddressInv, AddressWasServed
    <3>3. Known(s)'
      BY <1>0, <3>1, KnownStable
    <3> QED BY <2>2, <3>1, <3>2, <3>3
  <2>3. (get_data(c) /\ CanRead(c)) \/ (ip_'[c] = ip_[c] /\ port_'[c] = port_[c])
    <3>1. (\E d \in Clients : get_data(d)) \/ (ip_' = ip_ /\ port_' = port_)
      BY DEF Next, Start, zookeeper_init, zoo_set_context, sem_wait, global_watcher,
             SessionLost, SessionExpires, Server, registerService, create, zoo_create, Destroy,
             Killed, Client, AskService, get_children, update_ip_info, Done, vars
    <3>2. ASSUME NEW d \in Clients, get_data(d), d # c
          PROVE  ip_'[c] = ip_[c] /\ port_'[c] = port_[c]
      BY <1>0, <3>2 DEF get_data, TypeOK
    <3>3. ASSUME get_data(c), ~CanRead(c)
          PROVE  ip_'[c] = ip_[c] /\ port_'[c] = port_[c]
      BY <3>3 DEF get_data
    <3> QED BY <3>1, <3>2, <3>3
  <2>4. at[c] = "crashed" => at'[c] = "crashed"
    BY <1>0, <2>0, CrashedStable
  <2> QED BY <2>1, <2>2, <2>3, <2>4
<1>3. AddressWasServed'
  <2>1. ASSUME NEW c \in Clients, ip_'[c] # None, at'[c] # "crashed"
        PROVE  (interrupted'[ip_'[c]] \/ HasServed(ip_[c])') /\ port_'[c] # "unset"
    BY <1>2, <2>1 DEF Known, HasServed
  <2> QED BY <2>1 DEF AddressWasServed
<1> QED BY <1>1, <1>3 DEF AddressInv

-----------------------------------------------------------------------------

(* A server that serves is in the registry, one that was destroyed is not, *)
(* as long as ZooKeeper can be reached, and a client without an address    *)
(* found no provider or one that left: for any servers, clients and path.  *)
THEOREM RegistrySafety == Spec => []RegistryIsTrue
<1>1. IndInv => RegistryIsTrue
  BY DEF IndInv, RegistryIsTrue
<1> QED BY <1>1, Invariance, PTL

(* registerService ends the process of a server whose session was never    *)
(* interrupted only when another server made a component of the path, or   *)
(* when nobody can: however many servers start together.                   *)
THEOREM RegistrationSafety == Spec => []ExitsOnlyInARace
<1>1. IndInv => ExitsOnlyInARace
  BY DEF IndInv
<1> QED BY <1>1, Invariance, PTL

(* The address a client goes by is that of a server whose registerService  *)
(* came to its end, with a port, unless that server was cut off.           *)
THEOREM AddressSafety == Spec => []AddressWasServed
<1>1. Init => AddressInv
  BY DEF Init, AddressInv, AddressWasServed
<1>2. IndInv /\ AddressInv /\ [Next]_vars => AddressInv'
  BY NextAddressInv
<1>3. AddressInv => AddressWasServed
  BY DEF AddressInv
<1> QED BY <1>1, <1>2, <1>3, Invariance, PTL DEF Spec

=============================================================================
