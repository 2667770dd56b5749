--------------------------- MODULE ServiceRegistry ---------------------------
(***************************************************************************)
(* Servers that register a service in ZooKeeper and clients that look one  *)
(* up (src/rpc/ZKClient.cpp, registerService of src/rpc/RPCServer.cpp, the *)
(* constructor and update_ip_info of src/rpc/RPCClient.cpp).  A client     *)
(* looks once: update_ip_info is private and only its constructor calls    *)
(* it.                                                                     *)
(*                                                                         *)
(* ZooKeeper is external and modelled from the calls the code makes: every *)
(* synchronous call is one step; it fails while the session is             *)
(* interrupted; a session that stays interrupted, or whose process has     *)
(* died, expires, and its ephemeral nodes go with it.  The names of        *)
(* sequential nodes are never used twice.                                  *)
(***************************************************************************)
EXTENDS Naturals, FiniteSets

CONSTANTS Servers, Clients,
          Depth,          \* components of the service's path
          MaxInterruptions, \* bound: sessions that are interrupted
          SlashResults,   \* may a path end in "/": depends on ZooKeeper's client
          None

ASSUME DepthAssumption == Depth \in Nat \ {0}
ASSUME InterruptionsAssumption == MaxInterruptions \in Nat
ASSUME SlashAssumption == SlashResults \subseteq BOOLEAN
ASSUME NoneAssumption == Servers \cap Clients = {} /\ None \notin Servers

Processes == Servers \cup Clients

VARIABLES
    nodes,        \* the components of the path that have a node
    creator,      \* history: who made them, None for those that were there
    providers,    \* the ephemeral nodes, named by the server that made them
    slash_ok,     \* a path that ends in "/" is accepted
    session,      \* session[p]: the state of p's session
    posted,       \* posted[p]: the semaphore of p's start()
    at,           \* at[p]: where p is
    level,        \* level[s]: the component registerService has come to
    service_info, \* service_info[c]: the providers listed
    picked,       \* picked[c]: the one chosen
    ip_, port_,   \* the address c has got
    interrupted   \* history: p's session was interrupted

zkVars == <<nodes, creator, providers, slash_ok>>
sessionVars == <<session, posted, interrupted>>
serverVars == <<level>>
clientVars == <<service_info, picked, ip_, port_>>

vars == <<zkVars, sessionVars, at, serverVars, clientVars>>

Failed == {"exited", "crashed"}

TypeOK ==
    /\ nodes \subseteq 1 .. Depth
    /\ creator \in [1 .. Depth -> Servers \cup {None}]
    /\ providers \subseteq Servers
    /\ slash_ok \in SlashResults
    /\ session \in [Processes -> {"none", "new", "connected", "lost", "expired", "closed"}]
    /\ posted \in [Processes -> BOOLEAN]
    /\ at \in [Processes -> Failed \cup
                 {"new", "init", "wait", "check", "create", "zoo_create", "serving",
                  "exists", "children", "list", "update", "get", "ready", "gone"}]
    /\ level \in [Servers -> 1 .. Depth + 1]
    /\ service_info \in [Clients -> SUBSET Servers]
    /\ picked \in [Clients -> Servers \cup {None}]
    /\ ip_ \in [Clients -> Servers \cup {None}]
    /\ port_ \in [Clients -> {"unset", "own", "other"}]
    /\ interrupted \in [Processes -> BOOLEAN]

(* Some of the path may have been made before, from the root on.           *)
Init ==
    /\ nodes \in {1 .. n : n \in 0 .. Depth}
    /\ creator = [i \in 1 .. Depth |-> None]
    /\ providers = {}
    /\ slash_ok \in SlashResults
    /\ session = [p \in Processes |-> "none"]
    /\ posted = [p \in Processes |-> FALSE]
    /\ at = [p \in Processes |-> "new"]
    /\ level = [s \in Servers |-> 1]
    /\ service_info = [c \in Clients |-> {}]
    /\ picked = [c \in Clients |-> None]
    /\ ip_ = [c \in Clients |-> None] /\ port_ = [c \in Clients |-> "unset"]
    /\ interrupted = [p \in Processes |-> FALSE]

Goto(p, place) == at' = [at EXCEPT ![p] = place]

-----------------------------------------------------------------------------
(* ZKClient::start: zookeeper_init, which may fail ...                     *)
zookeeper_init(p) ==
    /\ at[p] = "new"
    /\ \/ Goto(p, "init") /\ session' = [session EXCEPT ![p] = "new"]
       \/ Goto(p, "exited") /\ UNCHANGED session
    /\ UNCHANGED <<zkVars, posted, interrupted, serverVars, clientVars>>

(* ... the context ...                                                     *)
zoo_set_context(p) ==
    /\ at[p] = "init"
    /\ Goto(p, "wait")
    /\ UNCHANGED <<zkVars, sessionVars, serverVars, clientVars>>

(* ... and sem_wait, whose result is not looked at (that a signal cuts it  *)
(* short is left out); then the constructor goes on.                       *)
sem_wait(p) ==
    /\ at[p] = "wait"
    /\ posted[p]
    /\ Goto(p, IF p \in Servers THEN "check" ELSE "exists")
    /\ UNCHANGED <<zkVars, sessionVars, serverVars, clientVars>>

(* global_watcher, on the client library's thread: the semaphore it posts  *)
(* is null before zoo_set_context, and a stack slot of a returned call     *)
(* after start(), where sem_post may do no harm or any.                    *)
PostNothing(p) == posted

Post(p) == [posted EXCEPT ![p] = TRUE]

global_watcher(p) ==
    /\ session[p] \in {"new", "lost"}
    /\ at[p] \notin Failed \cup {"gone"}
    /\ session' = [session EXCEPT ![p] = "connected"]
    /\ \/ at[p] = "init" /\ Goto(p, "crashed") /\ UNCHANGED posted
       \/ at[p] = "wait" /\ posted' = Post(p) /\ UNCHANGED at
       \/ /\ at[p] \notin {"init", "wait"}
          /\ at' \in {at, [at EXCEPT ![p] = "crashed"]}
          /\ UNCHANGED posted
    /\ UNCHANGED <<zkVars, interrupted, serverVars, clientVars>>

-----------------------------------------------------------------------------
(* ZooKeeper's side of a session.                                          *)
CanInterrupt(p) ==
    /\ ~interrupted[p]
    /\ Cardinality({q \in Processes : interrupted[q]}) < MaxInterruptions

SessionLost(p) ==
    /\ session[p] = "connected"
    /\ CanInterrupt(p)
    /\ session' = [session EXCEPT ![p] = "lost"]
    /\ interrupted' = [interrupted EXCEPT ![p] = TRUE]
    /\ UNCHANGED <<zkVars, posted, at, serverVars, clientVars>>

(* The nodes of p that end with its session: the provider, made with       *)
(* ZOO_EPHEMERAL_SEQUENTIAL.                                               *)
SequentialOnly(p) == {}

EphemeralsOf(p) == {p}

SessionExpires(p) ==
    /\ \/ session[p] = "lost"
       \/ session[p] = "connected" /\ at[p] \in Failed
    /\ session' = [session EXCEPT ![p] = "expired"]
    /\ providers' = providers \ EphemeralsOf(p)
    /\ UNCHANGED <<nodes, creator, slash_ok, posted, interrupted, at,
                   serverVars, clientVars>>

-----------------------------------------------------------------------------
Connected(p) == session[p] = "connected"

(* check_znode_exists: every answer but ZNONODE counts as existing, an     *)
(* error and a path that is not accepted too.                              *)
ExistsIfMade(p, accepted, present) == accepted /\ present

check_znode_exists(p, accepted, present) ==
    Connected(p) /\ accepted => present

(* The names of sequential nodes differ from the path they are made of.    *)
AnyProvider == providers # {}

ProviderPresent == FALSE

(* registerService asks for, and makes, the components with a "/" at their *)
(* end, and then the provider node.                                        *)
Exists(s) ==
    LET l == level[s]
    IN IF l <= Depth THEN check_znode_exists(s, slash_ok, l \in nodes)
                     ELSE check_znode_exists(s, TRUE, ProviderPresent)

MoreComponents(s) == level[s] <= Depth

NextLevel(s) ==
    IF MoreComponents(s)
    THEN level' = [level EXCEPT ![s] = @ + 1] /\ Goto(s, "check")
    ELSE UNCHANGED level /\ Goto(s, "serving")

registerService(s) ==
    /\ at[s] = "check"
    /\ IF MoreComponents(s) /\ Exists(s)
       THEN NextLevel(s)
       ELSE Goto(s, "create") /\ UNCHANGED level
    /\ UNCHANGED <<zkVars, sessionVars, clientVars>>

(* ZKClient::create asks again ...                                         *)
create(s) ==
    /\ at[s] = "create"
    /\ IF Exists(s) THEN NextLevel(s) ELSE Goto(s, "zoo_create") /\ UNCHANGED level
    /\ UNCHANGED <<zkVars, sessionVars, clientVars>>

CanCreate(s) ==
    /\ level[s] = 1 \/ level[s] - 1 \in nodes
    /\ level[s] \notin nodes
    /\ level[s] <= Depth => slash_ok

(* The provider made in the loop over the components.                      *)
MakeInLoop(s) ==
    /\ providers' = providers \cup {s}
    /\ IF level[s] <= Depth
       THEN nodes' = nodes \cup {level[s]} /\ creator' = [creator EXCEPT ![level[s]] = s]
       ELSE UNCHANGED <<nodes, creator>>
    /\ UNCHANGED slash_ok

Make(s) ==
    IF level[s] <= Depth
    THEN /\ nodes' = nodes \cup {level[s]}
         /\ creator' = [creator EXCEPT ![level[s]] = s]
         /\ UNCHANGED <<providers, slash_ok>>
    ELSE /\ providers' = providers \cup {s}
         /\ UNCHANGED <<nodes, creator, slash_ok>>

(* ... and zoo_create makes the node, is refused, or is cut off before its *)
(* answer comes; whatever is not ZOK ends the process.                     *)
zoo_create(s) ==
    /\ at[s] = "zoo_create"
    /\ \/ Connected(s) /\ CanCreate(s) /\ Make(s) /\ NextLevel(s) /\ UNCHANGED sessionVars
       \/ /\ ~(Connected(s) /\ CanCreate(s))
          /\ Goto(s, "exited")
          /\ UNCHANGED <<zkVars, level, sessionVars>>
       \/ /\ Connected(s) /\ CanCreate(s) /\ CanInterrupt(s)
          /\ Make(s)
          /\ session' = [session EXCEPT ![s] = "lost"]
          /\ interrupted' = [interrupted EXCEPT ![s] = TRUE]
          /\ Goto(s, "exited")
          /\ UNCHANGED <<posted, level>>
    /\ UNCHANGED clientVars

(* ~ZKClient, the last thing ~RPCServer and ~RPCClient do: zookeeper_close *)
(* ends the session and removes its nodes, unless it cannot be reached.    *)
zookeeper_close(p) ==
    IF Connected(p)
    THEN session' = [session EXCEPT ![p] = "closed"] /\ providers' = providers \ EphemeralsOf(p)
    ELSE UNCHANGED <<session, providers>>

Destroy(p) ==
    /\ at[p] \in {"serving", "ready"}
    /\ zookeeper_close(p)
    /\ Goto(p, "gone")
    /\ UNCHANGED <<nodes, creator, slash_ok, posted, interrupted, serverVars, clientVars>>

(* The process of a server is killed.                                      *)
Killed(s) ==
    /\ at[s] = "serving"
    /\ Goto(s, "crashed")
    /\ UNCHANGED <<zkVars, sessionVars, serverVars, clientVars>>

-----------------------------------------------------------------------------
(* RPCClient's constructor: does the service exist ...                     *)
AskService(c) ==
    /\ at[c] \in {"exists", "children"}
    /\ Goto(c, IF ~check_znode_exists(c, TRUE, Depth \in nodes) THEN "update"
               ELSE IF at[c] = "exists" THEN "children" ELSE "list")
    /\ UNCHANGED <<zkVars, sessionVars, serverVars, clientVars>>

(* ... and zoo_get_children; its result is not looked at, and after a      *)
(* failure the count of the children is whatever was on the stack.         *)
get_children(c) ==
    /\ at[c] = "list"
    /\ \/ /\ Connected(c)
          /\ service_info' = [service_info EXCEPT ![c] = providers]
          /\ Goto(c, "update")
       \/ /\ ~Connected(c)
          /\ Goto(c, "update") \/ Goto(c, "crashed")
          /\ UNCHANGED service_info
    /\ UNCHANGED <<zkVars, sessionVars, serverVars, picked, ip_, port_>>

(* update_ip_info: a random provider of the list ...                       *)
update_ip_info(c) ==
    /\ at[c] = "update"
    /\ \/ /\ service_info[c] = {}
          /\ Goto(c, "ready")
          /\ UNCHANGED picked
       \/ \E s \in service_info[c] :
            /\ picked' = [picked EXCEPT ![c] = s]
            /\ Goto(c, "get")
    /\ UNCHANGED <<zkVars, sessionVars, serverVars, service_info, ip_, port_>>

(* ... and its data.  The buffer has no terminator: a digit that follows   *)
(* the data changes the port, or makes stoi throw.  Without data nothing   *)
(* is set: ip_ stays empty and port_ uninitialised.                        *)
CanRead(c) == Connected(c) /\ picked[c] \in providers

get_data(c) ==
    /\ at[c] = "get"
    /\ \/ /\ CanRead(c)
          /\ ip_' = [ip_ EXCEPT ![c] = picked[c]]
          /\ \/ \E port \in {"own", "other"} : port_' = [port_ EXCEPT ![c] = port]
                /\ Goto(c, "ready")
             \/ Goto(c, "crashed") /\ UNCHANGED port_
       \/ /\ ~CanRead(c)
          /\ Goto(c, "ready")
          /\ UNCHANGED <<ip_, port_>>
    /\ UNCHANGED <<zkVars, sessionVars, serverVars, service_info, picked>>

-----------------------------------------------------------------------------
Start(p) == zookeeper_init(p) \/ zoo_set_context(p) \/ sem_wait(p)

Server(s) == registerService(s) \/ create(s) \/ zoo_create(s)

Client(c) == AskService(c) \/ get_children(c) \/ update_ip_info(c) \/ get_data(c)

Done == /\ \A p \in Processes : at[p] \in Failed \cup {"gone"}
        /\ UNCHANGED vars

Next ==
    \/ \E p \in Processes : Start(p) \/ global_watcher(p) \/ SessionLost(p)
                              \/ SessionExpires(p) \/ Destroy(p)
    \/ \E s \in Servers : Server(s) \/ Killed(s)
    \/ \E c \in Clients : Client(c)
    \/ Done

Spec == Init /\ [][Next]_vars

(* start() goes on, ZooKeeper is reachable in the end, and it expires the  *)
(* sessions it hears nothing of.                                           *)
Fairness ==
    \A p \in Processes :
        /\ WF_vars(Start(p))
        /\ WF_vars(session[p] = "new" /\ global_watcher(p))
        /\ WF_vars(SessionExpires(p))

FairSpec == Spec /\ Fairness

-----------------------------------------------------------------------------
(* registerService ends the process of a server whose session was never    *)
(* interrupted only when another server has made a component of the path   *)
(* too (the race of check_znode_exists and zoo_create), or when no server  *)
(* can make the part that is missing: never alone with a path it can make, *)
(* nor because the service had been registered before.                     *)
ExitsOnlyInARace ==
    \A s \in Servers :
        at[s] = "exited" /\ session[s] # "none" /\ ~interrupted[s] =>
            IF slash_ok THEN \E i \in 1 .. Depth : creator[i] \in Servers \ {s}
                        ELSE Depth \notin nodes

(* A server whose registerService has returned is in the registry, also    *)
(* with other providers of the service beside it, as long as its session   *)
(* has never been interrupted.                                             *)
ServingIsAdvertised ==
    \A s \in Servers : at[s] = "serving" /\ ~interrupted[s] => s \in providers

(* "As long as the session exists, going offline destroys the node"        *)
(* (the comment on RPCServer::zkclient_): a server that was destroyed in   *)
(* good order is no longer in the registry.                                *)
GoneMeansUnadvertised ==
    \A s \in Servers : at[s] = "gone" /\ ~interrupted[s] => s \notin providers

(* A client without an address, whose session was never interrupted, found *)
(* no provider, or picked one that has left since the list was made: the   *)
(* list is never refreshed.                                                *)
UnsetMeansGone ==
    \A c \in Clients :
        at[c] = "ready" /\ ip_[c] = None /\ ~interrupted[c] =>
            service_info[c] = {} \/ picked[c] \notin providers

(* The registry and what clients make of it are true to the servers.       *)
RegistryIsTrue ==
    TypeOK /\ ServingIsAdvertised /\ GoneMeansUnadvertised /\ UnsetMeansGone

(* registerService came to its end: s serves, or did.                      *)
HasServed(s) == level[s] > Depth /\ at[s] \in {"serving", "gone", "crashed"}

(* The address a client goes by is that of a server that serves, or did    *)
(* and has left since: never of one whose registerService has not returned *)
(* or gave up, unless an interruption cut that server off.  The port that  *)
(* goes with it is set: connect_server never uses the uninitialised one    *)
(* with an address.                                                        *)
AddressWasServed ==
    \A c \in Clients :
        ip_[c] # None /\ at[c] # "crashed" =>
            /\ interrupted[ip_[c]] \/ HasServed(ip_[c])
            /\ port_[c] # "unset"

(* start() returns (or the process dies) once ZooKeeper can be reached.    *)
StartReturns == \A p \in Processes : at[p] = "wait" ~> at[p] # "wait"

(* The provider of a server that exited, crashed or was killed leaves the  *)
(* registry in the end.                                                    *)
DeadProviderVanishes ==
    \A s \in Servers : at[s] \in Failed ~> s \notin providers

=============================================================================
