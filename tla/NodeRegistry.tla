---------------------------- MODULE NodeRegistry ----------------------------
(***************************************************************************)
(* Node registration, connection and quit, across the schedulers that     *)
(* share one persistent db (scheduler package and persistent.sqlDB).      *)
(*                                                                         *)
(* EdgeNodeConnect / CandidateNodeConnect check the registration, install *)
(* the session in the node manager, then save the node row through        *)
(* SetNodeInfo, which reads the row (GetNodeInfo) and then INSERTs it if  *)
(* it was missing or UPDATEs it (is_online, server_name) if not.  At      *)
(* start-up InitSQL runs SetAllNodeOffline for this server_name.  NodeQuit *)
(* hands the device to nodeExitedCallback, which deletes its replica rows.*)
(*                                                                         *)
(* Nodes authenticate with JWTs: AuthNodeNew signs the requested         *)
(* permissions with the device secret, AuthNodeVerify checks a token with *)
(* the device secret, or with the scheduler's APISecret when the request  *)
(* names no device.  The RPC layer then admits a method by the //perm tag *)
(* of api.Scheduler: connects need write, NodeQuit needs admin.           *)
(*                                                                         *)
(* The node manager (sessions, keepalive) and the replica manager are not *)
(* in this source tree: their effect is taken from the spec.              *)
(***************************************************************************)
EXTENDS Naturals, FiniteSets, Sequences

CONSTANTS
    Devices,    \* device ids (model values)
    Servers,    \* scheduler instances (server_name)
    Hashes,     \* carfile hashes
    Need        \* need_reliability of every carfile

ASSUME Need \in Nat \ {0}

NodeTypes == {"edge", "candidate"}
PermOrder == <<"read", "write", "sign", "admin">>   \* api.AllPermissions, in order
Perms == {PermOrder[i] : i \in 1..4}
Requests == {{"read", "write"}, Perms}          \* perms a caller of AuthNodeNew asks for
Clients == Devices \cup {"admin", "user"}       \* node operators, the admin, any other client

(* The //perm tag of each api.Scheduler method modelled here: the RPC    *)
(* layer admits a call only if the caller's token grants it.            *)
MethodPerm == [EdgeNodeConnect |-> "write", CandidateNodeConnect |-> "write",
               NodeQuit |-> "admin", AuthNodeNew |-> "read", AuthNodeVerify |-> "read"]
NoRow == [exists |-> FALSE, online |-> FALSE, server |-> "none"]

VARIABLES
    registered,     \* register table: device -> node_type, or "none"
    sessions,       \* node manager of each server: device -> type or "none"
    nodeRow,        \* node table: device -> exists, is_online, server_name
    saving,         \* connect handlers inside SetNodeInfo
    replicas,       \* replica rows that succeeded: <<hash, device>>
    curRel,         \* carfile_record.cur_reliability
    tokens          \* JWTs handed out: holder, signing key (device or "api"), Allow

vars == <<registered, sessions, nodeRow, saving, replicas, curRel, tokens>>

Rows == [exists : BOOLEAN, online : BOOLEAN, server : Servers \cup {"none"}]
Saving == [s : Servers, d : Devices, pc : {"read", "write"}, found : BOOLEAN]

TypeOK ==
    /\ registered \in [Devices -> NodeTypes \cup {"none"}]
    /\ sessions \in [Servers -> [Devices -> NodeTypes \cup {"none"}]]
    /\ nodeRow \in [Devices -> Rows]
    /\ saving \subseteq Saving
    /\ replicas \subseteq Hashes \X Devices
    /\ curRel \in [Hashes -> 0..Need]
    /\ tokens \subseteq [holder : Clients, key : Devices \cup {"api"}, allow : SUBSET Perms]

Init ==
    /\ registered = [d \in Devices |-> "none"]
    /\ sessions = [s \in Servers |-> [d \in Devices |-> "none"]]
    /\ nodeRow = [d \in Devices |-> NoRow]
    /\ saving = {}
    /\ replicas = {}
    /\ curRel = [h \in Hashes |-> 0]
    /\ tokens = {[holder |-> "admin", key |-> "api", allow |-> Perms]}

-----------------------------------------------------------------------------
(* AllocateNodes: node.Allocate binds a fresh device id and secret with  *)
(* BindRegisterInfo (INSERT INTO register).                              *)
AllocateNodes(t) ==
    /\ \E d \in Devices :
         /\ registered[d] = "none"
         /\ registered' = [registered EXCEPT ![d] = t]
    /\ UNCHANGED <<sessions, nodeRow, saving, replicas, curRel, tokens>>

(* deviceExists: a register row whose node_type is t (any type when the *)
(* caller passes 0, written "any" here).                                 *)
DeviceExists(d, t) ==
    /\ registered[d] # "none"
    /\ t # "any" => registered[d] = t

(* AuthNodeVerify: a request that names no device is checked against   *)
(* the APISecret, one that names device d against d's secret read from  *)
(* the register table; the token's Allow is returned.  The caller names *)
(* the device of the request, so a token verifies when it was signed    *)
(* with the APISecret or with the secret of a registered device.        *)
AuthNodeVerify(t) == t.key = "api" \/ registered[t.key] # "none"

(* The permissions the RPC layer grants client a: the Allow of any      *)
(* token it holds that verifies.                                        *)
Granted(a) == UNION {t.allow : t \in {u \in tokens : u.holder = a /\ AuthNodeVerify(u)}}

(* The device secrets client a knows: AllocateNodes (//perm:admin)       *)
(* returns every new device's secret to its caller, the admin, who hands *)
(* each one to that device's operator.  Other clients know none.         *)
KnownSecret(a) == IF a = "admin" THEN Devices
                  ELSE IF a \in Devices THEN {a} ELSE {}

(* AuthNodeNew (//perm:read, so any client): read d's secret from the   *)
(* register table (an error returns), compare it with the secret the    *)
(* caller sent, and sign the caller's perms with it.                    *)
AuthNodeNew(a, d, perms) ==
    /\ registered[d] # "none"
    /\ d \in KnownSecret(a)
    /\ tokens' = tokens \cup {[holder |-> a, key |-> d, allow |-> perms]}
    /\ UNCHANGED <<registered, sessions, nodeRow, saving, replicas, curRel>>

(* The connect handler up to SaveInfo (//perm:write): the registration  *)
(* check, then EdgeOnline / CandidateOnline, which replaces any session *)
(* of d on this server.  The RPC, device-info and key errors return     *)
(* before any state changes and are stuttering steps.                   *)
NodeOnline(s, d, t) ==
    /\ MethodPerm[IF t = "edge" THEN "EdgeNodeConnect" ELSE "CandidateNodeConnect"] \in Granted(d)
    /\ DeviceExists(d, t)
    /\ sessions' = [sessions EXCEPT ![s][d] = t]
    /\ saving' = saving \cup {[s |-> s, d |-> d, pc |-> "read", found |-> FALSE]}
    /\ UNCHANGED <<registered, nodeRow, replicas, curRel, tokens>>

CandidateNodeConnect(s, d) == NodeOnline(s, d, "candidate")
EdgeNodeConnect(s, d) == NodeOnline(s, d, "edge")

(* SetNodeInfo, first half: GetNodeInfo.  A query error other than "not *)
(* found" is returned: the connect fails, and its session stays.         *)
SetNodeInfoRead(p) ==
    /\ p \in saving /\ p.pc = "read"
    /\ \E queryOk \in BOOLEAN :
         saving' = (saving \ {p}) \cup
                     IF queryOk
                     THEN {[p EXCEPT !.pc = "write", !.found = nodeRow[p.d].exists]}
                     ELSE {}
    /\ UNCHANGED <<registered, sessions, nodeRow, replicas, curRel, tokens>>

(* SetNodeInfo, second half: UPDATE is_online, server_name when the read *)
(* found the row, else INSERT, which fails on the device_id key if a row *)
(* appeared meanwhile.  Either statement may fail; the connect then      *)
(* returns the error, its session installed.                             *)
SetNodeInfoWrite(p) ==
    /\ p \in saving /\ p.pc = "write"
    /\ saving' = saving \ {p}
    /\ \E execOk \in BOOLEAN :
         nodeRow' =
           IF execOk /\ (p.found \/ ~nodeRow[p.d].exists)
           THEN [nodeRow EXCEPT ![p.d] =
                   [exists |-> TRUE, online |-> TRUE, server |-> p.s]]
           ELSE nodeRow
    /\ UNCHANGED <<registered, sessions, replicas, curRel, tokens>>

(* Node manager: a session ends and the node is marked offline (spec    *)
(* 4.C OnDisconnect).                                                    *)
NodeOffline(s, d) ==
    /\ sessions[s][d] # "none"
    /\ sessions' = [sessions EXCEPT ![s][d] = "none"]
    /\ nodeRow' = [nodeRow EXCEPT ![d].online = FALSE]
    /\ UNCHANGED <<registered, saving, replicas, curRel, tokens>>

(* SetAllNodeOffline: UPDATE node SET is_online=0 WHERE server_name.     *)
SetAllNodeOffline(s) ==
    [d \in Devices |-> IF nodeRow[d].server = s
                       THEN [nodeRow[d] EXCEPT !.online = FALSE]
                       ELSE nodeRow[d]]

(* The get-api-key command: the token signed with the APISecret allows   *)
(* every permission of api.AllPermissions up to the one asked for (a    *)
(* name not in the list returns an error).  The admin runs it.          *)
GetAPIKey(perm) ==
    /\ \E idx \in 1..Len(PermOrder) :
         /\ PermOrder[idx] = perm
         /\ tokens' = tokens \cup {[holder |-> "admin", key |-> "api",
                                    allow |-> {PermOrder[i] : i \in 1..idx}]}
    /\ UNCHANGED <<registered, sessions, nodeRow, saving, replicas, curRel>>

(* A scheduler restarts (the run command): its sessions and handlers are *)
(* gone, persistent.NewDB runs InitSQL, which marks its own rows offline, *)
(* and NewLocalScheduleNode signs its tokens again with the same         *)
(* APISecret from the repo's keystore, so the tokens are unchanged.  A   *)
(* start that panics on a cache, region or db error is a scheduler that  *)
(* stays down, which is not modelled.                                     *)
Restart(s) ==
    /\ sessions' = [sessions EXCEPT ![s] = [d \in Devices |-> "none"]]
    /\ saving' = {p \in saving : p.s # s}
    /\ nodeRow' = SetAllNodeOffline(s)
    /\ UNCHANGED <<registered, replicas, curRel, tokens>>

(* Replica manager (spec 4.F): a replica of h on an online node succeeds *)
(* and counts toward cur_reliability.                                    *)
CacheSucceeded(h, d) ==
    /\ \E s \in Servers : sessions[s][d] # "none"
    /\ <<h, d>> \notin replicas
    /\ curRel[h] < Need
    /\ replicas' = replicas \cup {<<h, d>>}
    /\ curRel' = [curRel EXCEPT ![h] = @ + 1]
    /\ UNCHANGED <<registered, sessions, nodeRow, saving, tokens>>

(* NodeQuit (//perm:admin; no secret check) -> nodeExitedCallback:      *)
(* load the hashes, delete the replica rows of the device; either query *)
(* may fail, and the callback then returns.  The hashes are only logged *)
(* ("need restore").  Caller a must hold the admin permission.          *)
NodeQuit(a, d) ==
    /\ MethodPerm["NodeQuit"] \in Granted(a)
    /\ \E loadOk, removeOk \in BOOLEAN :
         replicas' = IF loadOk /\ removeOk
                     THEN {r \in replicas : r[2] # d} ELSE replicas
    /\ UNCHANGED <<registered, sessions, nodeRow, saving, curRel, tokens>>

Next ==
    \/ \E t \in NodeTypes : AllocateNodes(t)
    \/ \E s \in Servers, d \in Devices :
         \/ CandidateNodeConnect(s, d) \/ EdgeNodeConnect(s, d)
         \/ NodeOffline(s, d)
    \/ \E p \in saving : SetNodeInfoRead(p) \/ SetNodeInfoWrite(p)
    \/ \E s \in Servers : Restart(s)
    \/ \E perm \in Perms : GetAPIKey(perm)
    \/ \E h \in Hashes, d \in Devices : CacheSucceeded(h, d)
    \/ \E a \in Clients, d \in Devices : NodeQuit(a, d)
    \/ \E a \in Clients, d \in Devices, perms \in Requests :
         AuthNodeNew(a, d, perms)

Spec == Init /\ [][Next]_vars

-----------------------------------------------------------------------------
(* A node row marked online belongs to a live session on its server: a  *)
(* connect handler's SaveInfo, finishing after the session has already   *)
(* ended, does not leave the node online in the db.                      *)
OnlineRowHasSession ==
    \A d \in Devices :
        nodeRow[d].online => sessions[nodeRow[d].server][d] # "none"

(* Device d is live on a scheduler other than s, and the connect handler *)
(* that installed it there has returned.                                  *)
LiveOnPeer(s, d) ==
    \E o \in Servers \ {s} :
        /\ sessions[o][d] # "none"
        /\ ~\E p \in saving : p.s = o /\ p.d = d

(* SetAllNodeOffline at start-up is scoped to the scheduler's own        *)
(* server_name "so a second scheduler cannot clobber peer state" (spec   *)
(* 4.C): a scheduler's restart never marks offline a node row of a       *)
(* device that is live on another scheduler.                             *)
NoPeerClobber ==
    [][\A s \in Servers :
         Restart(s) => \A d \in Devices :
                         nodeRow[d].online /\ LiveOnPeer(s, d) => nodeRow'[d].online]_vars

(* Only the admin is granted the admin permission, which api.Scheduler  *)
(* requires of NodeQuit, ValidateStart, ValidateSwitch, RegisterNode:   *)
(* the permissions a node may ask AuthNodeNew for are not limited.      *)
AdminOnlyForAdmin ==
    \A a \in Clients \ {"admin"} : "admin" \notin Granted(a)

=============================================================================
