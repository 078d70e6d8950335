------------------------------- MODULE Bridge -------------------------------
(***************************************************************************)
(* Bridge networks: network create, network rm, and init_docker_env, by    *)
(* which every run makes sure of the default bridge and its MASQUERADE     *)
(* rule.  A network is two things that no transaction joins: a bridge      *)
(* interface, which the kernel forgets at a reboot, and a record in the    *)
(* networks file, which outlives it.                                       *)
(*                                                                         *)
(* The file's operations are single steps, as module Ipam promises.  An    *)
(* interface is identified by its index; its alias says who owns it.       *)
(***************************************************************************)
EXTENDS NetworkRecords

CONSTANTS
    Procs,        \* CLI processes
    Default,      \* TINYDOCKER_DEFAULT_NETWORK_NAME
    DefaultCidr,  \* TINYDOCKER_DEFAULT_NETWORK_CIDR
    NoLink,       \* no interface of that name
    MaxCommands,  \* bound: commands issued
    MaxLinks,     \* bound: interfaces created
    MaxFaults,    \* bound: calls that fail of themselves
    MaxCrashes,   \* bound: killed processes
    MaxReboots    \* bound: reboots of the host

ASSUME DefaultAssumption == Default \in Nets /\ DefaultCidr \in Cidrs

ASSUME LimitAssumption ==
    {MaxCommands, MaxLinks, MaxFaults, MaxCrashes, MaxReboots} \subseteq Nat

VARIABLES
    db,       \* the networks file
    link,     \* link[n]: the interface named n
    masq,     \* POSTROUTING MASQUERADE rules of the default CIDR
    pc,       \* pc[p]: where p is
    cmd,      \* cmd[p]: its command
    net,      \* net[p]: the network it is about
    want,     \* want[p]: the CIDR it asks for
    idx,      \* idx[p]: created_index, or original_index of delete_owned_bridge
    after,    \* after[p]: who called delete_owned_bridge
    blind,    \* history: commands overtaken by the administrator after their last look
    made,     \* interfaces created so far; the last one's index
    scars,    \* scars[n]: what excuses a network n that is not whole
    count     \* events so far, for the bounds

frame == <<cmd, net, want, idx, after, blind>>
bounds == <<made, count>>
vars == <<db, link, masq, pc, frame, scars, bounds>>

Links == [index : 1 .. MaxLinks, owned : BOOLEAN, foreign : BOOLEAN, up : BOOLEAN,
          addrs : SUBSET Cidrs]

ASSUME NoLinkAssumption == NoLink \notin Links

Events == {"command", "fault", "crash", "reboot"}
Resting == {"idle", "ok", "failed"}
Places == Resting \cup
    {"default", "adopt", "adoptlink", "setup", "rule", "addrule",
     "exists", "absent", "addbr", "index", "alias", "check", "undo", "record", "address", "up",
     "tracked", "own", "verify", "down", "recheck", "delbr", "forget"}

\* Where p goes by the index it has read.
Named == {"alias", "check", "undo", "verify", "down", "recheck", "delbr"}

\* Where p changes or deletes the interface of the name before it looks again.
Sightless == {"setup", "index", "alias", "undo", "record", "address", "up", "down", "delbr"}

TypeOK ==
    /\ db \in Databases
    /\ link \in [Nets -> Links \cup {NoLink}]
    /\ masq \in 0 .. MaxCommands
    /\ pc \in [Procs -> Places]
    /\ cmd \in [Procs -> {"create", "rm", "run"}]
    /\ net \in [Procs -> Nets] /\ want \in [Procs -> Cidrs]
    /\ idx \in [Procs -> 0 .. MaxLinks]
    /\ \A p \in Procs : pc[p] \in Named => idx[p] # 0
    /\ after \in [Procs -> {"rm", "unrecorded", "unconfigured"}]
    /\ blind \subseteq Procs
    /\ made \in 0 .. MaxLinks
    /\ scars \in [Nets -> SUBSET {"fault", "crash", "race", "reboot", "admin"}]
    /\ count \in [Events -> Nat]

Init ==
    /\ db = EmptyDatabase
    /\ link = [n \in Nets |-> NoLink]
    /\ masq = 0
    /\ pc = [p \in Procs |-> "idle"]
    /\ cmd = [p \in Procs |-> "run"]
    /\ net = [p \in Procs |-> Default] /\ want = [p \in Procs |-> DefaultCidr]
    /\ idx = [p \in Procs |-> 0]
    /\ after = [p \in Procs |-> "rm"]
    /\ blind = {}
    /\ made = 0
    /\ scars = [n \in Nets |-> {}]
    /\ count = [e \in Events |-> 0]

-----------------------------------------------------------------------------
At(p, from, to) == pc[p] = from /\ pc' = [pc EXCEPT ![p] = to]

Counted(e, max) == count[e] < max /\ count' = [count EXCEPT ![e] = @ + 1]

Scar(n, why) == scars' = [scars EXCEPT ![n] = @ \cup {why}]

\* if_nametoindex.
Index(n) == IF link[n] = NoLink THEN 0 ELSE link[n].index

\* verify_interface_ownership: a bridge whose alias is tinydocker-network:<n>.
Owned(n) == link[n] # NoLink /\ link[n].owned

AtWork(n) == {p \in Procs : net[p] = n /\ pc[p] \notin Resting}

\* A step of p that changes nothing but where p is.
Moves(p, from, to) ==
    At(p, from, to) /\ UNCHANGED <<db, link, masq, frame, scars, bounds>>

\* A command that p runs, or a write of the networks file, fails.
Fault(p, from, to) ==
    /\ At(p, from, to)
    /\ Counted("fault", MaxFaults)
    /\ UNCHANGED <<db, link, masq, frame, scars, made>>

\* The same for a call whose failure leaves something behind.
LeavingFault(p, from, to) ==
    /\ At(p, from, to)
    /\ Counted("fault", MaxFaults)
    /\ Scar(net[p], "fault")
    /\ UNCHANGED <<db, link, masq, frame, made>>

\* An ip command that changes the interface named net[p].
SetLink(p, from, to, field, value) ==
    /\ At(p, from, to)
    /\ link[net[p]] # NoLink
    /\ link' = [link EXCEPT ![net[p]] = [@ EXCEPT ![field] = value]]
    /\ UNCHANGED <<db, masq, frame, scars, bounds>>

\* It fails when there is none.
NoSuchLink(p, from, to) == link[net[p]] = NoLink /\ Moves(p, from, to)

-----------------------------------------------------------------------------
(***************************************************************************)
(* main: the command is parsed; run starts with init_docker_env.           *)
(***************************************************************************)
Begin(p, k, n, c) ==
    /\ pc[p] \in Resting
    /\ k = "run" => n = Default /\ c = DefaultCidr
    /\ k = "rm" => c = DefaultCidr
    /\ pc' = [pc EXCEPT ![p] = CASE k = "run" -> "default" [] k = "create" -> "exists"
                                 [] k = "rm" -> "tracked"]
    /\ cmd' = [cmd EXCEPT ![p] = k]
    /\ net' = [net EXCEPT ![p] = n]
    /\ want' = [want EXCEPT ![p] = c]
    /\ IF AtWork(n) # {} /\ (k = "rm" \/ \E q \in AtWork(n) : cmd[q] = "rm")
       THEN Scar(n, "race") ELSE UNCHANGED scars
    /\ Counted("command", MaxCommands)
    /\ blind' = blind \ {p}
    /\ UNCHANGED <<db, link, masq, idx, after, made>>

\* create_default_bridge: create the bridge when there is no interface ...
DefaultBridge(p) ==
    \/ link[Default] = NoLink /\ Moves(p, "default", "exists")
    \/ link[Default] # NoLink /\ Moves(p, "default", "adopt")

\* Mutant of AdoptRecord: the alias alone decides.
AdoptUnrecorded(p) == Moves(p, "adopt", "adoptlink")

\* ... else adopt it, if its record is the default one (read_network_info) ...
AdoptRecord(p) ==
    LET fits == db[Default] # NoRecord /\ db[Default].cidr = DefaultCidr
    IN \/ fits /\ Moves(p, "adopt", "adoptlink")
       \/ ~fits /\ Moves(p, "adopt", "failed")
       \/ Fault(p, "adopt", "failed")

\* ... and so is its alias ...
AdoptLink(p) ==
    \/ Owned(Default) /\ Moves(p, "adoptlink", "setup")
    \/ ~Owned(Default) /\ Moves(p, "adoptlink", "failed")
    \/ Fault(p, "adoptlink", "failed")

\* ... and set it up in any case.
SetUp(p) ==
    \/ SetLink(p, "setup", "rule", "up", TRUE)
    \/ NoSuchLink(p, "setup", "failed")
    \/ Fault(p, "setup", "failed")

\* init_docker_env: iptables -C ...
CheckRule(p) ==
    \/ masq > 0 /\ Moves(p, "rule", "ok")
    \/ masq = 0 /\ Moves(p, "rule", "addrule")
    \/ Fault(p, "rule", "addrule")

\* ... then iptables -A.
AddRule(p) ==
    \/ /\ At(p, "addrule", "ok")
       /\ masq' = masq + 1
       /\ UNCHANGED <<db, link, frame, scars, bounds>>
    \/ Fault(p, "addrule", "failed")

-----------------------------------------------------------------------------
(***************************************************************************)
(* create_network.                                                         *)
(***************************************************************************)
\* network_info_exists.
CheckRecord(p) ==
    \/ db[net[p]] = NoRecord /\ Moves(p, "exists", "absent")
    \/ db[net[p]] # NoRecord /\ Moves(p, "exists", "failed")
    \/ Fault(p, "exists", "failed")

\* net_has_exist.
CheckLink(p) ==
    \/ link[net[p]] = NoLink /\ Moves(p, "absent", "addbr")
    \/ link[net[p]] # NoLink /\ Moves(p, "absent", "failed")

\* A bridge as the kernel makes it.
NewLink(foreign) ==
    [index |-> made + 1, owned |-> FALSE, foreign |-> foreign, up |-> FALSE, addrs |-> {}]

\* brctl addbr refuses a name in use.
AddBridge(p) ==
    \/ /\ At(p, "addbr", "index")
       /\ link[net[p]] = NoLink /\ made < MaxLinks
       /\ link' = [link EXCEPT ![net[p]] = NewLink(FALSE)]
       /\ made' = made + 1
       /\ UNCHANGED <<db, masq, frame, scars, count>>
    \/ link[net[p]] # NoLink /\ Moves(p, "addbr", "failed")
    \/ Fault(p, "addbr", "failed")

\* Mutant of ReadIndex: index 0 is not noticed.
ReadIndexUnchecked(p) ==
    /\ At(p, "index", "alias")
    /\ idx' = [idx EXCEPT ![p] = Index(net[p])]
    /\ UNCHANGED <<db, link, masq, cmd, net, want, after, blind, scars, bounds>>

\* created_index = if_nametoindex.
ReadIndex(p) ==
    /\ \/ link[net[p]] # NoLink /\ At(p, "index", "alias")
       \/ link[net[p]] = NoLink /\ At(p, "index", "failed")
    /\ idx' = [idx EXCEPT ![p] = Index(net[p])]
    /\ UNCHANGED <<db, link, masq, cmd, net, want, after, blind, scars, bounds>>

\* ip link set alias.
SetAlias(p) ==
    \/ SetLink(p, "alias", "record", "owned", TRUE)
    \/ NoSuchLink(p, "alias", "check")
    \/ Fault(p, "alias", "check")

\* The unmarked bridge is deleted if it is still the one created.
CheckCreated(p) ==
    \/ Index(net[p]) = idx[p] /\ Moves(p, "check", "undo")
    \/ Index(net[p]) # idx[p] /\ Moves(p, "check", "failed")

\* brctl delbr, which refuses a bridge that is up.
Delete(p, from, to) ==
    /\ At(p, from, to)
    /\ link[net[p]] # NoLink /\ ~link[net[p]].up
    /\ link' = [link EXCEPT ![net[p]] = NoLink]
    /\ UNCHANGED <<db, masq, frame, scars, bounds>>

\* It leaves the bridge, or finds none.
NotDeleted(p, from) ==
    \/ NoSuchLink(p, from, "failed")
    \/ /\ link[net[p]] # NoLink /\ link[net[p]].up
       /\ At(p, from, "failed")
       /\ Scar(net[p], "fault")
       /\ UNCHANGED <<db, link, masq, frame, bounds>>
    \/ LeavingFault(p, from, "failed")

UndoBridge(p) == Delete(p, "undo", "failed") \/ NotDeleted(p, "undo")

Unowned(p, from, caller) ==
    /\ At(p, from, "own")
    /\ after' = [after EXCEPT ![p] = caller]

\* add_network_info.
AddRecord(p) ==
    \/ /\ At(p, "record", "address")
       /\ CanAdd(db, net[p])
       /\ db' = WithAdded(db, net[p], want[p])
       /\ UNCHANGED <<link, masq, frame, scars, bounds>>
    \/ /\ Unowned(p, "record", "unrecorded")
       /\ \/ ~CanAdd(db, net[p]) /\ UNCHANGED count
          \/ Counted("fault", MaxFaults)
       /\ UNCHANGED <<db, link, masq, cmd, net, want, idx, blind, scars, made>>

\* A configuring command fails: roll back through delete_owned_bridge.
Unconfigured(p, from, refused) ==
    /\ Unowned(p, from, "unconfigured")
    /\ \/ refused /\ UNCHANGED count
       \/ Counted("fault", MaxFaults)
    /\ UNCHANGED <<db, link, masq, cmd, net, want, idx, blind, scars, made>>

\* ip addr add of the first host address, which refuses an address the
\* interface has.
SetAddress(p) ==
    LET fits == link[net[p]] # NoLink /\ want[p] \notin link[net[p]].addrs
    IN \/ /\ fits
          /\ SetLink(p, "address", "up", "addrs", link[net[p]].addrs \cup {want[p]})
       \/ Unconfigured(p, "address", ~fits)

\* ip link set up; create_default_bridge does it once more.
BringUp(p) ==
    \/ SetLink(p, "up", IF cmd[p] = "run" THEN "setup" ELSE "ok", "up", TRUE)
    \/ Unconfigured(p, "up", link[net[p]] = NoLink)

-----------------------------------------------------------------------------
(***************************************************************************)
(* delte_network, and delete_owned_bridge, which create_network's          *)
(* rollbacks share with it.                                                *)
(***************************************************************************)
\* read_network_info.
CheckTracked(p) ==
    \/ db[net[p]] # NoRecord /\ Unowned(p, "tracked", "rm")
       /\ UNCHANGED <<db, link, masq, cmd, net, want, idx, blind, scars, bounds>>
    \/ db[net[p]] = NoRecord /\ Moves(p, "tracked", "failed")
    \/ Fault(p, "tracked", "failed")

\* Where delete_owned_bridge's success leads.
Deleted(p) == IF after[p] = "unrecorded" THEN "failed" ELSE "forget"

\* original_index = if_nametoindex.
OriginalIndex(p) ==
    /\ At(p, "own", IF link[net[p]] = NoLink THEN Deleted(p) ELSE "verify")
    /\ idx' = [idx EXCEPT ![p] = Index(net[p])]
    /\ UNCHANGED <<db, link, masq, cmd, net, want, after, blind, scars, bounds>>

\* verify_interface_ownership, which fails as well when sysfs cannot be read.
Verify(p) ==
    \/ Owned(net[p]) /\ Moves(p, "verify", "down")
    \/ ~Owned(net[p]) /\ Moves(p, "verify", "failed")
    \/ LeavingFault(p, "verify", "failed")

\* ip link set down, whose failure is only logged.
SetDown(p) ==
    \/ SetLink(p, "down", "recheck", "up", FALSE)
    \/ NoSuchLink(p, "down", "recheck")
    \/ Fault(p, "down", "recheck")

\* Mutant of Recheck: the interface is taken to be the one verified.
RecheckSkipped(p) == Moves(p, "recheck", "delbr")

\* Index and ownership once more.
Recheck(p) ==
    LET same == Index(net[p]) = idx[p] /\ Owned(net[p])
    IN \/ same /\ Moves(p, "recheck", "delbr")
       \/ ~same /\ Moves(p, "recheck", "failed")
       \/ LeavingFault(p, "recheck", "failed")

DeleteBridge(p) == Delete(p, "delbr", Deleted(p)) \/ NotDeleted(p, "delbr")

\* Mutant of Forget: a rollback keeps the record.
ForgetOnRemoval(p) ==
    /\ At(p, "forget", IF after[p] = "rm" THEN "ok" ELSE "failed")
    /\ db' = IF after[p] = "rm" THEN WithDeleted(db, net[p]) ELSE db
    /\ UNCHANGED <<link, masq, frame, scars, bounds>>

\* delete_network_info.
Forget(p) ==
    \/ /\ At(p, "forget", IF after[p] = "rm" THEN "ok" ELSE "failed")
       /\ db' = WithDeleted(db, net[p])
       /\ UNCHANGED <<link, masq, frame, scars, bounds>>
    \/ LeavingFault(p, "forget", "failed")

-----------------------------------------------------------------------------
\* A CLI process is killed.
Crash(p) ==
    /\ pc[p] \notin Resting
    /\ pc' = [pc EXCEPT ![p] = "idle"]
    /\ Scar(net[p], "crash")
    /\ Counted("crash", MaxCrashes)
    /\ UNCHANGED <<db, link, masq, frame, made>>

\* The host reboots: processes, interfaces and rules are gone, files stay.
Reboot ==
    /\ Counted("reboot", MaxReboots)
    /\ pc' = [p \in Procs |-> "idle"]
    /\ link' = [n \in Nets |-> NoLink]
    /\ masq' = 0
    /\ scars' = [n \in Nets |-> IF db[n] = NoRecord THEN {} ELSE {"reboot"}]
    /\ UNCHANGED <<db, frame, made>>

\* The administrator makes a bridge of that name, in place of the one there is
\* and whatever commands are at work on it.
AdminAdds(n) ==
    /\ made < MaxLinks
    /\ link' = [link EXCEPT ![n] = NewLink(TRUE)]
    /\ made' = made + 1
    /\ blind' = blind \cup {p \in Procs : net[p] = n /\ pc[p] \in Sightless}
    /\ IF AtWork(n) # {} \/ link[n] # NoLink THEN Scar(n, "admin") ELSE UNCHANGED scars
    /\ UNCHANGED <<db, masq, pc, cmd, net, want, idx, after, count>>

Command(p) ==
    \E n \in Nets, c \in Cidrs, k \in {"create", "rm", "run"} : Begin(p, k, n, c)

InitEnv(p) ==
    DefaultBridge(p) \/ AdoptRecord(p) \/ AdoptLink(p) \/ SetUp(p) \/ CheckRule(p) \/ AddRule(p)

Create(p) ==
    CheckRecord(p) \/ CheckLink(p) \/ AddBridge(p) \/ ReadIndex(p) \/ SetAlias(p)
        \/ CheckCreated(p) \/ UndoBridge(p) \/ AddRecord(p) \/ SetAddress(p) \/ BringUp(p)

Remove(p) ==
    CheckTracked(p) \/ OriginalIndex(p) \/ Verify(p) \/ SetDown(p) \/ Recheck(p)
        \/ DeleteBridge(p) \/ Forget(p)

Next ==
    \/ \E p \in Procs : Command(p) \/ InitEnv(p) \/ Create(p) \/ Remove(p) \/ Crash(p)
    \/ Reboot
    \/ \E n \in Nets : AdminAdds(n)

Spec == Init /\ [][Next]_vars

-----------------------------------------------------------------------------
\* Interface and record of a network agree whenever no command is at work on
\* it: there is an owned bridge, up and with the gateway address of the
\* recorded CIDR, exactly when there is a record.  However many creates and
\* runs raced and whatever call of theirs failed, nothing excuses a deviation
\* but a rollback whose own deletion failed, a crash, a reboot, an rm that
\* overlapped another command on the same name, or an administrator who replaced
\* the interface or put one under a command's feet.
NetworkIsWhole ==
    \A n \in Nets :
        AtWork(n) = {} /\ scars[n] = {} =>
            IF db[n] = NoRecord
            THEN ~Owned(n)
            ELSE Owned(n) /\ link[n].up /\ link[n].addrs = {db[n].cidr}

\* A bridge somebody else made, and that carries no alias of ours.
Stray(n) == link[n] # NoLink /\ link[n].foreign /\ ~link[n].owned

\* A bridge somebody else made is neither deleted nor changed by any create, rm,
\* rollback or adoption, also when it takes the place of the network's bridge
\* while the command is at work: only a reboot or its maker ends it, and only a
\* command that it caught between the command's last look and the call that
\* follows from it touches it.
ForeignSpared ==
    [][\A n \in Nets :
          Stray(n) /\ link'[n] # link[n] =>
              \/ count'["reboot"] > count["reboot"]
              \/ Stray(n)' /\ link'[n].index # link[n].index
              \/ \E p \in blind : net[p] = n /\ pc'[p] # pc[p]]_vars

\* A run that leaves init_docker_env leaves the default bridge behind it owned,
\* up and recorded with the default CIDR, and the MASQUERADE rule in place, at
\* whatever step other runs and creates are: what it read of record, alias and
\* rule still holds when it acts on it.  (Not when another command's call
\* failed: a creator whose bridge was adopted takes it away by rolling back.)
EnvironmentIsReady ==
    [][\A p \in Procs :
          /\ cmd[p] = "run" /\ pc[p] # "ok" /\ pc'[p] = "ok"
          /\ scars[Default] = {} /\ count["fault"] = 0
          => /\ Owned(Default)' /\ link'[Default].up
             /\ db'[Default] # NoRecord /\ db'[Default].cidr = DefaultCidr
             /\ masq' > 0]_vars

\* init_docker_env makes sure of the default bridge: it fails only when a call
\* failed, or when the name is taken by somebody else's interface or by a
\* network of another CIDR.
DefaultEnsured ==
    \A p \in Procs :
        cmd[p] = "run" /\ pc[p] = "failed" =>
            \/ count["fault"] > 0
            \/ link[Default] # NoLink /\ link[Default].foreign
            \/ db[Default] # NoRecord /\ db[Default].cidr # DefaultCidr
=============================================================================
