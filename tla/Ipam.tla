-------------------------------- MODULE Ipam --------------------------------
(***************************************************************************)
(* What the network state file promises to the commands that use it: a     *)
(* table of networks and allocated addresses on which every operation acts *)
(* atomically, once, at some instant between its call and its return.  A   *)
(* failed operation changes nothing.  A process may die at any instant; an *)
(* operation it had not completed then either happened or did not.         *)
(***************************************************************************)
EXTENDS NetworkRecords

CONSTANTS
    Procs,      \* CLI processes
    Permanent   \* networks that nobody removes while the system runs

VARIABLES
    db,      \* the records
    leased,  \* <<network, address>> pairs handed out and not given back
    st,      \* st[p]: "idle", "busy" (called) or "done" (about to return)
    op,      \* op[p]: the operation p is in
    reply    \* reply[p]: its result, meaningful when st[p] = "done"

ipamVars == <<db, leased, st, op, reply>>

\* The limits of the implementation (MaxRecords, MaxUsed) do not appear here: a
\* call that meets one fails.
\* Operation o takes the records from d to e and returns r.
Effect(o, d, e, r) ==
    \/ /\ o.kind = "add"
       /\ d[o.net] = NoRecord
       /\ e = WithAdded(d, o.net, o.cidr)
       /\ r = Succeeded
    \/ /\ o.kind = "delete"
       /\ e = WithDeleted(d, o.net)
       /\ r = Succeeded
    \/ /\ o.kind = "alloc"
       /\ d[o.net] # NoRecord
       /\ r.addr \in Free(d[o.net])
       /\ r = Granted(r.addr)
       /\ e = WithUsed(d, o.net, r.addr)
    \/ /\ o.kind = "release"
       /\ d[o.net] # NoRecord
       /\ e = WithReleased(d, o.net, o.addr)
       /\ r = Succeeded
    \/ /\ o.kind = "read"
       /\ d[o.net] # NoRecord
       /\ e = d
       /\ r = Found(d[o.net])

\* The leases after o returned r: an allocation adds one, removing a network
\* ends those of its addresses.
LeasesAfter(o, l, r) ==
    CASE o.kind = "alloc" -> l \cup {<<o.net, r.addr>>}
      [] o.kind = "delete" -> {x \in l : x[1] # o.net}
      [] OTHER -> l

\* The caller's side of the contract: it gives back only an address that is
\* out, and never removes a permanent network.
MayInvoke(o, l) ==
    /\ o.kind = "release" => <<o.net, o.addr>> \in l
    /\ o.kind = "delete" => o.net \notin Permanent

IpamInit ==
    /\ db = EmptyDatabase
    /\ leased = {}
    /\ st = [p \in Procs |-> "idle"]
    /\ op \in [Procs -> Operations]
    /\ reply = [p \in Procs |-> Failed]

Invoke(p) ==
    /\ st[p] = "idle"
    /\ op'[p] \in Operations
    /\ op' = [op EXCEPT ![p] = op'[p]]
    /\ MayInvoke(op'[p], leased)
    /\ leased' = IF op'[p].kind = "release"
                 THEN leased \ {<<op'[p].net, op'[p].addr>>} ELSE leased
    /\ st' = [st EXCEPT ![p] = "busy"]
    /\ reply' = [reply EXCEPT ![p] = Failed]
    /\ UNCHANGED db

Commit(p) ==
    /\ st[p] = "busy"
    /\ Effect(op[p], db, db', reply'[p])
    /\ reply' = [reply EXCEPT ![p] = reply'[p]]
    /\ leased' = LeasesAfter(op[p], leased, reply'[p])
    /\ st' = [st EXCEPT ![p] = "done"]
    /\ UNCHANGED op

Fail(p) ==
    /\ st[p] = "busy"
    /\ st' = [st EXCEPT ![p] = "done"]
    /\ UNCHANGED <<db, leased, op, reply>>

Return(p) ==
    /\ st[p] = "done"
    /\ st' = [st EXCEPT ![p] = "idle"]
    /\ UNCHANGED <<db, leased, op, reply>>

Die(p) ==
    /\ st[p] # "idle"
    /\ st' = [st EXCEPT ![p] = "idle"]
    /\ reply' = [reply EXCEPT ![p] = Failed]
    /\ UNCHANGED <<db, leased, op>>

IpamNext ==
    \E p \in Procs : Invoke(p) \/ Commit(p) \/ Fail(p) \/ Return(p) \/ Die(p)

IpamSpec == IpamInit /\ [][IpamNext]_ipamVars
=============================================================================
