---------------------------- MODULE NetworkState ----------------------------
(***************************************************************************)
(* The networks file as the code accesses it.  A writer (add_network_info, *)
(* delete_network_info, alloc_new_ip, release_used_ip) takes flock on      *)
(* networks.lock, loads the whole file, edits the array in memory, writes  *)
(* a temporary file, renames it over the networks file and closes the lock *)
(* descriptor.  A reader (read_network_info, network_info_exists,          *)
(* list_network) loads the file without the lock.  Any system call may     *)
(* fail and any process may die at any instant; the kernel then drops its  *)
(* lock, and a temporary file it had created stays behind.                 *)
(***************************************************************************)
EXTENDS NetworkRecords

CONSTANTS
    Procs,         \* CLI processes, by process id
    Permanent,     \* networks that nobody removes while the system runs
    NoProc,        \* "nobody holds the lock"
    MaxAttempts,   \* names write_network_records tries for the temporary file
    MaxCalls       \* bound: calls made in one behaviour

ASSUME ProcsAssumption == NoProc \notin Procs
ASSUME PermanentAssumption == Permanent \subseteq Nets
ASSUME LimitAssumption == MaxAttempts \in Nat /\ MaxCalls \in Nat

VARIABLES
    file,    \* contents of the networks file
    lock,    \* the process that holds flock(networks.lock, LOCK_EX)
    pc,      \* pc[p]: where p is in its call
    op,      \* op[p]: the call
    copy,    \* copy[p]: the array p loaded
    temp,    \* temp[p]: contents of the temporary file p wrote
    reply,   \* reply[p]: the result p is going to return
    stale,   \* stale[p]: temporary files earlier processes with p's pid left
    leased,  \* history: addresses handed out and not given back
    calls    \* calls made so far

vars == <<file, lock, pc, op, copy, temp, reply, stale, leased, calls>>

Steps == {"idle", "called", "locked", "loaded", "written", "closing", "done"}

\* lock_fd is open: between flock and close.
InCritical(p) == pc[p] \in {"locked", "loaded", "written", "closing"}

TypeOK ==
    /\ file \in Databases
    /\ lock \in Procs \cup {NoProc}
    /\ pc \in [Procs -> Steps]
    /\ op \in [Procs -> Operations]
    /\ copy \in [Procs -> Databases]
    /\ temp \in [Procs -> Databases]
    /\ reply \in [Procs -> Replies]
    /\ stale \in [Procs -> 0 .. MaxAttempts]
    /\ leased \subseteq Nets \X Nat
    /\ calls \in 0 .. MaxCalls

Init ==
    /\ file = EmptyDatabase
    /\ lock = NoProc
    /\ pc = [p \in Procs |-> "idle"]
    /\ \E n \in Nets : op = [p \in Procs |-> Request("read", n, AnyCidr, 0)]
    /\ copy = [p \in Procs |-> EmptyDatabase]
    /\ temp = [p \in Procs |-> EmptyDatabase]
    /\ reply = [p \in Procs |-> Failed]
    /\ stale = [p \in Procs |-> 0]
    /\ leased = {}
    /\ calls = 0

-----------------------------------------------------------------------------
(***************************************************************************)
(* Entering a call.  The lease table is the callers' view: an address is   *)
(* out from the moment alloc_new_ip published it until its holder calls    *)
(* release_used_ip or its network is removed.                              *)
(***************************************************************************)
Enter(p, o) ==
    /\ pc[p] = "idle"
    /\ calls < MaxCalls
    /\ calls' = calls + 1
    /\ pc' = [pc EXCEPT ![p] = "called"]
    /\ op' = [op EXCEPT ![p] = o]
    /\ reply' = [reply EXCEPT ![p] = Failed]
    /\ UNCHANGED <<file, lock, copy, temp, stale>>

CallAdd(p) ==
    /\ \E n \in Nets, c \in Cidrs : Enter(p, Request("add", n, c, 0))
    /\ UNCHANGED leased

CallDelete(p) ==
    /\ \E n \in Nets \ Permanent : Enter(p, Request("delete", n, AnyCidr, 0))
    /\ UNCHANGED leased

CallAlloc(p) ==
    /\ \E n \in Nets : Enter(p, Request("alloc", n, AnyCidr, 0))
    /\ UNCHANGED leased

CallRelease(p) ==
    \E x \in leased :
        /\ Enter(p, Request("release", x[1], AnyCidr, x[2]))
        /\ leased' = leased \ {x}

CallRead(p) ==
    /\ \E n \in Nets : Enter(p, Request("read", n, AnyCidr, 0))
    /\ UNCHANGED leased

\* Mutant of Lock: the lock is shared.
LockShared(p) ==
    /\ pc[p] = "called"
    /\ op[p].kind # "read"
    /\ lock' = p
    /\ pc' = [pc EXCEPT ![p] = "locked"]
    /\ UNCHANGED <<file, op, copy, temp, reply, stale, leased, calls>>

\* lock_network_state: flock blocks until the lock is free.
Lock(p) ==
    /\ pc[p] = "called"
    /\ op[p].kind # "read"
    /\ lock = NoProc
    /\ lock' = p
    /\ pc' = [pc EXCEPT ![p] = "locked"]
    /\ UNCHANGED <<file, op, copy, temp, reply, stale, leased, calls>>

\* lock_network_state: the lock file cannot be opened or flock fails.
LockError(p) ==
    /\ pc[p] = "called"
    /\ op[p].kind # "read"
    /\ pc' = [pc EXCEPT ![p] = "done"]
    /\ UNCHANGED <<file, lock, op, copy, temp, reply, stale, leased, calls>>

\* The conditions under which a writer goes on to write the file.
Accepts(o, d) ==
    CASE o.kind = "add" -> CanAdd(d, o.net)
      [] o.kind = "delete" -> TRUE
      [] o.kind = "alloc" -> CanAlloc(d, o.net)
      [] o.kind = "release" -> d[o.net] # NoRecord
      [] OTHER -> FALSE

\* Mutant of Load: the lock is dropped once the file is loaded.
LoadThenUnlock(p) ==
    /\ pc[p] = "locked"
    /\ ValidDatabase(file)
    /\ copy' = [copy EXCEPT ![p] = file]
    /\ lock' = NoProc
    /\ pc' = [pc EXCEPT ![p] = IF Accepts(op[p], file) THEN "loaded" ELSE "closing"]
    /\ UNCHANGED <<file, op, temp, reply, stale, leased, calls>>

\* load_network_records under the lock, then the writer's own checks.
Load(p) ==
    /\ pc[p] = "locked"
    /\ ValidDatabase(file)
    /\ copy' = [copy EXCEPT ![p] = file]
    /\ pc' = [pc EXCEPT ![p] = IF Accepts(op[p], file) THEN "loaded" ELSE "closing"]
    /\ UNCHANGED <<file, lock, op, temp, reply, stale, leased, calls>>

\* load_network_records fails: an I/O error, or a file its checks reject.
LoadError(p) ==
    /\ pc[p] = "locked"
    /\ pc' = [pc EXCEPT ![p] = "closing"]
    /\ UNCHANGED <<file, lock, op, copy, temp, reply, stale, leased, calls>>

\* The lock-free load of read_network_info and of the other readers.
Read(p) ==
    /\ pc[p] = "called"
    /\ op[p].kind = "read"
    /\ pc' = [pc EXCEPT ![p] = "done"]
    /\ \/ /\ ValidDatabase(file)
          /\ file[op[p].net] # NoRecord
          /\ reply' = [reply EXCEPT ![p] = Found(file[op[p].net])]
       \/ UNCHANGED reply
    /\ UNCHANGED <<file, lock, op, copy, temp, stale, leased, calls>>

\* The address a call adds to the record: alloc_new_ip takes the lowest free
\* candidate; 0 stands for none.
Picked(o, d) ==
    IF o.kind = "alloc"
    THEN {a \in Free(d[o.net]) : IsFirstFree(d[o.net], a)}
    ELSE {0}

\* The array a writer writes back, given the one it loaded.
Edited(o, d, a) ==
    CASE o.kind = "add" -> WithAdded(d, o.net, o.cidr)
      [] o.kind = "delete" -> WithDeleted(d, o.net)
      [] o.kind = "alloc" -> WithUsed(d, o.net, a)
      [] OTHER -> WithReleased(d, o.net, o.addr)

\* Mutant of WriteTemp: one name more than the loop may try.
WriteTempOnceMore(p) ==
    /\ pc[p] = "loaded"
    /\ stale[p] <= MaxAttempts
    /\ \E a \in Picked(op[p], copy[p]) :
          /\ temp' = [temp EXCEPT ![p] = Edited(op[p], copy[p], a)]
          /\ reply' = [reply EXCEPT ![p] = Granted(a)]
    /\ pc' = [pc EXCEPT ![p] = "written"]
    /\ UNCHANGED <<file, lock, op, copy, stale, leased, calls>>

\* write_network_records up to fclose: O_EXCL finds a temporary name that no
\* dead process with the same pid has left behind.
WriteTemp(p) ==
    /\ pc[p] = "loaded"
    /\ stale[p] < MaxAttempts
    /\ \E a \in Picked(op[p], copy[p]) :
          /\ temp' = [temp EXCEPT ![p] = Edited(op[p], copy[p], a)]
          /\ reply' = [reply EXCEPT ![p] = Granted(a)]
    /\ pc' = [pc EXCEPT ![p] = "written"]
    /\ UNCHANGED <<file, lock, op, copy, stale, leased, calls>>

\* write_network_records fails before the rename (no free name, I/O error):
\* what it wrote is unlinked.
WriteError(p) ==
    /\ pc[p] = "loaded"
    /\ pc' = [pc EXCEPT ![p] = "closing"]
    /\ UNCHANGED <<file, lock, op, copy, temp, reply, stale, leased, calls>>

LeasesAfter(o, l, r) ==
    CASE o.kind = "alloc" -> l \cup {<<o.net, r.addr>>}
      [] o.kind = "delete" -> {x \in l : x[1] # o.net}
      [] OTHER -> l

\* rename(temporary, networks file).  A failing fsync of the directory after
\* it is only logged.
Publish(p) ==
    /\ pc[p] = "written"
    /\ file' = temp[p]
    /\ leased' = LeasesAfter(op[p], leased, reply[p])
    /\ pc' = [pc EXCEPT ![p] = "closing"]
    /\ UNCHANGED <<lock, op, copy, temp, reply, stale, calls>>

\* Mutant of RenameError: the result of rename is not looked at.
RenameErrorIgnored(p) ==
    /\ pc[p] = "written"
    /\ pc' = [pc EXCEPT ![p] = "closing"]
    /\ UNCHANGED <<file, lock, op, copy, temp, reply, stale, leased, calls>>

RenameError(p) ==
    /\ pc[p] = "written"
    /\ reply' = [reply EXCEPT ![p] = Failed]
    /\ pc' = [pc EXCEPT ![p] = "closing"]
    /\ UNCHANGED <<file, lock, op, copy, temp, stale, leased, calls>>

\* Mutant of Close: the lock descriptor is leaked.
CloseLeaks(p) ==
    /\ pc[p] = "closing"
    /\ pc' = [pc EXCEPT ![p] = "done"]
    /\ UNCHANGED <<file, lock, op, copy, temp, reply, stale, leased, calls>>

\* cleanup: close(lock_fd) releases the flock.
Close(p) ==
    /\ pc[p] = "closing"
    /\ lock' = NoProc
    /\ pc' = [pc EXCEPT ![p] = "done"]
    /\ UNCHANGED <<file, op, copy, temp, reply, stale, leased, calls>>

Return(p) ==
    /\ pc[p] = "done"
    /\ pc' = [pc EXCEPT ![p] = "idle"]
    /\ UNCHANGED <<file, lock, op, copy, temp, reply, stale, leased, calls>>

\* The process dies.  Its lock goes with its descriptors, its temporary file
\* stays; "idle" now stands for the next process that gets this pid.
Crash(p) ==
    /\ pc[p] # "idle"
    /\ pc' = [pc EXCEPT ![p] = "idle"]
    /\ lock' = IF lock = p THEN NoProc ELSE lock
    /\ stale' = [stale EXCEPT ![p] = IF pc[p] = "written" THEN @ + 1 ELSE @]
    /\ reply' = [reply EXCEPT ![p] = Failed]
    /\ UNCHANGED <<file, op, copy, temp, leased, calls>>

-----------------------------------------------------------------------------
Call(p) == CallAdd(p) \/ CallDelete(p) \/ CallAlloc(p) \/ CallRelease(p) \/ CallRead(p)

Advance(p) ==
    \/ Lock(p) \/ Load(p) \/ LoadError(p) \/ Read(p)
    \/ WriteTemp(p) \/ WriteError(p) \/ Publish(p) \/ RenameError(p)
    \/ Close(p) \/ Return(p)

Next == \E p \in Procs : Call(p) \/ Advance(p) \/ LockError(p) \/ Crash(p)

Spec == Init /\ [][Next]_vars

\* A process that can run does run; flock need not fail, so LockError is not
\* a way out of waiting for the lock.  A behaviour makes finitely many calls, so
\* a process waiting in flock is not overtaken for ever, and weak fairness of
\* each process is all that is assumed.
FairSpec == Spec /\ \A p \in Procs : WF_vars(Advance(p))

-----------------------------------------------------------------------------
\* flock excludes: whoever is between lock_network_state and close(lock_fd)
\* is the holder, so at most one process is.
MutualExclusion == \A p \in Procs : InCritical(p) => lock = p

\* No lost update: what a writer loaded is still the file when it edits and
\* publishes, although readers, crashes and other writers interleave.
CopyIsCurrent ==
    \A p \in Procs :
        /\ pc[p] = "loaded" => copy[p] = file /\ Accepts(op[p], file)
        /\ pc[p] = "written" =>
              /\ Accepts(op[p], file)
              /\ \E a \in Picked(op[p], file) :
                    /\ temp[p] = Edited(op[p], file, a)
                    /\ reply[p] = Granted(a)

\* The file never reaches a state its own loader rejects (an address outside
\* the range, more than MaxUsed of them, more than MaxRecords networks), which
\* would make every later command fail.
FileStaysLoadable == ValidDatabase(file)

\* An address in a container's hands on a network nobody removes stays marked
\* used in the file until its holder gives it back.
LeaseIsRecorded ==
    \A x \in leased : x[1] \in Permanent =>
        file[x[1]] # NoRecord /\ x[2] \in file[x[1]].used

\* alloc_new_ip never hands out an address that is out already.
NoDoubleLease ==
    [][\A p \in Procs : Publish(p) /\ op[p].kind = "alloc" /\ op[p].net \in Permanent
          => <<op[p].net, reply[p].addr>> \notin leased]_vars

\* Once called, an operation comes to its return (or its process dies); no
\* holder keeps the others waiting for ever.
CallsReturn == \A p \in Procs : pc[p] # "idle" ~> pc[p] = "idle"

\* How the steps of a call look to module Ipam: the call takes effect at the
\* rename, or, when it changes nothing, when it turns back.
CallState ==
    [p \in Procs |-> CASE pc[p] = "idle" -> "idle"
                       [] pc[p] \in {"closing", "done"} -> "done"
                       [] OTHER -> "busy"]

VisibleReply == [p \in Procs |-> IF pc[p] = "written" THEN Failed ELSE reply[p]]

Abstract == INSTANCE Ipam WITH db <- file, st <- CallState, reply <- VisibleReply

\* Every locked read-modify-replace sequence and every lock-free read appears
\* to happen at one instant, and a failed or killed call changes nothing.
ImplementsIpam == Abstract!IpamSpec
=============================================================================
