---------------------------- MODULE ContainerRun ----------------------------
(***************************************************************************)
(* docker_run: starting a container.  A runner (a CLI process in           *)
(* docker_run) creates host resources one after the other, clones a child  *)
(* that initialises itself and blocks on a pipe, finishes the setup on the *)
(* child's behalf, and then writes one byte that lets the child execve the *)
(* user's command.  A failing step jumps to cleanup_run_failure.           *)
(*                                                                         *)
(* All runners of this module start a container of the SAME name: host     *)
(* resources are named after the container, so runners of different names  *)
(* meet only in the address table (module Ipam) and the DNAT rules.  Two   *)
(* runners of one name are two concurrent commands; the default name is    *)
(* the time in seconds.                                                    *)
(*                                                                         *)
(* A setup call fails at will and ends the setup.  A call that undoes      *)
(* something fails at most MaxFaults times in a behaviour.                 *)
(***************************************************************************)
EXTENDS Naturals, FiniteSets, Sequences

CONSTANTS
    Runners,    \* CLI processes that run the container
    Volumes,    \* args->volumes
    Ports,      \* args->port_mapping
    Addresses,  \* addresses of the default network
    NameLength, \* strlen(args->name)
    None,       \* absence of an owner, an address or a metadata file
    MaxFaults   \* bound: failing clean-up calls in one behaviour

ASSUME NoneAssumption == None \notin Runners \cup Addresses
\* No veth pair and no metadata file is the absent one.
ASSUME AbsenceAssumption ==
    /\ None \notin Runners \X BOOLEAN
    /\ None \notin [owner : Runners, ip : Addresses, status : {"RUNNING", "EXITED"}]
\* td_validate_name accepts names of this length.
ASSUME NameAssumption == NameLength \in 1 .. 127
ASSUME FaultsAssumption == MaxFaults \in Nat
\* args->volumes and args->port_mapping are arrays.
ASSUME ArgsAssumption == IsFiniteSet(Volumes) /\ IsFiniteSet(Ports)

VARIABLES
    \* The host, seen through the container's name.
    dir,      \* containers/<name> exists
    layers,   \* what is stacked on .../mountpoint: layers[1] is the bare
              \* directory, each further element an overlay mount; an element
              \* is the set of volumes bound inside it
    harmed,   \* a recursive removal went through an active mount
    cgroup,   \* the runner that made tinydocker-<name>, or None
    joined,   \* joined[r]: r's child was moved into the cgroup
    used,     \* addresses marked used in the networks file
    veth,     \* the veth pair: None, or the runner that made it and whether it
              \* carries the container's alias
    dnat,     \* DNAT rules as <<address, port, chain>>
    meta,     \* container_info/<name>: None or its owner, address and status
    \* One docker_run call.
    pc,       \* pc[r]: where r is
    named,    \* named[r]: mountpoint[0] # '\0'
    created,  \* created[r]: state.cgroup.created
    pending,  \* pending[r]: str_ip of connect_container
    ip,       \* ip[r]: ip_addr of docker_run
    unclean,  \* unclean[r]: mount_cleanup_failed
    child,    \* child[r]: r's cloned process
    pipe,     \* pipe[r]: the write side of r's pipe, as the child sees it
    sigpipe,  \* the disposition of SIGPIPE r inherited
    faults    \* clean-up calls that failed so far

host == <<dir, layers, harmed, cgroup, joined, used, veth, dnat, meta>>
local == <<named, created, pending, ip, unclean>>
vars == <<host, pc, local, child, pipe, sigpipe, faults>>

Chains == {"OUTPUT", "PREROUTING"}

Setup == {"start", "image", "mountpoint", "overlay", "volumes", "cgroup", "limits",
          "clone", "apply", "alloc", "lookup", "name", "veth", "alias", "configure",
          "ports", "write", "release"}
CleanUp == {"unveth", "backout", "kill", "unmap", "disconnect", "unlease", "unbind", "unmount",
            "rmdir", "rmcgroup", "rmmeta"}
Ends == {"refused", "failed", "detached", "exited", "killed", "sigpipe"}
Places == Setup \cup CleanUp \cup {"wait", "update"} \cup Ends

TypeOK ==
    /\ dir \in BOOLEAN
    /\ layers \in Seq(SUBSET Volumes) /\ layers # <<>>
    /\ harmed \in BOOLEAN
    /\ cgroup \in Runners \cup {None}
    /\ joined \in [Runners -> BOOLEAN]
    /\ used \subseteq Addresses
    /\ veth \in (Runners \X BOOLEAN) \cup {None}
    /\ dnat \subseteq Addresses \X Ports \X Chains
    /\ meta \in [owner : Runners, ip : Addresses, status : {"RUNNING", "EXITED"}] \cup {None}
    /\ pc \in [Runners -> Places]
    /\ named \in [Runners -> BOOLEAN]
    /\ created \in [Runners -> BOOLEAN]
    /\ pending \in [Runners -> Addresses \cup {None}]
    /\ ip \in [Runners -> Addresses \cup {None}]
    /\ unclean \in [Runners -> BOOLEAN]
    /\ child \in [Runners -> {"none", "init", "blocked", "user", "dead", "reaped"}]
    /\ pipe \in [Runners -> {"none", "open", "token", "closed"}]
    /\ sigpipe \in [Runners -> {"default", "ignored"}]
    /\ faults \in 0 .. MaxFaults

Init ==
    /\ dir = FALSE /\ layers = <<{}>> /\ harmed = FALSE
    /\ cgroup = None /\ joined = [r \in Runners |-> FALSE]
    /\ used = {} /\ veth = None /\ dnat = {} /\ meta = None
    /\ pc = [r \in Runners |-> "start"]
    /\ named = [r \in Runners |-> FALSE]
    /\ created = [r \in Runners |-> FALSE]
    /\ pending = [r \in Runners |-> None]
    /\ ip = [r \in Runners |-> None]
    /\ unclean = [r \in Runners |-> FALSE]
    /\ child = [r \in Runners |-> "none"]
    /\ pipe = [r \in Runners |-> "none"]
    /\ sigpipe \in [Runners -> {"default", "ignored"}]
    /\ faults = 0

-----------------------------------------------------------------------------
Goto(r, place) == pc' = [pc EXCEPT ![r] = place]

At(r, from, to) == pc[r] = from /\ Goto(r, to)

Alive(r) == child[r] \in {"init", "blocked", "user"}

\* What cgroup.procs of the container lists.
Members == {r \in Runners : joined[r] /\ Alive(r)}

Top == layers[Len(layers)]
WithTop(vols) == [layers EXCEPT ![Len(layers)] = vols]

\* Something is mounted on the mountpoint or bound inside it.
Mounted == layers # <<{}>>

\* n more clean-up calls fail.
Faulty(n) == faults + n <= MaxFaults /\ faults' = faults + n

\* An undoing call either does its work or fails and leaves x as it was.
Undo(x, undone) ==
    \/ x' = undone /\ UNCHANGED faults
    \/ x' = x /\ Faulty(1)

\* goto fail_cleanup_run.
Fail(r, from) ==
    /\ At(r, from, "kill")
    /\ UNCHANGED <<host, local, child, pipe, sigpipe, faults>>

-----------------------------------------------------------------------------
(***************************************************************************)
(* docker_run, in the order of the code.                                   *)
(***************************************************************************)
\* container_exists: any of the three artifacts stops the command, and so does
\* malloc; neither is followed by clean-up.
CheckAbsent(r) ==
    /\ \/ At(r, "start", "image") /\ cgroup = None /\ meta = None /\ ~dir
       \/ At(r, "start", "refused")
    /\ UNCHANGED <<host, local, child, pipe, sigpipe, faults>>

\* create_readonly_layer, then create_readwrite_layer: make_path creates
\* containers/<name> on the way to upperdir.
MakeUpper(r) ==
    /\ \/ At(r, "image", "mountpoint") /\ dir' = TRUE
       \/ At(r, "image", "kill") /\ dir' \in {dir, TRUE}
    /\ UNCHANGED <<layers, harmed, cgroup, joined, used, veth, dnat, meta,
                   local, child, pipe, sigpipe, faults>>

\* The mountpoint path is set before its directory and workdir are made.
MakeMountpoint(r) ==
    /\ \/ At(r, "mountpoint", "overlay") /\ dir' = TRUE
       \/ At(r, "mountpoint", "kill") /\ dir' \in {dir, TRUE}
    /\ named' = [named EXCEPT ![r] = TRUE]
    /\ UNCHANGED <<layers, harmed, cgroup, joined, used, veth, dnat, meta,
                   created, pending, ip, unclean, child, pipe, sigpipe, faults>>

MountOverlay(r) ==
    /\ At(r, "overlay", "volumes")
    /\ dir
    /\ layers' = Append(layers, {})
    /\ UNCHANGED <<dir, harmed, cgroup, joined, used, veth, dnat, meta,
                   local, child, pipe, sigpipe, faults>>

\* mount_volumes binds every volume, or fails at some volume (after binding it,
\* when the read-only remount fails) and unmounts what it bound, ignoring what
\* cannot be unmounted.  A failure that leaves nothing bound is a SetupError.
MountVolumes(r) ==
    /\ dir
    /\ \/ /\ At(r, "volumes", "cgroup")
          /\ layers' = WithTop(Top \cup Volumes)
          /\ UNCHANGED faults
       \/ /\ At(r, "volumes", "kill")
          /\ \E left \in (SUBSET Volumes) \ {{}} :
                /\ layers' = WithTop(Top \cup left)
                /\ Faulty(Cardinality(left))
    /\ UNCHANGED <<dir, harmed, cgroup, joined, used, veth, dnat, meta,
                   local, child, pipe, sigpipe>>

\* Mutant of MakeCgroup: an existing cgroup is taken over.
MakeOrTakeCgroup(r) ==
    /\ At(r, "cgroup", "limits")
    /\ cgroup' = r
    /\ created' = [created EXCEPT ![r] = TRUE]
    /\ UNCHANGED <<dir, layers, harmed, joined, used, veth, dnat, meta,
                   named, pending, ip, unclean, child, pipe, sigpipe, faults>>

\* cgroup_prepare: init_cgroup.  mkdir refuses an existing cgroup.
MakeCgroup(r) ==
    /\ At(r, "cgroup", "limits")
    /\ cgroup = None
    /\ cgroup' = r
    /\ created' = [created EXCEPT ![r] = TRUE]
    /\ UNCHANGED <<dir, layers, harmed, joined, used, veth, dnat, meta,
                   named, pending, ip, unclean, child, pipe, sigpipe, faults>>

\* cgroup_prepare: set_cgroup_limits, with cgroup_cleanup if it fails.
SetLimits(r) ==
    \/ /\ At(r, "limits", "clone")
       /\ UNCHANGED <<host, local, child, pipe, sigpipe, faults>>
    \/ /\ At(r, "limits", "kill")
       /\ \/ /\ cgroup' = None
             /\ created' = [created EXCEPT ![r] = FALSE]
             /\ UNCHANGED faults
          \/ UNCHANGED <<cgroup, created>> /\ Faulty(1)
       /\ UNCHANGED <<dir, layers, harmed, joined, used, veth, dnat, meta,
                      named, pending, ip, unclean, child, pipe, sigpipe>>

\* pipe, then clone.
Clone(r) ==
    /\ At(r, "clone", "apply")
    /\ child' = [child EXCEPT ![r] = "init"]
    /\ pipe' = [pipe EXCEPT ![r] = "open"]
    /\ UNCHANGED <<host, local, sigpipe, faults>>

\* cgroup_apply.  The kernel accepts a zombie's pid and does not move it.
ApplyCgroup(r) ==
    /\ At(r, "apply", "alloc")
    /\ created[r]
    /\ joined' = [joined EXCEPT ![r] = Alive(r)]
    /\ UNCHANGED <<dir, layers, harmed, cgroup, used, veth, dnat, meta,
                   local, child, pipe, sigpipe, faults>>

\* Mutant of AllocIp: the address is handed out although writing it to the file
\* failed.
AllocUnrecorded(r) ==
    /\ At(r, "alloc", "lookup")
    /\ \E a \in Addresses \ used :
          /\ used' \in {used, used \cup {a}}
          /\ pending' = [pending EXCEPT ![r] = a]
    /\ UNCHANGED <<dir, layers, harmed, cgroup, joined, veth, dnat, meta,
                   named, created, ip, unclean, child, pipe, sigpipe, faults>>

\* connect_container: alloc_new_ip, atomic as module Ipam promises.
AllocIp(r) ==
    /\ At(r, "alloc", "lookup")
    /\ \E a \in Addresses \ used :
          /\ used' = used \cup {a}
          /\ pending' = [pending EXCEPT ![r] = a]
    /\ UNCHANGED <<dir, layers, harmed, cgroup, joined, veth, dnat, meta,
                   named, created, ip, unclean, child, pipe, sigpipe, faults>>

\* connect_container: get_container_processes_id must find a process.
LookupPid(r) ==
    /\ \/ At(r, "lookup", "name") /\ Members # {}
       \/ At(r, "lookup", "backout")
    /\ UNCHANGED <<host, local, child, pipe, sigpipe, faults>>

\* td_make_veth_name: "td", at most six characters of the name, "-" and six
\* digits must make exactly 15 characters.
VethNameLength == 2 + (IF NameLength < 6 THEN NameLength ELSE 6) + 1 + 6

NameVeth(r) ==
    /\ At(r, "name", IF VethNameLength = 15 THEN "veth" ELSE "backout")
    /\ UNCHANGED <<host, local, child, pipe, sigpipe, faults>>

\* connect_container: an existing interface of that name is never replaced.
AddVeth(r) ==
    /\ \/ At(r, "veth", "alias") /\ veth = None /\ veth' = <<r, FALSE>>
       \/ At(r, "veth", "backout") /\ UNCHANGED veth
    /\ UNCHANGED <<dir, layers, harmed, cgroup, joined, used, dnat, meta,
                   local, child, pipe, sigpipe, faults>>

\* connect_container: the alias that marks the pair as the container's; when it
\* cannot be set the pair, known by its index, is deleted, the result ignored.
SetAlias(r) ==
    /\ \/ At(r, "alias", "configure") /\ veth' = <<r, TRUE>> /\ UNCHANGED faults
       \/ At(r, "alias", "backout") /\ Undo(veth, None)
    /\ UNCHANGED <<dir, layers, harmed, cgroup, joined, used, dnat, meta,
                   local, child, pipe, sigpipe>>

\* delete_owned_veth: the alias names the container, not the runner; an absent
\* pair counts as deleted and an unmarked one is left alone.
DeleteOwned ==
    IF veth # None /\ veth[2] THEN Undo(veth, None) ELSE UNCHANGED <<veth, faults>>

\* Mutant of Configure: the address is not handed to the caller.
ConfigureKeepsIp(r) ==
    /\ \/ /\ At(r, "configure", "ports")
          /\ Alive(r) /\ veth # None
          /\ pending' = [pending EXCEPT ![r] = None]
       \/ At(r, "configure", "unveth") /\ UNCHANGED pending
    /\ UNCHANGED <<host, named, created, ip, unclean, child, pipe, sigpipe, faults>>

\* connect_container: bridge, move into the child's namespace, address, route.
\* ip_addr is assigned only when all of it worked.
Configure(r) ==
    /\ \/ /\ At(r, "configure", "ports")
          /\ Alive(r) /\ veth # None
          /\ ip' = [ip EXCEPT ![r] = pending[r]]
          /\ pending' = [pending EXCEPT ![r] = None]
       \/ At(r, "configure", "unveth") /\ UNCHANGED <<ip, pending>>
    /\ UNCHANGED <<host, named, created, unclean, child, pipe, sigpipe, faults>>

\* connect_container's own rollback, step 1: delete_owned_veth, its result
\* ignored.
BackoutVeth(r) ==
    /\ At(r, "unveth", "backout")
    /\ DeleteOwned
    /\ UNCHANGED <<dir, layers, harmed, cgroup, joined, used, dnat, meta,
                   local, child, pipe, sigpipe>>

\* Mutant of Backout: the address is not released.
BackoutKeepsLease(r) ==
    /\ At(r, "backout", "kill")
    /\ pending' = [pending EXCEPT ![r] = None]
    /\ UNCHANGED <<host, named, created, ip, unclean, child, pipe, sigpipe, faults>>

\* Step 2: release_used_ip, its result ignored.
Backout(r) ==
    /\ At(r, "backout", "kill")
    /\ Undo(used, used \ {pending[r]})
    /\ pending' = [pending EXCEPT ![r] = None]
    /\ UNCHANGED <<dir, layers, harmed, cgroup, joined, veth, dnat, meta,
                   named, created, ip, unclean, child, pipe, sigpipe>>

RulesOf(a, ports, chains) == {a} \X ports \X chains

\* set_container_port_map: two rules per port.  When the second of a port
\* fails the first is deleted again, its result ignored.
MapPorts(r) ==
    /\ \/ /\ At(r, "ports", "write")
          /\ dnat' = dnat \cup RulesOf(ip[r], Ports, Chains)
          /\ UNCHANGED faults
       \/ /\ At(r, "ports", "kill")
          /\ \E done \in SUBSET Ports : \E half \in SUBSET (Ports \ done) :
                /\ done # Ports
                /\ Cardinality(half) <= 1
                /\ dnat' = dnat \cup RulesOf(ip[r], done, Chains)
                                \cup RulesOf(ip[r], half, {"OUTPUT"})
                /\ Faulty(Cardinality(half))
    /\ UNCHANGED <<dir, layers, harmed, cgroup, joined, used, veth, meta,
                   local, child, pipe, sigpipe>>

\* create_container_info and write_container_info, which renames over
\* whatever is there.
WriteInfo(r) ==
    /\ At(r, "write", "release")
    /\ meta' = [owner |-> r, ip |-> ip[r], status |-> "RUNNING"]
    /\ UNCHANGED <<dir, layers, harmed, cgroup, joined, used, veth, dnat,
                   local, child, pipe, sigpipe, faults>>

\* The byte goes into the pipe while the child still has its read end open.
Release(r) ==
    /\ pc[r] = "release"
    /\ Alive(r)
    /\ pipe' = [pipe EXCEPT ![r] = "token"]
    /\ Goto(r, "detached") \/ Goto(r, "wait")
    /\ UNCHANGED <<host, local, child, sigpipe, faults>>

\* The child is dead and docker_run has closed its own read end, so write
\* fails with EPIPE, and raises SIGPIPE first: nothing in the code changes its
\* disposition, so by default the runner is killed there.
ReleaseBroken(r) ==
    /\ ~Alive(r)
    /\ pipe' = [pipe EXCEPT ![r] = "closed"]
    /\ \/ At(r, "release", "kill") /\ sigpipe[r] = "ignored"
       \/ At(r, "release", "sigpipe") /\ sigpipe[r] = "default"
    /\ UNCHANGED <<host, local, child, sigpipe, faults>>

\* Foreground: waitpid.
Wait(r) ==
    /\ At(r, "wait", "update")
    /\ child[r] = "dead"
    /\ child' = [child EXCEPT ![r] = "reaped"]
    /\ UNCHANGED <<host, local, pipe, sigpipe, faults>>

\* update_container_status(EXITED); its failure is only logged.
UpdateStatus(r) ==
    /\ At(r, "update", "exited")
    /\ \/ /\ meta # None
          /\ meta' = [owner |-> meta.owner, ip |-> meta.ip, status |-> "EXITED"]
       \/ UNCHANGED meta
    /\ UNCHANGED <<dir, layers, harmed, cgroup, joined, used, veth, dnat,
                   local, child, pipe, sigpipe, faults>>

\* A setup call fails and has changed nothing.
SetupError(r) ==
    \/ Fail(r, "overlay") \/ Fail(r, "volumes") \/ Fail(r, "cgroup") \/ Fail(r, "clone")
    \/ Fail(r, "apply") \/ Fail(r, "alloc") \/ Fail(r, "write")

-----------------------------------------------------------------------------
(***************************************************************************)
(* cleanup_run_failure.  It addresses resources by the container's name.   *)
(***************************************************************************)
\* Mutant of KillChild: without an address, unmounting is skipped too.
KillChildSkipsMounts(r) ==
    /\ At(r, "kill", IF ip[r] # None THEN "unmap" ELSE "rmdir")
    /\ child' = [child EXCEPT ![r] = IF @ = "none" THEN @ ELSE "reaped"]
    /\ pipe' = [pipe EXCEPT ![r] = IF @ = "none" THEN @ ELSE "closed"]
    /\ UNCHANGED <<host, local, sigpipe, faults>>

\* Mutant of KillChild: waitpid without kill, the pipe still open.
KillChildOnlyWaits(r) ==
    /\ child[r] \in {"none", "dead"}
    /\ At(r, "kill", IF ip[r] # None THEN "unmap" ELSE IF named[r] THEN "unbind" ELSE "rmdir")
    /\ child' = [child EXCEPT ![r] = IF @ = "none" THEN @ ELSE "reaped"]
    /\ pipe' = [pipe EXCEPT ![r] = IF @ = "none" THEN @ ELSE "closed"]
    /\ UNCHANGED <<host, local, sigpipe, faults>>

\* kill and waitpid, then close the pipe.
KillChild(r) ==
    /\ At(r, "kill", IF ip[r] # None THEN "unmap" ELSE IF named[r] THEN "unbind" ELSE "rmdir")
    /\ child' = [child EXCEPT ![r] = IF @ = "none" THEN @ ELSE "reaped"]
    /\ pipe' = [pipe EXCEPT ![r] = IF @ = "none" THEN @ ELSE "closed"]
    /\ UNCHANGED <<host, local, sigpipe, faults>>

\* unset_container_port_map: every rule whose destination is the address; a
\* chain that cannot be listed, or a rule that cannot be deleted, stays.
UnmapPorts(r) ==
    /\ At(r, "unmap", "disconnect")
    /\ \E left \in SUBSET {rule \in dnat : rule[1] = ip[r]} :
          /\ dnat' = {rule \in dnat : rule[1] # ip[r]} \cup left
          /\ Faulty(IF left = {} THEN 0 ELSE 1)
    /\ UNCHANGED <<dir, layers, harmed, cgroup, joined, used, veth, meta,
                   local, child, pipe, sigpipe>>

\* disconnect_container.
Disconnect(r) ==
    /\ At(r, "disconnect", "unlease")
    /\ DeleteOwned
    /\ UNCHANGED <<dir, layers, harmed, cgroup, joined, used, dnat, meta,
                   local, child, pipe, sigpipe>>

ReleaseIp(r) ==
    /\ At(r, "unlease", IF named[r] THEN "unbind" ELSE "rmdir")
    /\ Undo(used, used \ {ip[r]})
    /\ UNCHANGED <<dir, layers, harmed, cgroup, joined, veth, dnat, meta,
                   local, child, pipe, sigpipe>>

\* umount_volumes: EINVAL and ENOENT count as unmounted; another error is
\* remembered and the loop goes on.
UnmountVolumes(r) ==
    /\ At(r, "unbind", "unmount")
    /\ \E left \in SUBSET Top :
          /\ layers' = WithTop(left)
          /\ Faulty(Cardinality(left))
          /\ unclean' = [unclean EXCEPT ![r] = left # {}]
    /\ UNCHANGED <<dir, harmed, cgroup, joined, used, veth, dnat, meta,
                   named, created, pending, ip, child, pipe, sigpipe>>

\* Mutant of UnmountRoot: a failing umount is logged and forgotten.
UnmountRootQuietly(r) ==
    /\ At(r, "unmount", "rmdir")
    /\ \/ /\ Len(layers) > 1 /\ Top = {}
          /\ layers' = SubSeq(layers, 1, Len(layers) - 1)
          /\ UNCHANGED faults
       \/ Faulty(1) /\ UNCHANGED layers
       \/ (Len(layers) = 1 \/ Top # {}) /\ UNCHANGED <<layers, faults>>
    /\ UNCHANGED <<dir, harmed, cgroup, joined, used, veth, dnat, meta,
                   local, child, pipe, sigpipe>>

\* umount of the container root: EBUSY while a volume is bound inside it.
UnmountRoot(r) ==
    /\ At(r, "unmount", "rmdir")
    /\ \/ Len(layers) = 1 /\ UNCHANGED <<layers, unclean, faults>>
       \/ /\ Len(layers) > 1
          /\ Top = {}
          /\ layers' = SubSeq(layers, 1, Len(layers) - 1)
          /\ UNCHANGED <<unclean, faults>>
       \/ /\ Len(layers) > 1
          /\ unclean' = [unclean EXCEPT ![r] = TRUE]
          /\ IF Top = {} THEN Faulty(1) ELSE UNCHANGED faults
          /\ UNCHANGED layers
    /\ UNCHANGED <<dir, harmed, cgroup, joined, used, veth, dnat, meta,
                   named, created, pending, ip, child, pipe, sigpipe>>

\* remove_dir, unless mount cleanup failed.  Through an active mount it
\* deletes what it reaches and fails on the mountpoint.
RemoveDir(r) ==
    /\ At(r, "rmdir", "rmcgroup")
    /\ IF unclean[r] \/ ~dir
       THEN UNCHANGED <<dir, harmed, faults>>
       ELSE IF Mounted
       THEN harmed' = TRUE /\ UNCHANGED <<dir, faults>>
       ELSE Undo(dir, FALSE) /\ UNCHANGED harmed
    /\ UNCHANGED <<layers, cgroup, joined, used, veth, dnat, meta,
                   local, child, pipe, sigpipe>>

\* Mutant of CleanCgroup: the cgroup is removed by its name.
CleanCgroupByName(r) ==
    /\ At(r, "rmcgroup", IF unclean[r] THEN "failed" ELSE "rmmeta")
    /\ cgroup' = IF Members = {} THEN None ELSE cgroup
    /\ created' = [created EXCEPT ![r] = FALSE]
    /\ UNCHANGED <<dir, layers, harmed, joined, used, veth, dnat, meta,
                   named, pending, ip, unclean, child, pipe, sigpipe, faults>>

\* cgroup_cleanup: only the cgroup this run made; rmdir fails while it has
\* members.
CleanCgroup(r) ==
    /\ At(r, "rmcgroup", IF unclean[r] THEN "failed" ELSE "rmmeta")
    /\ \/ /\ created[r] /\ Members = {}
          /\ cgroup' = None
          /\ created' = [created EXCEPT ![r] = FALSE]
          /\ UNCHANGED faults
       \/ /\ created[r]
          /\ IF Members = {} THEN Faulty(1) ELSE UNCHANGED faults
          /\ UNCHANGED <<cgroup, created>>
       \/ ~created[r] /\ UNCHANGED <<cgroup, created, faults>>
    /\ UNCHANGED <<dir, layers, harmed, joined, used, veth, dnat, meta,
                   named, pending, ip, unclean, child, pipe, sigpipe>>

RemoveInfo(r) ==
    /\ At(r, "rmmeta", "failed")
    /\ Undo(meta, None)
    /\ UNCHANGED <<dir, layers, harmed, cgroup, joined, used, veth, dnat,
                   local, child, pipe, sigpipe>>

-----------------------------------------------------------------------------
(***************************************************************************)
(* child_fn, the kernel, and kill -9.                                      *)
(***************************************************************************)
\* Log redirection, environment and init_and_set_new_root worked.
ChildReady(r) ==
    /\ child[r] = "init"
    /\ child' = [child EXCEPT ![r] = "blocked"]
    /\ UNCHANGED <<host, pc, local, pipe, sigpipe, faults>>

\* Mutant of ChildExec: the result of read is not looked at.
ChildExecUnchecked(r) ==
    /\ child[r] = "blocked"
    /\ pipe[r] \in {"token", "closed"}
    /\ child' = [child EXCEPT ![r] = "user"]
    /\ UNCHANGED <<host, pc, local, pipe, sigpipe, faults>>

\* read returns the byte, and execve.
ChildExec(r) ==
    /\ child[r] = "blocked"
    /\ pipe[r] = "token"
    /\ child' = [child EXCEPT ![r] = "user"]
    /\ UNCHANGED <<host, pc, local, pipe, sigpipe, faults>>

\* Mutant of ChildExit: the child keeps its own write end, so that read never
\* sees the end of file.
ChildExitNoEof(r) ==
    /\ \/ child[r] \in {"init", "user"}
       \/ child[r] = "blocked" /\ pipe[r] = "token"
    /\ child' = [child EXCEPT ![r] = "dead"]
    /\ UNCHANGED <<host, pc, local, pipe, sigpipe, faults>>

\* _exit(126) during initialisation, _exit(125) at end of file, _exit(127)
\* when execve fails, or the end of the user's command.
ChildExit(r) ==
    /\ \/ child[r] \in {"init", "user"}
       \/ child[r] = "blocked" /\ pipe[r] \in {"token", "closed"}
    /\ child' = [child EXCEPT ![r] = "dead"]
    /\ UNCHANGED <<host, pc, local, pipe, sigpipe, faults>>

\* A signal ends the child, whatever it is doing.
ChildKilled(r) ==
    /\ Alive(r)
    /\ child' = [child EXCEPT ![r] = "dead"]
    /\ UNCHANGED <<host, pc, local, pipe, sigpipe, faults>>

\* The network namespace goes with its last process, and with it the pair
\* whose one end was moved there (from the alias on, it may have been).
NetnsGone(r) ==
    /\ child[r] \in {"dead", "reaped"}
    /\ veth = <<r, TRUE>>
    /\ veth' = None
    /\ UNCHANGED <<dir, layers, harmed, cgroup, joined, used, dnat, meta,
                   pc, local, child, pipe, sigpipe, faults>>

\* The runner is killed from outside; its pipe ends go with it.
Crash(r) ==
    /\ pc[r] \notin Ends
    /\ Goto(r, "killed")
    /\ pipe' = [pipe EXCEPT ![r] = IF @ = "open" THEN "closed" ELSE @]
    /\ UNCHANGED <<host, local, child, sigpipe, faults>>

-----------------------------------------------------------------------------
Run(r) ==
    \/ CheckAbsent(r) \/ MakeUpper(r) \/ MakeMountpoint(r) \/ MountOverlay(r)
    \/ MountVolumes(r) \/ MakeCgroup(r) \/ SetLimits(r) \/ Clone(r) \/ ApplyCgroup(r)
    \/ AllocIp(r) \/ LookupPid(r) \/ NameVeth(r) \/ AddVeth(r) \/ SetAlias(r)
    \/ Configure(r) \/ BackoutVeth(r) \/ Backout(r) \/ MapPorts(r) \/ WriteInfo(r)
    \/ Release(r) \/ ReleaseBroken(r) \/ Wait(r) \/ UpdateStatus(r) \/ SetupError(r)

Rollback(r) ==
    \/ KillChild(r) \/ UnmapPorts(r) \/ Disconnect(r) \/ ReleaseIp(r)
    \/ UnmountVolumes(r) \/ UnmountRoot(r) \/ RemoveDir(r) \/ CleanCgroup(r)
    \/ RemoveInfo(r)

\* What the child does by itself; it owes nothing once it runs the user's
\* command.
Child(r) == ChildReady(r) \/ ChildExec(r) \/ ChildExit(r)
ChildStartup(r) == child[r] # "user" /\ Child(r)

Next == \E r \in Runners : Run(r) \/ Rollback(r) \/ Child(r) \/ ChildKilled(r)
                               \/ NetnsGone(r) \/ Crash(r)

Spec == Init /\ [][Next]_vars

\* The scheduler runs every runner and every child that can take a step; how
\* long the user's command lasts is not the system's business.
FairSpec ==
    Spec /\ \A r \in Runners : WF_vars(Run(r) \/ Rollback(r)) /\ WF_vars(ChildStartup(r))

-----------------------------------------------------------------------------
\* The host as it was before any run of this name.
Pristine ==
    /\ ~dir /\ ~Mounted /\ cgroup = None /\ meta = None
    /\ used = {} /\ veth = None /\ dnat = {}

\* The user's command runs only authorised by the byte, and then inside its
\* cgroup with workspace, volumes, address, interface, port rules and metadata
\* in place: the child ran concurrently with all of that setup, and may have
\* died or lost its parent at any point of it.
StartedComplete ==
    \A r \in Runners : child[r] = "user" =>
        /\ pipe[r] = "token"
        /\ cgroup = r /\ joined[r]
        /\ dir /\ Top = Volumes /\ Len(layers) = 2
        /\ veth = <<r, TRUE>>
        /\ meta # None /\ meta.owner = r /\ meta.ip = ip[r]
        /\ ip[r] \in used
        /\ RulesOf(ip[r], Ports, Chains) \subseteq dnat

\* Whatever step of docker_run failed, when it returns -1 and no clean-up call
\* failed, nothing of the run is left.
RollbackComplete ==
    (\E r \in Runners : pc[r] = "failed") /\ faults = 0 => Pristine

\* cleanup_run_failure never deletes recursively through an active mount,
\* also when unmounting failed.
NoRemovalUnderMount == ~harmed

\* When docker_run has returned -1 and something is still mounted, then its
\* unmounting failed and the workspace directory under it was left alone.
MountsAreAccountable ==
    \A r \in Runners : pc[r] = "failed" /\ Mounted => unclean[r] /\ dir

\* With any number of runs of one name: only the cgroup's creator removes it,
\* and never from under a running command.
CgroupOwnership ==
    [][\A r \in Runners : (CleanCgroup(r) \/ SetLimits(r)) /\ cgroup # cgroup'
          => cgroup = r /\ Members = {}]_vars

\* With any number of runs of one name: a running command is authorised and
\* confined to the cgroup its own run made.
StartedConfined ==
    \A r \in Runners : child[r] = "user" => pipe[r] = "token" /\ joined[r] /\ cgroup = r

Released == {"unbind", "unmount", "rmdir", "rmcgroup", "rmmeta", "failed", "killed"}

\* The address r works with: str_ip inside connect_container, then ip_addr
\* until cleanup_run_failure has released it.
Working(r) == IF pc[r] \in Released THEN {} ELSE {pending[r], ip[r]} \ {None}

\* With any number of runs of one name: the address a run works with is marked
\* used, and no two runs work with the same one.
AddressesHeld ==
    /\ \A r \in Runners : Working(r) \subseteq used
    /\ \A r, s \in Runners : r # s => Working(r) \cap Working(s) = {}

\* A child whose runner dies before the byte is written ends by itself,
\* without ever running the user's command.
OrphanEnds ==
    \A r \in Runners :
        pc[r] = "killed" /\ pipe[r] = "closed" ~> child[r] \in {"none", "dead", "reaped"}

\* docker_run returns, or is waiting for the user's command.
RunReturns ==
    \A r \in Runners : <>(pc[r] \in Ends \/ (pc[r] = "wait" /\ child[r] = "user"))

\* Every name td_validate_name accepts can be given an interface.
ValidNameGetsVeth == [][\A r \in Runners : NameVeth(r) => pc'[r] = "veth"]_vars

\* A failing write of the byte leads into cleanup_run_failure.
ReleaseFailureRollsBack ==
    \A r \in Runners : pc[r] = "release" /\ ~Alive(r) ~> pc[r] \in {"failed", "killed"}
=============================================================================
