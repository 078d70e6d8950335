-------------------------- MODULE SingleRunProofs --------------------------
(***************************************************************************)
(* What docker_run promises when it is the only run of its name: for any   *)
(* number of volumes, ports and addresses and any number of failing calls, *)
(* the user's command starts with everything in place, a failed run leaves *)
(* nothing behind unless its own clean-up failed, and no recursive removal *)
(* goes through a mount.                                                   *)
(***************************************************************************)
EXTENDS ContainerRunProofs

\* Places before anything is mounted, where every volume is bound, and before
\* there is a veth pair.
Bare == {"start", "image", "mountpoint", "overlay", "refused"}
Bound == {"cgroup", "limits", "clone"} \cup Owning
Pairless == Unstarted \cup {"apply", "alloc", "lookup", "name", "veth"}

\* cleanup_run_failure behind UnmountRoot, behind DeleteOwned, and behind UnmapPorts.
Swept == {"rmdir", "rmcgroup", "rmmeta", "failed"}
Cut == {"unlease", "unbind", "unmount"} \cup Swept
Closed == {"disconnect"} \cup Cut

\* The pair has its alias (or is gone again); the address is configured; clean-up
\* has yet to delete the pair; it has deleted it.
Aliased == {"configure", "unveth", "ports", "write", "release"}
Connected == {"ports", "write", "release"}
Condemned == {"kill", "unmap", "disconnect"}
Unpaired == {"backout"} \cup Cut

\* The byte is written.
Authorised(r) == pipe[r] = "token"

\* The mounts of the run: what is there, and what unclean says about it.
WorkspaceInOrder(r) ==
    /\ ~harmed
    /\ Mounted => dir
    /\ \/ layers = <<{}>>
       \/ named[r] /\ \E s \in SUBSET Volumes : layers = <<{}, s>>
    /\ pc[r] \in Bare => layers = <<{}>>
    /\ pc[r] \in {"overlay", "volumes"} => named[r]
    /\ pc[r] = "volumes" => layers = <<{}, {}>>
    /\ pc[r] \in Bound \/ Authorised(r) => layers = <<{}, Volumes>>
    /\ pc[r] = "unmount" /\ ~unclean[r] => layers = <<{}>> \/ layers = <<{}, {}>>
    /\ pc[r] \in Swept /\ ~unclean[r] => layers = <<{}>>
    /\ faults = 0 => ~unclean[r]
    /\ faults = 0 /\ pc[r] \in Swept \ {"rmdir"} => ~dir

\* After the byte docker_run only waits.
AuthorisedLast(r) ==
    Authorised(r) => pc[r] \in {"detached", "wait", "update", "exited", "killed"}

\* The cgroup is the run's, and goes with it.
CgroupInOrder(r) ==
    /\ cgroup # None => created[r]
    /\ faults = 0 /\ pc[r] \in {"rmmeta", "failed"} => cgroup = None

\* Exactly the address the run works with is marked used.
LeaseInOrder(r) ==
    /\ pc[r] \in Connected \/ Authorised(r) => ip[r] \in used
    /\ faults = 0 /\ pc[r] # "killed" => used = Working(r)

\* The veth pair.
PairInOrder(r) ==
    /\ pc[r] \in Pairless => veth = None
    /\ pc[r] \in Aliased => veth # <<r, FALSE>>
    /\ Alive(r) /\ (pc[r] \in Connected \/ Authorised(r)) => veth = <<r, TRUE>>
    /\ faults = 0 /\ pc[r] \in Condemned => veth # <<r, FALSE>>
    /\ faults = 0 /\ pc[r] = "kill" /\ ip[r] = None => veth = None
    /\ faults = 0 /\ pc[r] \in Unpaired => veth = None

\* The DNAT rules lead to the run's address.
RulesInOrder(r) ==
    /\ \A rule \in dnat : rule[1] = ip[r]
    /\ pc[r] \in {"write", "release"} \/ Authorised(r) =>
           RulesOf(ip[r], Ports, Chains) \subseteq dnat
    /\ faults = 0 /\ pc[r] \in Closed => dnat = {}

\* The metadata.
MetadataInOrder(r) ==
    /\ pc[r] = "release" \/ Authorised(r) => meta # None /\ meta.owner = r /\ meta.ip = ip[r]
    /\ faults = 0 /\ pc[r] = "failed" => meta = None

SInv(r) ==
    /\ WorkspaceInOrder(r) /\ AuthorisedLast(r) /\ CgroupInOrder(r) /\ LeaseInOrder(r)
    /\ PairInOrder(r) /\ RulesInOrder(r) /\ MetadataInOrder(r)

-----------------------------------------------------------------------------
\* A clean-up call that fails shows in faults for good.
LEMMA FaultShows ==
    ASSUME faults \in 0 .. MaxFaults, NEW n \in Nat, Faulty(n)
    PROVE  faults' = 0 => n = 0 /\ faults = 0
  BY FaultsAssumption DEF Faulty

\* The mountpoint with nothing mounted on it.
LEMMA BareShape ==
    ASSUME layers = <<{}>>
    PROVE  /\ Top = {} /\ Len(layers) = 1 /\ WithTop({}) = <<{}>>
           /\ Append(layers, {}) = <<{}, {}>>
  <1>1. Top = {} /\ Len(layers) = 1
    BY DEF Top
  <1>2. WithTop({}) = <<{}>>
    BY <1>1 DEF WithTop
  <1>3. Append(layers, {}) = <<{}, {}>>
    <2> DEFINE a == Append(layers, {})
               b == <<{}, {}>>
    <2>1. layers \in Seq({{}}) /\ b \in Seq({{}}) /\ Len(b) = 2 /\ b[1] = {} /\ b[2] = {}
      OBVIOUS
    <2>2. a \in Seq({{}}) /\ Len(a) = 2 /\ a[1] = {} /\ a[2] = {}
      BY <1>1, <2>1, AppendProperties
    <2>3. \A i \in 1 .. 2 : a[i] = b[i]
      BY <2>1, <2>2
    <2> QED
      BY <2>1, <2>2, <2>3, SeqEqual
  <1> QED
    BY <1>1, <1>2, <1>3

\* The mountpoint with the overlay on it and some volumes bound.
LEMMA MountedShape ==
    ASSUME NEW s, layers = <<{}, s>>
    PROVE  /\ Mounted /\ Top = s /\ Len(layers) = 2
           /\ \A t : WithTop(t) = <<{}, t>>
           /\ SubSeq(layers, 1, Len(layers) - 1) = <<{}>>
  <1>1. Mounted
    BY DEF Mounted
  <1>2. Top = s /\ Len(layers) = 2
    BY DEF Top
  <1>3. ASSUME NEW t PROVE WithTop(t) = <<{}, t>>
    BY <1>2 DEF WithTop
  <1>4. SubSeq(layers, 1, 1) = <<{}>>
    <2> DEFINE a == SubSeq(layers, 1, 1)
               b == <<{}>>
    <2>1. layers \in Seq({{}, s}) /\ b \in Seq({{}, s}) /\ Len(b) = 1 /\ b[1] = {}
      OBVIOUS
    <2>2. a \in Seq({{}, s}) /\ Len(a) = 1 /\ a[1] = {}
      BY <1>2, <2>1, SubSeqProperties
    <2>3. \A i \in 1 .. 1 : a[i] = b[i]
      BY <2>1, <2>2
    <2> QED
      BY <2>1, <2>2, <2>3, SeqEqual
  <1> QED
    BY <1>1, <1>2, <1>3, <1>4

\* All that is known in a state.
Known(r) == RInv /\ HostTyped /\ Supplied /\ SInv(r)

\* Faults never go away.
LEMMA FaultsStay ==
    ASSUME HostTyped, [Next]_vars
    PROVE  faults' = 0 => faults = 0
  <1>1. CASE UNCHANGED faults
    BY <1>1
  <1>2. ASSUME NEW n \in Nat, Faulty(n) PROVE faults' = 0 => faults = 0
    BY <1>2, FaultShows DEF HostTyped
  <1>3. ASSUME NEW r \in Runners, MountVolumes(r) \/ UnmountVolumes(r) \/ MapPorts(r)
        PROVE  UNCHANGED faults \/ \E n \in Nat : Faulty(n)
    <2>1. CASE MountVolumes(r)
      BY <2>1, Sizes DEF MountVolumes
    <2>2. CASE UnmountVolumes(r)
      <3>1. Top \in SUBSET Volumes
        BY TopTyped DEF HostTyped
      <3> QED
        BY <2>2, <3>1, Sizes DEF UnmountVolumes
    <2>3. CASE MapPorts(r)
      BY <2>3, Sizes DEF MapPorts
    <2> QED
      BY <1>3, <2>1, <2>2, <2>3
  <1>4. ASSUME NEW r \in Runners,
               \/ UnmountRoot(r) \/ RemoveDir(r) \/ SetLimits(r) \/ CleanCgroup(r)
               \/ SetAlias(r) \/ BackoutVeth(r) \/ Backout(r) \/ UnmapPorts(r) \/ Disconnect(r)
               \/ ReleaseIp(r) \/ RemoveInfo(r)
        PROVE  UNCHANGED faults \/ \E n \in Nat : Faulty(n)
    BY <1>4 DEF UnmountRoot, RemoveDir, SetLimits, CleanCgroup, SetAlias, BackoutVeth, Backout,
       UnmapPorts, Disconnect, ReleaseIp, RemoveInfo, DeleteOwned, Undo
  <1>5. ASSUME NEW r \in Runners,
               \/ CheckAbsent(r) \/ MakeUpper(r) \/ MakeMountpoint(r) \/ MountOverlay(r)
               \/ MakeCgroup(r) \/ Clone(r) \/ ApplyCgroup(r) \/ AllocIp(r) \/ LookupPid(r)
               \/ NameVeth(r) \/ AddVeth(r) \/ Configure(r) \/ WriteInfo(r) \/ Release(r)
               \/ ReleaseBroken(r) \/ Wait(r) \/ UpdateStatus(r) \/ SetupError(r) \/ KillChild(r)
               \/ Child(r) \/ ChildKilled(r) \/ NetnsGone(r) \/ Crash(r)
        PROVE  UNCHANGED faults
    BY <1>5 DEF CheckAbsent, MakeUpper, MakeMountpoint, MountOverlay, MakeCgroup, Clone,
       ApplyCgroup, AllocIp, LookupPid, NameVeth, AddVeth, Configure, WriteInfo, Release,
       ReleaseBroken, Wait, UpdateStatus, SetupError, Fail, KillChild, Child, ChildReady,
       ChildExec, ChildExit, ChildKilled, NetnsGone, Crash
  <1> QED
    BY <1>1, <1>2, <1>3, <1>4, <1>5 DEF Next, Run, Rollback, vars

\* A step that leaves the workspace alone, does not write the byte, and goes
\* to no place that promises more of the workspace than the one it comes from.
LEMMA WorkspaceMove ==
    ASSUME NEW r \in Runners, Typed, WorkspaceInOrder(r), faults' = 0 => faults = 0,
           UNCHANGED <<dir, layers, harmed, named, unclean>>, Authorised(r)' => Authorised(r),
           NEW to, pc' = [pc EXCEPT ![r] = to],
           to \in Bare => pc[r] \in Bare /\ to # "overlay",
           to \in Bound => pc[r] \in Bound,
           to \notin {"volumes", "unmount"},
           to \in Swept \ {"rmdir"} => pc[r] \in Swept \ {"rmdir"},
           to = "rmdir" => ~named[r]
    PROVE  WorkspaceInOrder(r)'
  <1>1. pc'[r] = to /\ UNCHANGED Mounted
    BY DEF Typed, Mounted
  <1> QED
    BY <1>1 DEF WorkspaceInOrder, Bare, Bound, Swept, Owning, Joined, Connecting

\* The mounts and directories of the run stay in order.
LEMMA NextWorkspace ==
    ASSUME NEW r \in Runners, Runners = {r}, Known(r), [Next]_vars
    PROVE  WorkspaceInOrder(r)'
  <1>1. faults' = 0 => faults = 0
    BY FaultsStay DEF Known
  <1>2. Typed /\ WorkspaceInOrder(r)
    BY DEF Known, SInv, RInv
  <1>3. CASE UNCHANGED vars
    BY <1>3 DEF Known, SInv, vars, host, local, WorkspaceInOrder, Mounted, Authorised
  <1> DEFINE Left == UNCHANGED <<dir, layers, harmed, named, unclean>>
  <1>4. CASE \/ CheckAbsent(r) \/ MakeCgroup(r) \/ SetLimits(r) \/ Clone(r) \/ ApplyCgroup(r)
             \/ AllocIp(r) \/ LookupPid(r) \/ NameVeth(r) \/ AddVeth(r) \/ SetAlias(r)
    <2>1. Left /\ (Authorised(r)' => Authorised(r))
      BY <1>4 DEF CheckAbsent, MakeCgroup, SetLimits, Clone, ApplyCgroup, AllocIp, LookupPid,
         NameVeth, AddVeth, SetAlias, host, local, Authorised, Known, RInv, Typed
    <2> QED
      BY <1>1, <1>2, <1>4, <2>1, WorkspaceMove DEF Known, RInv, SInv, CheckAbsent, MakeCgroup,
         SetLimits, Clone, ApplyCgroup, AllocIp, LookupPid, NameVeth, AddVeth, SetAlias, At,
         Goto, Bare, Bound, Swept, Owning, Joined, Connecting
  <1>5. CASE \/ Configure(r) \/ BackoutVeth(r) \/ Backout(r) \/ MapPorts(r) \/ WriteInfo(r)
             \/ ReleaseBroken(r) \/ Wait(r) \/ UpdateStatus(r) \/ SetupError(r)
    <2>1. Left /\ (Authorised(r)' => Authorised(r))
      BY <1>5 DEF Configure, BackoutVeth, Backout, MapPorts, WriteInfo, ReleaseBroken, Wait,
         UpdateStatus, SetupError, Fail, host, local, Authorised, Known, RInv, Typed
    <2> QED
      BY <1>1, <1>2, <1>5, <2>1, WorkspaceMove DEF Known, RInv, SInv, Configure, BackoutVeth,
         Backout, MapPorts, WriteInfo, ReleaseBroken, Wait, UpdateStatus, SetupError, Fail, At,
         Goto, Bare, Bound, Swept, Owning, Joined, Connecting
  <1>6. CASE \/ KillChild(r) \/ UnmapPorts(r) \/ Disconnect(r) \/ ReleaseIp(r) \/ CleanCgroup(r)
             \/ RemoveInfo(r) \/ Crash(r)
    <2>1. Left /\ (Authorised(r)' => Authorised(r))
      BY <1>6 DEF KillChild, UnmapPorts, Disconnect, ReleaseIp, CleanCgroup, RemoveInfo, Crash,
         host, local, Authorised, Known, RInv, Typed
    <2> QED
      BY <1>1, <1>2, <1>6, <2>1, WorkspaceMove DEF Known, RInv, SInv, KillChild, UnmapPorts,
         Disconnect, ReleaseIp, CleanCgroup, RemoveInfo, Crash, At, Goto, Bare, Bound, Swept,
         Owning, Joined, Connecting
  <1>7. CASE Child(r) \/ ChildKilled(r) \/ NetnsGone(r)
    <2>1. UNCHANGED <<dir, layers, harmed, named, unclean, pc, pipe, faults>>
      BY <1>7 DEF Child, ChildReady, ChildExec, ChildExit, ChildKilled, NetnsGone, host, local
    <2> QED
      BY <2>1 DEF Known, SInv, WorkspaceInOrder, Mounted, Authorised
  <1>8. CASE Release(r)
    <2>1. /\ pc[r] = "release" /\ pc'[r] \in {"detached", "wait"}
          /\ UNCHANGED <<dir, layers, harmed, named, unclean, faults>>
      BY <1>8 DEF Release, Goto, host, local, Known, RInv, Typed
    <2>2. layers = <<{}, Volumes>>
      BY <2>1 DEF Known, SInv, WorkspaceInOrder, Bound, Owning, Joined
    <2> QED
      BY <2>1, <2>2 DEF Known, SInv, WorkspaceInOrder, Mounted, Bare, Bound, Swept, Owning,
         Joined, Connecting
  <1>9. CASE MakeUpper(r) \/ MakeMountpoint(r)
    <2>1. /\ layers = <<{}>> /\ layers' = <<{}>> /\ UNCHANGED <<harmed, faults>>
          /\ unclean'[r] = unclean[r] /\ pc'[r] \in {"mountpoint", "overlay", "kill"}
          /\ pc'[r] = "overlay" => named'[r]
          /\ ~Authorised(r) /\ ~Authorised(r)'
      BY <1>9 DEF MakeUpper, MakeMountpoint, At, Goto, local, Known, RInv, Typed, HostTyped,
         SInv, WorkspaceInOrder, AuthorisedLast, Authorised, Bare
    <2> QED
      BY <2>1 DEF Known, SInv, WorkspaceInOrder, Mounted, Bare, Bound, Swept, Owning, Joined,
         Connecting
  <1>10. CASE MountOverlay(r)
    <2>1. layers = <<{}>> /\ layers' = <<{}, {}>> /\ {} \in SUBSET Volumes
      BY <1>10, BareShape DEF MountOverlay, At, Known, SInv, WorkspaceInOrder, Bare
    <2> QED
      BY <1>10, <2>1 DEF MountOverlay, At, Goto, host, local, Known, RInv, Typed, HostTyped,
         SInv, WorkspaceInOrder, AuthorisedLast, Mounted, Authorised, Bare, Bound, Swept,
         Owning, Joined, Connecting
  <1>11. CASE MountVolumes(r)
    <2>1. layers = <<{}, {}>>
      BY <1>11 DEF MountVolumes, At, Known, SInv, WorkspaceInOrder
    <2>2. pc[r] = "volumes" /\ named[r] /\ dir /\ ~Authorised(r)
      BY <1>11 DEF MountVolumes, At, Known, SInv, WorkspaceInOrder, AuthorisedLast
    <2>3. CASE At(r, "volumes", "cgroup") /\ layers' = WithTop(Top \cup Volumes)
      <3>1. layers' = <<{}, Volumes>>
        <4>1. Top = {}
          BY <2>1, MountedShape
        <4>2. Top \cup Volumes = Volumes
          BY <4>1
        <4> QED
          BY <2>1, <2>3, <4>2, MountedShape
      <3> QED
        BY <1>1, <1>11, <2>2, <2>3, <3>1 DEF MountVolumes, At, Goto, local, Known, RInv, Typed,
           SInv, WorkspaceInOrder, Mounted, Authorised, Bare, Bound, Swept, Owning, Joined
    <2>4. CASE /\ At(r, "volumes", "kill")
               /\ \E left \in SUBSET Volumes : layers' = WithTop(Top \cup left)
      <3>1. \E s \in SUBSET Volumes : layers' = <<{}, s>>
        BY <2>1, <2>4, MountedShape
      <3> QED
        BY <1>1, <1>11, <2>2, <2>4, <3>1 DEF MountVolumes, At, Goto, local, Known, RInv, Typed,
           SInv, WorkspaceInOrder, Mounted, Authorised, Bare, Bound, Swept, Owning, Joined,
           Connecting
    <2> QED
      BY <1>11, <2>3, <2>4 DEF MountVolumes
  <1>12. CASE UnmountVolumes(r)
    <2>1. PICK left \in SUBSET Top : /\ layers' = WithTop(left)
                                     /\ Faulty(Cardinality(left))
                                     /\ unclean' = [unclean EXCEPT ![r] = left # {}]
      BY <1>12 DEF UnmountVolumes
    <2>2. /\ pc[r] = "unbind" /\ pc'[r] = "unmount" /\ ~Authorised(r) /\ ~Authorised(r)'
          /\ UNCHANGED <<dir, harmed, named>>
      BY <1>12 DEF UnmountVolumes, At, Goto, local, Known, SInv, AuthorisedLast, RInv, Typed,
         Authorised
    <2>3. unclean'[r] = (left # {})
      BY <2>1 DEF Known, HostTyped
    <2>4. faults' = 0 => left = {}
      <3>1. left \in SUBSET Volumes
        BY <2>1, TopTyped DEF Known, HostTyped
      <3> QED
        BY <2>1, <3>1, Sizes, FaultShows DEF Known, HostTyped
    <2>5. CASE layers = <<{}>>
      <3>1. layers' = <<{}>>
        BY <2>1, <2>5, BareShape
      <3> QED
        BY <2>2, <2>3, <2>4, <3>1 DEF Known, SInv, WorkspaceInOrder, Mounted, Bare, Bound,
           Swept, Owning, Joined, Connecting
    <2>6. CASE named[r] /\ \E s \in SUBSET Volumes : layers = <<{}, s>>
      <3>1. layers' = <<{}, left>> /\ left \in SUBSET Volumes /\ Mounted
        BY <2>1, <2>6, MountedShape
      <3> QED
        BY <2>2, <2>3, <2>4, <2>6, <3>1 DEF Known, SInv, WorkspaceInOrder, Mounted, Bare, Bound,
           Swept, Owning, Joined, Connecting
    <2> QED
      BY <2>5, <2>6 DEF Known, SInv, WorkspaceInOrder
  <1>13. CASE UnmountRoot(r)
    <2>1. /\ pc[r] = "unmount" /\ pc'[r] = "rmdir" /\ ~Authorised(r) /\ ~Authorised(r)'
          /\ UNCHANGED <<dir, harmed, named>>
      BY <1>13 DEF UnmountRoot, At, Goto, local, Known, SInv, AuthorisedLast, RInv, Typed,
         Authorised
    <2>2. CASE layers = <<{}>>
      <3>1. UNCHANGED <<layers, unclean>>
        BY <1>13, <2>2, BareShape DEF UnmountRoot
      <3> QED
        BY <1>1, <2>1, <2>2, <3>1 DEF Known, SInv, WorkspaceInOrder, Mounted, Bare, Bound,
           Swept, Owning, Joined, Connecting
    <2>3. ASSUME NEW s \in SUBSET Volumes, named[r], layers = <<{}, s>>
          PROVE  WorkspaceInOrder(r)'
      <3>1. Mounted /\ Top = s /\ Len(layers) = 2 /\ SubSeq(layers, 1, Len(layers) - 1) = <<{}>>
        BY <2>3, MountedShape
      <3>2. CASE layers' = <<{}>> /\ UNCHANGED unclean
        BY <1>1, <2>1, <3>2 DEF Known, SInv, WorkspaceInOrder, Mounted, Bare, Bound, Swept,
           Owning, Joined, Connecting
      <3>3. CASE UNCHANGED layers /\ unclean' = [unclean EXCEPT ![r] = TRUE] /\ faults' # 0
        BY <2>1, <2>3, <3>1, <3>3 DEF Known, HostTyped, SInv, WorkspaceInOrder, Mounted, Bare,
           Bound, Swept, Owning, Joined, Connecting
      <3>4. ASSUME unclean' = [unclean EXCEPT ![r] = TRUE],
                   IF Top = {} THEN Faulty(1) ELSE UNCHANGED faults
            PROVE  faults' # 0
        <4>1. CASE Top = {}
          BY <3>4, <4>1, FaultShows DEF Known, HostTyped
        <4>2. CASE Top # {}
          <5>1. layers # <<{}>> /\ layers # <<{}, {}>>
            BY <2>3, <3>1, <4>2, MountedShape DEF Mounted
          <5> QED
            BY <2>1, <3>4, <4>2, <5>1 DEF Known, SInv, WorkspaceInOrder
        <4> QED
          BY <4>1, <4>2
      <3>5. \/ layers' = <<{}>> /\ UNCHANGED unclean
            \/ /\ UNCHANGED layers /\ unclean' = [unclean EXCEPT ![r] = TRUE]
               /\ IF Top = {} THEN Faulty(1) ELSE UNCHANGED faults
        <4>1. Len(layers) # 1
          BY <3>1
        <4>2. \/ layers' = SubSeq(layers, 1, Len(layers) - 1) /\ UNCHANGED unclean
              \/ /\ UNCHANGED layers /\ unclean' = [unclean EXCEPT ![r] = TRUE]
                 /\ IF Top = {} THEN Faulty(1) ELSE UNCHANGED faults
          BY <1>13, <4>1, Zenon DEF UnmountRoot
        <4> QED
          BY <3>1, <4>2
      <3> QED
        BY <3>2, <3>3, <3>4, <3>5
    <2> QED
      BY <2>2, <2>3 DEF Known, SInv, WorkspaceInOrder
  <1>14. CASE RemoveDir(r)
    <2>1. /\ pc[r] = "rmdir" /\ pc'[r] = "rmcgroup" /\ ~Authorised(r) /\ ~Authorised(r)'
          /\ UNCHANGED <<layers, named, unclean>>
      BY <1>14 DEF RemoveDir, At, Goto, local, Known, SInv, AuthorisedLast, RInv, Typed,
         Authorised
    <2>2. UNCHANGED <<harmed, Mounted>> /\ (dir' = FALSE => ~Mounted \/ ~dir)
      BY <1>14, <2>1 DEF RemoveDir, Undo, Mounted, Known, SInv, WorkspaceInOrder, Swept
    <2>3. faults' = 0 => ~dir'
      <3>1. Faulty(1) => faults' # 0
        BY FaultShows DEF Known, HostTyped
      <3> QED
        BY <1>1, <1>14, <2>1, <3>1 DEF RemoveDir, Undo, Mounted, Known, HostTyped, SInv,
           WorkspaceInOrder, Swept
    <2> QED
      BY <1>1, <1>14, <2>1, <2>2, <2>3 DEF RemoveDir, Undo, Known, HostTyped, SInv,
         WorkspaceInOrder, Bare, Bound, Swept, Owning, Joined, Connecting
  <1> QED
    BY <1>3, <1>4, <1>5, <1>6, <1>7, <1>8, <1>9, <1>10, <1>11, <1>12, <1>13, <1>14
       DEF Next, Run, Rollback

-----------------------------------------------------------------------------
\* The byte stays the last thing docker_run does for the container.
LEMMA NextAuthorised ==
    ASSUME NEW r \in Runners, Runners = {r}, Known(r), [Next]_vars
    PROVE  AuthorisedLast(r)'
  <1>1. ASSUME NEW to, Goto(r, to), Authorised(r)' => Authorised(r),
               to \notin {"detached", "wait", "update", "exited", "killed"} =>
                  pc[r] \notin {"detached", "wait", "update", "exited", "killed"}
        PROVE  AuthorisedLast(r)'
    BY <1>1 DEF Known, RInv, Typed, Goto, SInv, AuthorisedLast
  <1>2. CASE \/ CheckAbsent(r) \/ MakeUpper(r) \/ MakeMountpoint(r) \/ MountOverlay(r)
             \/ MountVolumes(r) \/ MakeCgroup(r) \/ SetLimits(r) \/ Clone(r) \/ ApplyCgroup(r)
    <2>1. Authorised(r)' => Authorised(r)
      BY <1>2 DEF CheckAbsent, MakeUpper, MakeMountpoint, MountOverlay, MountVolumes,
         MakeCgroup, SetLimits, Clone, ApplyCgroup, host, local, Authorised, Known, RInv, Typed
    <2> QED
      BY <1>1, <1>2, <2>1 DEF Known, RInv, SInv, CheckAbsent, MakeUpper,
         MakeMountpoint, MountOverlay, MountVolumes, MakeCgroup, SetLimits, Clone, ApplyCgroup,
         At, Goto
  <1>3. CASE \/ AllocIp(r) \/ LookupPid(r) \/ NameVeth(r) \/ AddVeth(r) \/ SetAlias(r)
             \/ Configure(r) \/ BackoutVeth(r) \/ Backout(r)
    <2>1. Authorised(r)' => Authorised(r)
      BY <1>3 DEF AllocIp, LookupPid, NameVeth, AddVeth, SetAlias, Configure, BackoutVeth,
         Backout, host, local, Authorised, Known, RInv, Typed
    <2> QED
      BY <1>1, <1>3, <2>1 DEF Known, RInv, SInv, AllocIp, LookupPid, NameVeth,
         AddVeth, SetAlias, Configure, BackoutVeth, Backout, At, Goto
  <1>4. CASE \/ MapPorts(r) \/ WriteInfo(r) \/ ReleaseBroken(r) \/ Wait(r) \/ UpdateStatus(r)
             \/ SetupError(r) \/ Crash(r)
    <2>1. Authorised(r)' => Authorised(r)
      BY <1>4 DEF MapPorts, WriteInfo, ReleaseBroken, Wait, UpdateStatus, SetupError, Fail,
         Crash, host, local, Authorised, Known, RInv, Typed
    <2> QED
      BY <1>1, <1>4, <2>1 DEF Known, RInv, SInv, MapPorts, WriteInfo, ReleaseBroken,
         Wait, UpdateStatus, SetupError, Fail, Crash, At, Goto
  <1>5. CASE \/ KillChild(r) \/ UnmapPorts(r) \/ Disconnect(r) \/ ReleaseIp(r)
             \/ UnmountVolumes(r) \/ UnmountRoot(r) \/ RemoveDir(r) \/ CleanCgroup(r)
             \/ RemoveInfo(r)
    <2>1. Authorised(r)' => Authorised(r)
      BY <1>5 DEF KillChild, UnmapPorts, Disconnect, ReleaseIp, UnmountVolumes, UnmountRoot,
         RemoveDir, CleanCgroup, RemoveInfo, host, local, Authorised, Known, RInv, Typed
    <2> QED
      BY <1>1, <1>5, <2>1 DEF Known, RInv, SInv, KillChild, UnmapPorts, Disconnect,
         ReleaseIp, UnmountVolumes, UnmountRoot, RemoveDir, CleanCgroup, RemoveInfo, At, Goto
  <1>6. CASE Release(r)
    BY <1>6 DEF Release, Goto, Known, RInv, Typed, AuthorisedLast
  <1>7. CASE Child(r) \/ ChildKilled(r) \/ NetnsGone(r) \/ UNCHANGED vars
    <2>1. UNCHANGED <<pc, pipe>>
      BY <1>7 DEF Child, ChildReady, ChildExec, ChildExit, ChildKilled, NetnsGone, vars
    <2> QED
      BY <2>1 DEF Known, SInv, AuthorisedLast, Authorised
  <1> QED
    BY <1>2, <1>3, <1>4, <1>5, <1>6, <1>7 DEF Next, Run, Rollback

\* The cgroup stays the run's own.
LEMMA NextCgroup ==
    ASSUME NEW r \in Runners, Runners = {r}, Known(r), [Next]_vars
    PROVE  CgroupInOrder(r)'
  <1>0. faults' = 0 => faults = 0
    BY FaultsStay DEF Known
  <1>1. ASSUME NEW to, Goto(r, to), UNCHANGED <<cgroup, created>>,
               to \in {"rmmeta", "failed"} => pc[r] \in {"rmmeta", "failed"}
        PROVE  CgroupInOrder(r)'
    BY <1>0, <1>1 DEF Known, RInv, Typed, Goto, SInv, CgroupInOrder
  <1>2. CASE \/ CheckAbsent(r) \/ MakeUpper(r) \/ MakeMountpoint(r) \/ MountOverlay(r)
             \/ MountVolumes(r) \/ Clone(r) \/ ApplyCgroup(r)
    <2>1. UNCHANGED <<cgroup, created>>
      BY <1>2 DEF CheckAbsent, MakeUpper, MakeMountpoint, MountOverlay, MountVolumes, Clone,
         ApplyCgroup, host, local
    <2> QED
      BY <1>1, <1>2, <2>1 DEF Known, RInv, SInv, CheckAbsent, MakeUpper,
         MakeMountpoint, MountOverlay, MountVolumes, Clone, ApplyCgroup, At, Goto
  <1>3. CASE \/ AllocIp(r) \/ LookupPid(r) \/ NameVeth(r) \/ AddVeth(r) \/ SetAlias(r)
             \/ Configure(r) \/ BackoutVeth(r) \/ Backout(r)
    <2>1. UNCHANGED <<cgroup, created>>
      BY <1>3 DEF AllocIp, LookupPid, NameVeth, AddVeth, SetAlias, Configure, BackoutVeth,
         Backout, host, local
    <2> QED
      BY <1>1, <1>3, <2>1 DEF Known, RInv, SInv, AllocIp, LookupPid, NameVeth,
         AddVeth, SetAlias, Configure, BackoutVeth, Backout, At, Goto
  <1>4. CASE \/ MapPorts(r) \/ WriteInfo(r) \/ ReleaseBroken(r) \/ Wait(r) \/ UpdateStatus(r)
             \/ SetupError(r) \/ Crash(r)
    <2>1. UNCHANGED <<cgroup, created>>
      BY <1>4 DEF MapPorts, WriteInfo, ReleaseBroken, Wait, UpdateStatus, SetupError, Fail,
         Crash, host, local
    <2> QED
      BY <1>1, <1>4, <2>1 DEF Known, RInv, SInv, MapPorts, WriteInfo, ReleaseBroken,
         Wait, UpdateStatus, SetupError, Fail, Crash, At, Goto
  <1>5. CASE \/ KillChild(r) \/ UnmapPorts(r) \/ Disconnect(r) \/ ReleaseIp(r)
             \/ UnmountVolumes(r) \/ UnmountRoot(r) \/ RemoveDir(r) \/ RemoveInfo(r)
    <2>1. UNCHANGED <<cgroup, created>>
      BY <1>5 DEF KillChild, UnmapPorts, Disconnect, ReleaseIp, UnmountVolumes, UnmountRoot,
         RemoveDir, RemoveInfo, host, local
    <2> QED
      BY <1>1, <1>5, <2>1 DEF Known, RInv, SInv, KillChild, UnmapPorts, Disconnect,
         ReleaseIp, UnmountVolumes, UnmountRoot, RemoveDir, RemoveInfo, At, Goto
  <1>6. CASE MakeCgroup(r) \/ SetLimits(r)
    BY <1>0, <1>6 DEF MakeCgroup, SetLimits, At, Goto, host, local, Known, RInv, Typed, SInv,
       CgroupInOrder
  <1>7. CASE CleanCgroup(r)
    <2>1. Members = {}
      BY <1>7 DEF CleanCgroup, At, Members, Known, RInv, StagesInOrder, Reaped
    <2>2. Faulty(1) => faults' # 0
      BY FaultShows DEF Known, HostTyped
    <2> QED
      BY <1>0, <1>7, <2>1, <2>2 DEF CleanCgroup, Known, RInv, Typed, SInv, CgroupInOrder
  <1>8. CASE Release(r)
    BY <1>1, <1>8 DEF Release, host, local
  <1>9. CASE Child(r) \/ ChildKilled(r) \/ NetnsGone(r) \/ UNCHANGED vars
    <2>1. UNCHANGED <<pc, cgroup, created, faults>>
      BY <1>9 DEF Child, ChildReady, ChildExec, ChildExit, ChildKilled, NetnsGone, vars, host,
         local
    <2> QED
      BY <2>1 DEF Known, SInv, CgroupInOrder
  <1> QED
    BY <1>2, <1>3, <1>4, <1>5, <1>6, <1>7, <1>8, <1>9
       DEF Next, Run, Rollback

\* Exactly the run's address stays marked.
LEMMA NextLease ==
    ASSUME NEW r \in Runners, Runners = {r}, Known(r), [Next]_vars
    PROVE  LeaseInOrder(r)'
  <1> USE DEF Connected
  <1>0. faults' = 0 => faults = 0
    BY FaultsStay DEF Known
  <1>1. ASSUME NEW to, Goto(r, to), UNCHANGED <<ip, used, pending>>,
               Authorised(r)' => Authorised(r) \/ pc[r] = "release",
               to \in Connected => pc[r] \in Connected,
               to # "killed" => pc[r] # "killed" /\ (to \in Released <=> pc[r] \in Released)
        PROVE  LeaseInOrder(r)'
    <2>1. pc'[r] = to
      BY <1>1 DEF Known, RInv, Typed, Goto
    <2>2. pc'[r] # "killed" => UNCHANGED Working(r)
      BY <1>1, <2>1 DEF Working
    <2> QED
      BY <1>0, <1>1, <2>1, <2>2 DEF Known, SInv, LeaseInOrder
  <1>2. CASE \/ CheckAbsent(r) \/ MakeUpper(r) \/ MakeMountpoint(r) \/ MountOverlay(r)
             \/ MountVolumes(r) \/ MakeCgroup(r) \/ SetLimits(r) \/ Clone(r) \/ ApplyCgroup(r)
    <2>1. UNCHANGED <<ip, used, pending>> /\ (Authorised(r)' => Authorised(r))
      BY <1>2 DEF CheckAbsent, MakeUpper, MakeMountpoint, MountOverlay, MountVolumes,
         MakeCgroup, SetLimits, Clone, ApplyCgroup, host, local, Authorised, Known, RInv, Typed
    <2> QED
      BY <1>1, <1>2, <2>1 DEF Known, RInv, SInv, CheckAbsent, MakeUpper,
         MakeMountpoint, MountOverlay, MountVolumes, MakeCgroup, SetLimits, Clone, ApplyCgroup,
         At, Goto, Released
  <1>3. CASE LookupPid(r) \/ NameVeth(r) \/ AddVeth(r) \/ SetAlias(r) \/ BackoutVeth(r)
    <2>1. UNCHANGED <<ip, used, pending>> /\ (Authorised(r)' => Authorised(r))
      BY <1>3 DEF LookupPid, NameVeth, AddVeth, SetAlias, BackoutVeth, host, local,
         Authorised, Known, RInv, Typed
    <2> QED
      BY <1>1, <1>3, <2>1 DEF Known, RInv, SInv, LookupPid, NameVeth, AddVeth,
         SetAlias, BackoutVeth, At, Goto, Released
  <1>4. CASE \/ MapPorts(r) \/ WriteInfo(r) \/ ReleaseBroken(r) \/ Wait(r) \/ UpdateStatus(r)
             \/ SetupError(r) \/ Crash(r)
    <2>1. UNCHANGED <<ip, used, pending>> /\ (Authorised(r)' => Authorised(r))
      BY <1>4 DEF MapPorts, WriteInfo, ReleaseBroken, Wait, UpdateStatus, SetupError, Fail,
         Crash, host, local, Authorised, Known, RInv, Typed
    <2> QED
      BY <1>1, <1>4, <2>1 DEF Known, RInv, SInv, MapPorts, WriteInfo, ReleaseBroken,
         Wait, UpdateStatus, SetupError, Fail, Crash, At, Goto, Released
  <1>5. CASE \/ UnmapPorts(r) \/ Disconnect(r) \/ UnmountVolumes(r) \/ UnmountRoot(r)
             \/ RemoveDir(r) \/ CleanCgroup(r) \/ RemoveInfo(r)
    <2>1. UNCHANGED <<ip, used, pending>> /\ (Authorised(r)' => Authorised(r))
      BY <1>5 DEF UnmapPorts, Disconnect, UnmountVolumes, UnmountRoot, RemoveDir,
         CleanCgroup, RemoveInfo, host, local, Authorised, Known, RInv, Typed
    <2> QED
      BY <1>1, <1>5, <2>1 DEF Known, RInv, SInv, UnmapPorts, Disconnect,
         UnmountVolumes, UnmountRoot, RemoveDir, CleanCgroup, RemoveInfo, At, Goto, Released
  <1>6. CASE KillChild(r)
    <2>1. pending[r] = None
      BY <1>6 DEF KillChild, At, Known, RInv, AddressesInOrder, Holding, Connecting
    <2>2. /\ UNCHANGED <<ip, used, pending>> /\ pc[r] = "kill"
          /\ pc'[r] \in {"unmap", "unbind", "rmdir"} /\ (pc'[r] # "unmap" => ip[r] = None)
          /\ ~Authorised(r) /\ ~Authorised(r)'
      BY <1>6 DEF KillChild, At, Goto, host, local, Known, RInv, Typed, SInv, AuthorisedLast,
         Authorised
    <2>3. UNCHANGED Working(r)
      BY <2>1, <2>2 DEF Working, Released
    <2> QED
      BY <1>0, <2>2, <2>3 DEF Known, SInv, LeaseInOrder
  <1>7. CASE AllocIp(r)
    <2>1. PICK a \in Addresses \ used : /\ used' = used \cup {a}
                                        /\ pending' = [pending EXCEPT ![r] = a]
      BY <1>7 DEF AllocIp
    <2>2. pending[r] = None /\ ip[r] = None
      BY <1>7 DEF AllocIp, At, Known, RInv, AddressesInOrder, Holding, Connecting, Addressless
    <2>3. /\ pc[r] = "alloc" /\ pc'[r] = "lookup" /\ UNCHANGED <<ip, faults>>
          /\ ~Authorised(r) /\ ~Authorised(r)' /\ pending'[r] = a
      BY <1>7, <2>1 DEF AllocIp, At, Goto, host, local, Known, RInv, Typed, SInv,
         AuthorisedLast, Authorised
    <2>4. Working(r) = {} /\ Working(r)' = {a}
      BY <2>1, <2>2, <2>3, NoneAssumption DEF Working, Released
    <2> QED
      BY <2>1, <2>3, <2>4 DEF Known, SInv, LeaseInOrder
  <1>8. CASE Configure(r)
    <2>1. ip[r] = None /\ pending[r] \in Addresses
      BY <1>8 DEF Configure, At, Known, RInv, AddressesInOrder, Supplied, Connecting,
         Addressless
    <2>2. /\ pc[r] = "configure" /\ UNCHANGED <<used, faults>>
          /\ ~Authorised(r) /\ ~Authorised(r)'
          /\ \/ pc'[r] = "unveth" /\ UNCHANGED <<ip, pending>>
             \/ pc'[r] = "ports" /\ ip'[r] = pending[r] /\ pending'[r] = None
      BY <1>8 DEF Configure, At, Goto, host, Known, RInv, Typed, SInv, AuthorisedLast,
         Authorised
    <2>3. Working(r) = {pending[r]} /\ UNCHANGED Working(r)
      BY <2>1, <2>2, NoneAssumption DEF Working, Released
    <2>4. pending[r] \in used
      BY <2>3 DEF Known, RInv, AddressesHeld
    <2> QED
      BY <2>2, <2>3, <2>4 DEF Known, SInv, LeaseInOrder
  <1>9. CASE Backout(r)
    <2>1. ip[r] = None /\ pending[r] \in Addresses
      BY <1>9 DEF Backout, At, Known, RInv, AddressesInOrder, Supplied, Connecting,
         Addressless
    <2>2. /\ pc[r] = "backout" /\ pc'[r] = "kill" /\ UNCHANGED ip /\ pending'[r] = None
          /\ ~Authorised(r) /\ ~Authorised(r)'
      BY <1>9 DEF Backout, At, Goto, Known, RInv, Typed, SInv, AuthorisedLast, Authorised
    <2>3. Working(r) = {pending[r]} /\ Working(r)' = {}
      BY <2>1, <2>2, NoneAssumption DEF Working, Released
    <2>4. faults' = 0 => used' = used \ {pending[r]}
      BY <1>9, FaultShows DEF Backout, Undo, Known, HostTyped
    <2> QED
      BY <1>0, <2>2, <2>3, <2>4 DEF Known, SInv, LeaseInOrder
  <1>10. CASE ReleaseIp(r)
    <2>1. pending[r] = None
      BY <1>10 DEF ReleaseIp, At, Known, RInv, AddressesInOrder, Holding, Connecting
    <2>2. /\ pc[r] = "unlease" /\ pc'[r] \in {"unbind", "rmdir"} /\ UNCHANGED <<ip, pending>>
          /\ ~Authorised(r) /\ ~Authorised(r)'
      BY <1>10 DEF ReleaseIp, At, Goto, local, Known, RInv, Typed, SInv, AuthorisedLast,
         Authorised
    <2>3. Working(r) \subseteq {ip[r]} /\ Working(r)' = {}
      BY <2>1, <2>2 DEF Working, Released
    <2>4. faults' = 0 => used' = used \ {ip[r]}
      BY <1>10, FaultShows DEF ReleaseIp, Undo, Known, HostTyped
    <2> QED
      BY <1>0, <2>2, <2>3, <2>4 DEF Known, SInv, LeaseInOrder
  <1>11. CASE Release(r)
    BY <1>1, <1>11 DEF Release, host, local, Released
  <1>12. CASE Child(r) \/ ChildKilled(r) \/ NetnsGone(r) \/ UNCHANGED vars
    <2>1. UNCHANGED <<pc, pipe, ip, used, pending, faults>>
      BY <1>12 DEF Child, ChildReady, ChildExec, ChildExit, ChildKilled, NetnsGone, vars, host,
         local
    <2> QED
      BY <2>1 DEF Known, SInv, LeaseInOrder, Working, Authorised
  <1> QED
    BY <1>2, <1>3, <1>4, <1>5, <1>6, <1>7, <1>8, <1>9, <1>10, <1>11, <1>12
       DEF Next, Run, Rollback

\* The veth pair stays the container's until it is deleted.
LEMMA NextPair ==
    ASSUME NEW r \in Runners, Runners = {r}, Known(r), [Next]_vars
    PROVE  PairInOrder(r)'
  <1> USE DEF Aliased, Connected, Condemned, Unpaired
  <1>0. (faults' = 0 => faults = 0) /\ (Faulty(1) => faults' # 0)
    BY FaultsStay, FaultShows DEF Known, HostTyped
  <1>a. pc[r] \in Connected => ip[r] # None
    BY NoneAssumption DEF Known, SInv, LeaseInOrder, HostTyped
  <1>b. <<r, FALSE>> # None /\ <<r, TRUE>> # None
    <2>1. <<r, FALSE>> \in Runners \X BOOLEAN /\ <<r, TRUE>> \in Runners \X BOOLEAN
      OBVIOUS
    <2> QED
      BY <2>1, AbsenceAssumption
  <1>c. veth = None \/ veth = <<r, TRUE>> \/ veth = <<r, FALSE>>
    <2> SUFFICES ASSUME veth # None PROVE veth = <<r, TRUE>> \/ veth = <<r, FALSE>>
      OBVIOUS
    <2>1. PICK s \in Runners, b \in BOOLEAN : veth = <<s, b>>
      BY DEF Known, HostTyped
    <2>2. s = r
      OBVIOUS
    <2> QED
      BY <2>1, <2>2
  <1>1. ASSUME NEW to, Goto(r, to), UNCHANGED veth, Alive(r)' => Alive(r),
               Authorised(r)' => Authorised(r) \/ pc[r] = "release",
               to \in Pairless => pc[r] \in Pairless,
               to \in Aliased => pc[r] \in Aliased,
               to \in Connected => pc[r] \in Connected,
               to \in Condemned => pc[r] \in Condemned \cup Pairless \cup Aliased \cup Unpaired,
               to = "kill" => UNCHANGED ip /\ (ip[r] = None => pc[r] \in Pairless \cup {"backout"}),
               to \in Unpaired =>
                   pc[r] \in Unpaired \cup Pairless \/ (pc[r] = "kill" /\ ip[r] = None)
        PROVE  PairInOrder(r)'
    <2>1. pc'[r] = to
      BY <1>1 DEF Known, RInv, Typed, Goto
    <2>2. PairInOrder(r) /\ (veth = None => veth # <<r, FALSE>>)
      BY <1>b DEF Known, SInv
    <2> QED
      BY <1>0, <1>1, <2>1, <2>2 DEF PairInOrder
  <1>2. CASE \/ CheckAbsent(r) \/ MakeUpper(r) \/ MakeMountpoint(r) \/ MountOverlay(r)
             \/ MountVolumes(r) \/ MakeCgroup(r) \/ SetLimits(r) \/ ApplyCgroup(r)
    <2>1. UNCHANGED <<veth, ip>> /\ (Alive(r)' => Alive(r)) /\ (Authorised(r)' => Authorised(r))
      BY <1>2 DEF CheckAbsent, MakeUpper, MakeMountpoint, MountOverlay, MountVolumes,
         MakeCgroup, SetLimits, ApplyCgroup, host, local, Authorised, Alive, Known, RInv, Typed
    <2> QED
      BY <1>1, <1>2, <2>1, <1>a DEF Known, RInv, SInv, CheckAbsent, MakeUpper,
         MakeMountpoint, MountOverlay, MountVolumes, MakeCgroup, SetLimits, ApplyCgroup, At,
         Goto, Pairless, Unstarted, Cut, Swept
  <1>3. CASE AllocIp(r) \/ LookupPid(r) \/ NameVeth(r) \/ Backout(r)
    <2>1. UNCHANGED <<veth, ip>> /\ (Alive(r)' => Alive(r)) /\ (Authorised(r)' => Authorised(r))
      BY <1>3 DEF AllocIp, LookupPid, NameVeth, Backout, host, local, Authorised, Alive, Known,
         RInv, Typed
    <2> QED
      BY <1>1, <1>3, <2>1, <1>a DEF Known, RInv, SInv, AllocIp, LookupPid, NameVeth,
         Backout, At, Goto, Pairless, Unstarted, Cut, Swept
  <1>4. CASE \/ MapPorts(r) \/ WriteInfo(r) \/ ReleaseBroken(r) \/ Wait(r) \/ UpdateStatus(r)
             \/ SetupError(r) \/ Crash(r)
    <2>1. UNCHANGED <<veth, ip>> /\ (Alive(r)' => Alive(r)) /\ (Authorised(r)' => Authorised(r))
      BY <1>4 DEF MapPorts, WriteInfo, ReleaseBroken, Wait, UpdateStatus, SetupError, Fail,
         Crash, host, local, Authorised, Alive, Known, RInv, Typed
    <2> QED
      BY <1>1, <1>4, <2>1, <1>a DEF Known, RInv, SInv, MapPorts, WriteInfo, ReleaseBroken,
         Wait, UpdateStatus, SetupError, Fail, Crash, At, Goto, Pairless, Unstarted, Cut, Swept
  <1>5. CASE \/ UnmapPorts(r) \/ ReleaseIp(r) \/ UnmountVolumes(r) \/ UnmountRoot(r)
             \/ RemoveDir(r) \/ CleanCgroup(r) \/ RemoveInfo(r)
    <2>1. UNCHANGED <<veth, ip>> /\ (Alive(r)' => Alive(r)) /\ (Authorised(r)' => Authorised(r))
      BY <1>5 DEF UnmapPorts, ReleaseIp, UnmountVolumes, UnmountRoot, RemoveDir, CleanCgroup,
         RemoveInfo, host, local, Authorised, Alive, Known, RInv, Typed
    <2> QED
      BY <1>1, <1>5, <2>1, <1>a DEF Known, RInv, SInv, UnmapPorts, ReleaseIp,
         UnmountVolumes, UnmountRoot, RemoveDir, CleanCgroup, RemoveInfo, At, Goto, Pairless,
         Unstarted, Cut, Swept
  <1>6. CASE Release(r)
    BY <1>1, <1>6 DEF Release, host, local, Alive, Pairless, Unstarted, Cut, Swept
  <1>7. CASE Child(r) \/ ChildKilled(r) \/ UNCHANGED vars
    <2>1. UNCHANGED <<pc, pipe, ip, veth, faults>> /\ (Alive(r)' => Alive(r))
      BY <1>7 DEF Child, ChildReady, ChildExec, ChildExit, ChildKilled, vars, host, local,
         Alive, Known, RInv, Typed
    <2> QED
      BY <2>1 DEF Known, SInv, PairInOrder, Authorised
  <1>8. CASE Clone(r)
    <2>1. /\ pc[r] = "clone" /\ pc'[r] = "apply" /\ UNCHANGED <<veth, faults>>
          /\ ~Authorised(r)'
      BY <1>8 DEF Clone, At, Goto, host, Authorised, Known, RInv, Typed
    <2> QED
      BY <1>b, <2>1 DEF Known, SInv, PairInOrder, Pairless, Unstarted, Cut, Swept
  <1>9. CASE AddVeth(r)
    <2>1. /\ pc[r] = "veth" /\ ~Authorised(r)' /\ UNCHANGED faults
          /\ \/ pc'[r] = "alias"
             \/ pc'[r] = "backout" /\ UNCHANGED veth
      BY <1>9 DEF AddVeth, At, Goto, Authorised, Known, RInv, Typed, SInv, AuthorisedLast
    <2> QED
      BY <1>b, <2>1 DEF Known, SInv, PairInOrder, Pairless, Unstarted, Cut, Swept
  <1>10. CASE SetAlias(r)
    <2>1. /\ ~Authorised(r)'
          /\ \/ pc'[r] = "configure" /\ veth' = <<r, TRUE>>
             \/ pc'[r] = "backout" /\ (faults' = 0 => veth' = None)
      BY <1>0, <1>10 DEF SetAlias, Undo, At, Goto, Authorised, Known, RInv, Typed, SInv,
         AuthorisedLast
    <2>2. <<r, TRUE>> # <<r, FALSE>>
      OBVIOUS
    <2> QED
      BY <1>b, <2>1, <2>2 DEF PairInOrder, Pairless, Unstarted, Cut, Swept
  <1>11. CASE Configure(r)
    <2>1. /\ pc[r] = "configure" /\ ~Authorised(r)' /\ UNCHANGED <<veth, faults>>
          /\ \/ pc'[r] = "unveth"
             \/ pc'[r] = "ports" /\ veth # None
      BY <1>11 DEF Configure, At, Goto, host, Authorised, Known, RInv, Typed, SInv,
         AuthorisedLast
    <2>2. veth # <<r, FALSE>> /\ (veth = None \/ veth = <<r, TRUE>>)
      <3>1. veth # <<r, FALSE>>
        BY <2>1 DEF Known, SInv, PairInOrder
      <3> QED
        BY <1>c, <3>1
    <2> QED
      BY <2>1, <2>2 DEF PairInOrder, Pairless, Unstarted, Cut, Swept
  <1>12. CASE BackoutVeth(r) \/ Disconnect(r)
    <2>1. /\ ~Authorised(r)' /\ pc[r] \in {"unveth", "disconnect"}
          /\ pc'[r] \in {"backout", "unlease"}
      BY <1>12 DEF BackoutVeth, Disconnect, At, Goto, Authorised, Known, RInv, Typed, SInv,
         AuthorisedLast
    <2>2. ASSUME faults' = 0 PROVE veth' = None
      <3>1. veth # <<r, FALSE>>
        BY <1>0, <2>1, <2>2 DEF Known, SInv, PairInOrder
      <3>2. CASE veth = None
        BY <1>12, <3>2 DEF BackoutVeth, Disconnect, DeleteOwned
      <3>3. CASE veth = <<r, TRUE>>
        <4>1. veth # None /\ veth[2]
          BY <1>b, <3>3
        <4> QED
          BY <1>0, <1>12, <2>2, <4>1 DEF BackoutVeth, Disconnect, DeleteOwned, Undo
      <3> QED
        BY <1>c, <3>1, <3>2, <3>3
    <2> QED
      BY <2>1, <2>2 DEF PairInOrder, Pairless, Unstarted, Cut, Swept
  <1>13. CASE KillChild(r)
    <2>1. /\ pc[r] = "kill" /\ ~Authorised(r)' /\ UNCHANGED <<veth, faults>>
          /\ \/ pc'[r] = "unmap"
             \/ pc'[r] \in {"unbind", "rmdir"} /\ ip[r] = None
      BY <1>13 DEF KillChild, At, Goto, host, Authorised, Known, RInv, Typed, SInv,
         AuthorisedLast
    <2> QED
      BY <2>1 DEF Known, SInv, PairInOrder, Pairless, Unstarted, Cut, Swept
  <1>14. CASE NetnsGone(r)
    <2>1. veth' = None /\ UNCHANGED <<pc, ip, child, pipe, faults>> /\ ~Alive(r)
      BY <1>14 DEF NetnsGone, local, Alive
    <2> QED
      BY <1>b, <2>1 DEF PairInOrder, Alive
  <1> QED
    BY <1>2, <1>3, <1>4, <1>5, <1>6, <1>7, <1>8, <1>9, <1>10, <1>11, <1>12, <1>13, <1>14
       DEF Next, Run, Rollback

\* The rules stay the run's own and go before the address does.
LEMMA NextRules ==
    ASSUME NEW r \in Runners, Runners = {r}, Known(r), [Next]_vars
    PROVE  RulesInOrder(r)'
  <1>0. (faults' = 0 => faults = 0) /\ (Faulty(1) => faults' # 0)
    BY FaultsStay, FaultShows DEF Known, HostTyped
  <1>a. ip[r] = None => dnat = {}
    BY NoneAssumption DEF Known, HostTyped, SInv, RulesInOrder
  <1>1. ASSUME NEW to, Goto(r, to), UNCHANGED <<dnat, ip>>,
               Authorised(r)' => Authorised(r) \/ pc[r] = "release",
               to \in {"write", "release"} => pc[r] \in {"write", "release"},
               to \in Closed => pc[r] \in Closed \/ ip[r] = None
        PROVE  RulesInOrder(r)'
    <2>1. pc'[r] = to
      BY <1>1 DEF Known, RInv, Typed, Goto
    <2>2. \A rule \in dnat' : rule[1] = ip'[r]
      BY <1>1 DEF Known, SInv, RulesInOrder
    <2>3. pc'[r] \in {"write", "release"} \/ Authorised(r)' =>
              RulesOf(ip[r], Ports, Chains)' \subseteq dnat'
      BY <1>1, <2>1 DEF Known, SInv, RulesInOrder, RulesOf, Chains
    <2>4. faults' = 0 /\ pc'[r] \in Closed => dnat' = {}
      BY <1>0, <1>1, <1>a, <2>1 DEF Known, SInv, RulesInOrder
    <2> QED
      BY <2>2, <2>3, <2>4 DEF RulesInOrder
  <1>2. CASE \/ CheckAbsent(r) \/ MakeUpper(r) \/ MakeMountpoint(r) \/ MountOverlay(r)
             \/ MountVolumes(r) \/ MakeCgroup(r) \/ SetLimits(r) \/ Clone(r) \/ ApplyCgroup(r)
    <2>1. UNCHANGED <<dnat, ip>> /\ (Authorised(r)' => Authorised(r))
      BY <1>2 DEF CheckAbsent, MakeUpper, MakeMountpoint, MountOverlay, MountVolumes,
         MakeCgroup, SetLimits, Clone, ApplyCgroup, host, local, Authorised, Known, RInv, Typed
    <2> QED
      BY <1>1, <1>2, <2>1 DEF Known, RInv, SInv, CheckAbsent, MakeUpper,
         MakeMountpoint, MountOverlay, MountVolumes, MakeCgroup, SetLimits, Clone, ApplyCgroup,
         At, Goto, Closed, Cut, Swept
  <1>3. CASE \/ AllocIp(r) \/ LookupPid(r) \/ NameVeth(r) \/ AddVeth(r) \/ SetAlias(r)
             \/ BackoutVeth(r) \/ Backout(r)
    <2>1. UNCHANGED <<dnat, ip>> /\ (Authorised(r)' => Authorised(r))
      BY <1>3 DEF AllocIp, LookupPid, NameVeth, AddVeth, SetAlias, BackoutVeth, Backout,
         host, local, Authorised, Known, RInv, Typed
    <2> QED
      BY <1>1, <1>3, <2>1 DEF Known, RInv, SInv, AllocIp, LookupPid, NameVeth,
         AddVeth, SetAlias, BackoutVeth, Backout, At, Goto, Closed, Cut, Swept
  <1>4. CASE \/ WriteInfo(r) \/ ReleaseBroken(r) \/ Wait(r) \/ UpdateStatus(r) \/ SetupError(r)
             \/ Crash(r)
    <2>1. UNCHANGED <<dnat, ip>> /\ (Authorised(r)' => Authorised(r))
      BY <1>4 DEF WriteInfo, ReleaseBroken, Wait, UpdateStatus, SetupError, Fail, Crash,
         host, local, Authorised, Known, RInv, Typed
    <2> QED
      BY <1>1, <1>4, <2>1 DEF Known, RInv, SInv, WriteInfo, ReleaseBroken, Wait,
         UpdateStatus, SetupError, Fail, Crash, At, Goto, Closed, Cut, Swept
  <1>5. CASE \/ KillChild(r) \/ Disconnect(r) \/ ReleaseIp(r) \/ UnmountVolumes(r)
             \/ UnmountRoot(r) \/ RemoveDir(r) \/ CleanCgroup(r) \/ RemoveInfo(r)
    <2>1. UNCHANGED <<dnat, ip>> /\ (Authorised(r)' => Authorised(r))
      BY <1>5 DEF KillChild, Disconnect, ReleaseIp, UnmountVolumes, UnmountRoot, RemoveDir,
         CleanCgroup, RemoveInfo, host, local, Authorised, Known, RInv, Typed
    <2> QED
      BY <1>1, <1>5, <2>1 DEF Known, RInv, SInv, KillChild, Disconnect, ReleaseIp,
         UnmountVolumes, UnmountRoot, RemoveDir, CleanCgroup, RemoveInfo, At, Goto, Closed, Cut,
         Swept
  <1>6. CASE Release(r)
    BY <1>1, <1>6 DEF Release, host, local, Closed, Cut, Swept
  <1>7. CASE Child(r) \/ ChildKilled(r) \/ NetnsGone(r) \/ UNCHANGED vars
    <2>1. UNCHANGED <<pc, pipe, ip, dnat, faults>>
      BY <1>7 DEF Child, ChildReady, ChildExec, ChildExit, ChildKilled, NetnsGone, vars, host,
         local
    <2> QED
      BY <2>1 DEF Known, SInv, RulesInOrder, RulesOf, Authorised
  <1>8. CASE Configure(r)
    <2>1. dnat = {} /\ dnat' = {}
      BY <1>a, <1>8 DEF Configure, At, host, Known, RInv, AddressesInOrder, Addressless,
         Connecting
    <2>2. ~Authorised(r)' /\ pc'[r] \in {"ports", "unveth"}
      BY <1>8 DEF Configure, At, Goto, Authorised, Known, RInv, Typed, SInv, AuthorisedLast
    <2> QED
      BY <2>1, <2>2 DEF RulesInOrder
  <1>9. CASE MapPorts(r)
    <2>1. ~Authorised(r)' /\ pc'[r] \in {"write", "kill"} /\ UNCHANGED ip
      BY <1>9 DEF MapPorts, At, Goto, local, Authorised, Known, RInv, Typed, SInv,
         AuthorisedLast
    <2>2. \A ports, chains : \A rule \in RulesOf(ip[r], ports, chains) : rule[1] = ip[r]
      BY DEF RulesOf
    <2>3. \A rule \in dnat' : rule[1] = ip'[r]
      BY <1>9, <2>1, <2>2 DEF MapPorts, Known, SInv, RulesInOrder
    <2>4. pc'[r] = "write" => RulesOf(ip[r], Ports, Chains)' \subseteq dnat'
      BY <1>9, <2>1 DEF MapPorts, At, Goto, RulesOf, Chains, Known, RInv, Typed
    <2> QED
      BY <2>1, <2>3, <2>4 DEF RulesInOrder, Closed, Cut, Swept
  <1>10. CASE UnmapPorts(r)
    <2>1. ~Authorised(r)' /\ pc'[r] = "disconnect" /\ UNCHANGED ip
      BY <1>10 DEF UnmapPorts, At, Goto, local, Authorised, Known, RInv, Typed, SInv,
         AuthorisedLast
    <2>2. PICK left \in SUBSET {rule \in dnat : rule[1] = ip[r]} :
              /\ dnat' = {rule \in dnat : rule[1] # ip[r]} \cup left
              /\ Faulty(IF left = {} THEN 0 ELSE 1)
      BY <1>10 DEF UnmapPorts
    <2>3. dnat' = left
      BY <2>2 DEF Known, SInv, RulesInOrder
    <2>4. faults' = 0 => left = {}
      BY <1>0, <2>2
    <2> QED
      BY <2>1, <2>2, <2>3, <2>4 DEF RulesInOrder
  <1> QED
    BY <1>2, <1>3, <1>4, <1>5, <1>6, <1>7, <1>8, <1>9, <1>10
       DEF Next, Run, Rollback

\* The metadata is there when the byte is written, and goes last.
LEMMA NextMetadata ==
    ASSUME NEW r \in Runners, Runners = {r}, Known(r), [Next]_vars
    PROVE  MetadataInOrder(r)'
  <1>0. (faults' = 0 => faults = 0) /\ (Faulty(1) => faults' # 0)
    BY FaultsStay, FaultShows DEF Known, HostTyped
  <1>1. ASSUME NEW to, Goto(r, to), UNCHANGED <<meta, ip>>,
               Authorised(r)' => Authorised(r) \/ pc[r] = "release",
               to # "release", faults' = 0 => to # "failed"
        PROVE  MetadataInOrder(r)'
    BY <1>0, <1>1 DEF Known, RInv, Typed, Goto, SInv, MetadataInOrder
  <1>2. CASE \/ CheckAbsent(r) \/ MakeUpper(r) \/ MakeMountpoint(r) \/ MountOverlay(r)
             \/ MountVolumes(r) \/ MakeCgroup(r) \/ SetLimits(r) \/ Clone(r) \/ ApplyCgroup(r)
    <2>1. UNCHANGED <<meta, ip>> /\ (Authorised(r)' => Authorised(r))
      BY <1>2 DEF CheckAbsent, MakeUpper, MakeMountpoint, MountOverlay, MountVolumes,
         MakeCgroup, SetLimits, Clone, ApplyCgroup, host, local, Authorised, Known, RInv, Typed
    <2> QED
      BY <1>1, <1>2, <2>1 DEF Known, RInv, SInv, CheckAbsent, MakeUpper,
         MakeMountpoint, MountOverlay, MountVolumes, MakeCgroup, SetLimits, Clone, ApplyCgroup,
         At, Goto
  <1>3. CASE \/ AllocIp(r) \/ LookupPid(r) \/ NameVeth(r) \/ AddVeth(r) \/ SetAlias(r)
             \/ BackoutVeth(r) \/ Backout(r)
    <2>1. UNCHANGED <<meta, ip>> /\ (Authorised(r)' => Authorised(r))
      BY <1>3 DEF AllocIp, LookupPid, NameVeth, AddVeth, SetAlias, BackoutVeth, Backout,
         host, local, Authorised, Known, RInv, Typed
    <2> QED
      BY <1>1, <1>3, <2>1 DEF Known, RInv, SInv, AllocIp, LookupPid, NameVeth,
         AddVeth, SetAlias, BackoutVeth, Backout, At, Goto
  <1>4. CASE MapPorts(r) \/ ReleaseBroken(r) \/ Wait(r) \/ SetupError(r) \/ Crash(r)
    <2>1. UNCHANGED <<meta, ip>> /\ (Authorised(r)' => Authorised(r))
      BY <1>4 DEF MapPorts, ReleaseBroken, Wait, SetupError, Fail, Crash, host, local,
         Authorised, Known, RInv, Typed
    <2> QED
      BY <1>1, <1>4, <2>1 DEF Known, RInv, SInv, MapPorts, ReleaseBroken, Wait,
         SetupError, Fail, Crash, At, Goto
  <1>5. CASE \/ KillChild(r) \/ UnmapPorts(r) \/ Disconnect(r) \/ ReleaseIp(r)
             \/ UnmountVolumes(r) \/ UnmountRoot(r) \/ RemoveDir(r)
    <2>1. UNCHANGED <<meta, ip>> /\ (Authorised(r)' => Authorised(r))
      BY <1>5 DEF KillChild, UnmapPorts, Disconnect, ReleaseIp, UnmountVolumes, UnmountRoot,
         RemoveDir, host, local, Authorised, Known, RInv, Typed
    <2> QED
      BY <1>1, <1>5, <2>1 DEF Known, RInv, SInv, KillChild, UnmapPorts, Disconnect,
         ReleaseIp, UnmountVolumes, UnmountRoot, RemoveDir, At, Goto
  <1>6. CASE Release(r)
    BY <1>1, <1>6 DEF Release, host, local
  <1>7. CASE Child(r) \/ ChildKilled(r) \/ NetnsGone(r) \/ UNCHANGED vars
    <2>1. UNCHANGED <<pc, pipe, ip, meta, faults>>
      BY <1>7 DEF Child, ChildReady, ChildExec, ChildExit, ChildKilled, NetnsGone, vars, host,
         local
    <2> QED
      BY <2>1 DEF Known, SInv, MetadataInOrder, Authorised
  <1>8. CASE Configure(r)
    <2>1. ~Authorised(r)' /\ pc'[r] \in {"ports", "unveth"}
      BY <1>8 DEF Configure, At, Goto, Authorised, Known, RInv, Typed, SInv, AuthorisedLast
    <2> QED
      BY <2>1 DEF MetadataInOrder
  <1>9. CASE WriteInfo(r)
    <2>1. pc'[r] = "release" /\ UNCHANGED ip /\ ip[r] \in Addresses
      BY <1>9 DEF WriteInfo, At, Goto, local, Known, RInv, Typed, Supplied
    <2>2. meta' \in [owner : Runners, ip : Addresses, status : {"RUNNING", "EXITED"}]
      BY <1>9, <2>1 DEF WriteInfo
    <2>3. meta' # None /\ meta'.owner = r /\ meta'.ip = ip[r]
      BY <1>9, <2>2, AbsenceAssumption DEF WriteInfo
    <2> QED
      BY <2>1, <2>3 DEF MetadataInOrder
  <1>10. CASE UpdateStatus(r)
    <2>1. pc'[r] = "exited" /\ UNCHANGED <<ip, pipe>>
      BY <1>10 DEF UpdateStatus, At, Goto, local, Known, RInv, Typed
    <2>2. ASSUME Authorised(r)' PROVE meta' # None /\ meta'.owner = r /\ meta'.ip = ip[r]
      <3>1. /\ meta # None /\ meta.owner = r /\ meta.ip = ip[r]
            /\ meta \in [owner : Runners, ip : Addresses, status : {"RUNNING", "EXITED"}]
        BY <2>1, <2>2 DEF Known, HostTyped, SInv, MetadataInOrder, Authorised
      <3>2. CASE meta' = [owner |-> meta.owner, ip |-> meta.ip, status |-> "EXITED"]
        <4>1. meta' \in [owner : Runners, ip : Addresses, status : {"RUNNING", "EXITED"}]
          BY <3>1, <3>2
        <4> QED
          BY <3>1, <3>2, <4>1, AbsenceAssumption
      <3> QED
        BY <1>10, <3>1, <3>2 DEF UpdateStatus
    <2> QED
      BY <2>1, <2>2 DEF MetadataInOrder
  <1>11. CASE CleanCgroup(r)
    <2>1. /\ UNCHANGED <<meta, ip>> /\ (Authorised(r)' => Authorised(r))
          /\ Goto(r, IF unclean[r] THEN "failed" ELSE "rmmeta")
      BY <1>11 DEF CleanCgroup, At, local, Authorised
    <2>2. faults' = 0 => ~unclean[r]
      BY <1>0 DEF Known, SInv, WorkspaceInOrder
    <2> QED
      BY <1>1, <2>1, <2>2
  <1>12. CASE RemoveInfo(r)
    <2>1. ~Authorised(r)' /\ pc'[r] = "failed"
      BY <1>12 DEF RemoveInfo, At, Goto, Authorised, Known, RInv, Typed, SInv, AuthorisedLast
    <2> QED
      BY <1>0, <1>12, <2>1 DEF RemoveInfo, Undo, MetadataInOrder
  <1> QED
    BY <1>2, <1>3, <1>4, <1>5, <1>6, <1>7, <1>8, <1>9, <1>10, <1>11, <1>12
       DEF Next, Run, Rollback

-----------------------------------------------------------------------------
\* The invariant holds before the run and is kept by every step.
LEMMA SingleInvariance ==
    ASSUME NEW r \in Runners, Runners = {r}
    PROVE  Spec => []Known(r)
  <1>1. Init => SInv(r)
    <2> SUFFICES ASSUME Init PROVE SInv(r)
      OBVIOUS
    <2> USE DEF Init, Authorised
    <2>1. WorkspaceInOrder(r)
      BY DEF WorkspaceInOrder, Mounted, Bare, Bound, Swept, Owning, Joined, Connecting
    <2>2. AuthorisedLast(r) /\ CgroupInOrder(r)
      BY DEF AuthorisedLast, CgroupInOrder
    <2>3. LeaseInOrder(r)
      BY DEF LeaseInOrder, Connected, Working
    <2>4. PairInOrder(r)
      BY DEF PairInOrder, Aliased, Connected, Condemned, Unpaired, Cut, Swept
    <2>5. RulesInOrder(r) /\ MetadataInOrder(r)
      BY DEF RulesInOrder, MetadataInOrder
    <2> QED
      BY <2>1, <2>2, <2>3, <2>4, <2>5 DEF SInv
  <1>2. Known(r) /\ [Next]_vars => SInv(r)'
    BY NextWorkspace, NextAuthorised, NextCgroup, NextLease, NextPair, NextRules, NextMetadata
       DEF SInv
  <1>3. TypeOK => HostTyped
    BY DEF TypeOK, HostTyped
  <1>4. Init => Supplied
    BY DEF Init, Supplied, Connecting
  <1>5. RInv /\ HostTyped /\ Supplied /\ [Next]_vars => Supplied'
    BY NextSupplied DEF RInv
  <1> QED
    BY <1>1, <1>2, <1>3, <1>4, <1>5, RunInvariance, RunTyped, PTL DEF Spec, Known

\* The only run of its name: the user's command starts only with everything
\* docker_run has to set up in place, and keeps it while it runs.
THEOREM StartComplete ==
    ASSUME NEW r \in Runners, Runners = {r}
    PROVE  Spec => []StartedComplete
  <1>1. Known(r) => StartedComplete
    <2> SUFFICES ASSUME Known(r), child[r] = "user"
                 PROVE  /\ pipe[r] = "token"
                        /\ cgroup = r /\ joined[r]
                        /\ dir /\ Top = Volumes /\ Len(layers) = 2
                        /\ veth = <<r, TRUE>>
                        /\ meta # None /\ meta.owner = r /\ meta.ip = ip[r]
                        /\ ip[r] \in used
                        /\ RulesOf(ip[r], Ports, Chains) \subseteq dnat
      BY DEF StartedComplete
    <2>1. pipe[r] = "token" /\ Alive(r) /\ created[r] /\ joined[r]
      BY DEF Known, RInv, ChildrenInOwnCgroup, Alive
    <2>2. cgroup = r
      BY <2>1 DEF Known, RInv, CreatedIsOwned
    <2>3. layers = <<{}, Volumes>>
      BY <2>1 DEF Known, SInv, WorkspaceInOrder, Authorised
    <2>4. Top = Volumes /\ Len(layers) = 2 /\ Mounted
      BY <2>3, MountedShape
    <2>5. dir
      BY <2>4 DEF Known, SInv, WorkspaceInOrder
    <2>6. veth = <<r, TRUE>> /\ ip[r] \in used
      BY <2>1 DEF Known, SInv, PairInOrder, LeaseInOrder, Authorised
    <2>7. /\ meta # None /\ meta.owner = r /\ meta.ip = ip[r]
          /\ RulesOf(ip[r], Ports, Chains) \subseteq dnat
      BY <2>1 DEF Known, SInv, MetadataInOrder, RulesInOrder, Authorised
    <2> QED
      BY <2>1, <2>2, <2>4, <2>5, <2>6, <2>7
  <1> QED
    BY <1>1, SingleInvariance, PTL

\* The only run of its name: when docker_run has returned -1 and no undoing
\* call failed, nothing of the run is left on the host.
THEOREM FullRollback ==
    ASSUME NEW r \in Runners, Runners = {r}
    PROVE  Spec => []RollbackComplete
  <1>1. Known(r) => RollbackComplete
    <2> SUFFICES ASSUME Known(r), pc[r] = "failed", faults = 0 PROVE Pristine
      BY DEF RollbackComplete
    <2>1. ~dir /\ ~Mounted
      BY DEF Known, SInv, WorkspaceInOrder, Swept, Mounted
    <2>2. cgroup = None /\ meta = None
      BY DEF Known, SInv, CgroupInOrder, MetadataInOrder
    <2>3. used = {}
      BY DEF Known, SInv, LeaseInOrder, Working, Released
    <2>4. veth = None /\ dnat = {}
      BY DEF Known, SInv, PairInOrder, RulesInOrder, Unpaired, Closed, Cut, Swept
    <2> QED
      BY <2>1, <2>2, <2>3, <2>4 DEF Pristine
  <1> QED
    BY <1>1, SingleInvariance, PTL

\* The only run of its name: its clean-up never deletes through a mount,
\* however many unmounts fail.
THEOREM NoHarm ==
    ASSUME NEW r \in Runners, Runners = {r}
    PROVE  Spec => []NoRemovalUnderMount
  <1>1. Known(r) => NoRemovalUnderMount
    BY DEF Known, SInv, WorkspaceInOrder, NoRemovalUnderMount
  <1> QED
    BY <1>1, SingleInvariance, PTL

\* The only run of its name: what is still mounted when docker_run has returned
\* -1 is what it could not unmount, and the directory is still there.
THEOREM AccountableMounts ==
    ASSUME NEW r \in Runners, Runners = {r}
    PROVE  Spec => []MountsAreAccountable
  <1>1. Known(r) => MountsAreAccountable
    BY DEF Known, HostTyped, SInv, WorkspaceInOrder, MountsAreAccountable, Swept, Mounted
  <1> QED
    BY <1>1, SingleInvariance, PTL

=============================================================================
