------------------------- MODULE ContainerRunProofs -------------------------
(***************************************************************************)
(* What holds of docker_run for any number of runs of one name at the same *)
(* time, any number of volumes, ports and addresses and any number of      *)
(* failing clean-up calls: a running command is confined to the cgroup its *)
(* own run made, only that run removes the cgroup, and no two runs work    *)
(* with one address.                                                       *)
(***************************************************************************)
EXTENDS ContainerRun, FiniteSetTheorems, SequenceTheorems, TLAPS

\* The part of TypeOK the argument needs.
Typed ==
    /\ pc \in [Runners -> Places]
    /\ cgroup \in Runners \cup {None}
    /\ joined \in [Runners -> BOOLEAN]
    /\ created \in [Runners -> BOOLEAN]
    /\ child \in [Runners -> {"none", "init", "blocked", "user", "dead", "reaped"}]
    /\ pipe \in [Runners -> {"none", "open", "token", "closed"}]
    /\ pending \in [Runners -> Addresses \cup {None}]
    /\ ip \in [Runners -> Addresses \cup {None}]

\* Places of docker_run: inside connect_container, with the child (if it lives)
\* in the cgroup, with the cgroup made by this run, before the clone, after the
\* kill, and before ip_addr is set.
Connecting == {"lookup", "name", "veth", "alias", "configure", "unveth", "backout"}
Joined == {"alloc", "ports", "write", "release"} \cup Connecting
Owning == {"limits", "clone", "apply"} \cup Joined
Unstarted == {"start", "image", "mountpoint", "overlay", "volumes", "cgroup",
              "limits", "clone", "refused"}
Reaped == {"unmap", "disconnect", "unlease", "unbind", "unmount", "rmdir", "rmcgroup",
           "rmmeta", "failed"}
Addressless == {"apply", "alloc"} \cup Connecting \cup Unstarted
Holding == {"killed"} \cup Connecting

\* state.cgroup.created means that the cgroup there is, is this run's.
CreatedIsOwned == \A r \in Runners : created[r] => cgroup = r

\* While docker_run may still start its child, or has started it, it owns the
\* cgroup; until it clones there is no child; after the kill there is none.
StagesInOrder ==
    \A r \in Runners :
        /\ pc[r] \in Owning => created[r]
        /\ pc[r] \in Unstarted => child[r] = "none" /\ pipe[r] = "none"
        /\ pc[r] \in Reaped => ~Alive(r)

\* A child that lives is the child of the cgroup's owner, and is inside it from
\* cgroup_apply on; it runs the user's command only after the byte.
ChildrenInOwnCgroup ==
    \A r \in Runners :
        /\ Alive(r) => created[r]
        /\ Alive(r) /\ (pc[r] \in Joined \/ pipe[r] = "token") => joined[r]
        /\ child[r] = "user" => pipe[r] = "token"

\* ip_addr is set only by connect_container, and str_ip lives only inside it.
AddressesInOrder ==
    \A r \in Runners :
        /\ pc[r] \in Addressless => ip[r] = None
        /\ pc[r] \notin Holding => pending[r] = None

RInv ==
    /\ Typed /\ CreatedIsOwned /\ StagesInOrder /\ ChildrenInOwnCgroup
    /\ AddressesInOrder /\ AddressesHeld

\* Before any run the invariant holds.
LEMMA InitRInv == Init => RInv
  BY NoneAssumption DEF Init, RInv, Typed, CreatedIsOwned, StagesInOrder, ChildrenInOwnCgroup,
     AddressesInOrder, AddressesHeld, Working, Alive, Places, Setup, CleanUp, Ends, Owning,
     Joined, Connecting, Unstarted, Reaped, Addressless, Holding, Released

\* What the invariant is about, besides pc.
key == <<cgroup, joined, created, child, pipe, used, pending, ip>>

\* Going from one place to the other loses none of what the invariant says.
Onward(from, to) ==
    /\ to \in Places
    /\ to \in Owning => from \in Owning
    /\ to \in Unstarted => from \in Unstarted
    /\ to \in Reaped => from \in Reaped
    /\ to \in Joined => from \in Joined
    /\ to \in Addressless => from \in Addressless
    /\ from \in Holding => to \in Holding
    /\ from \in Released => to \in Released

\* A step that only goes onward keeps the invariant.
LEMMA MoveRInv ==
    ASSUME RInv, NEW r \in Runners, NEW to, Onward(pc[r], to), Goto(r, to), UNCHANGED key
    PROVE  RInv'
  <1> USE DEF RInv, Typed, Onward, Goto, key
  <1>1. Typed'
    OBVIOUS
  <1>2. CreatedIsOwned'
    BY DEF CreatedIsOwned
  <1>3. StagesInOrder'
    BY DEF StagesInOrder, Alive
  <1>4. ChildrenInOwnCgroup'
    BY DEF ChildrenInOwnCgroup, Alive
  <1>5. AddressesInOrder'
    BY DEF AddressesInOrder
  <1>6. AddressesHeld'
    <2>1. \A s \in Runners : Working(s)' \subseteq Working(s)
      BY DEF Working
    <2> QED
      BY <2>1 DEF AddressesHeld
  <1> QED
    BY <1>1, <1>2, <1>3, <1>4, <1>5, <1>6

\* The steps that only go onward: the workspace, the interface, the port rules
\* and the metadata, both ways.
LEMMA OnwardRInv ==
    ASSUME RInv, NEW r \in Runners,
           \/ CheckAbsent(r) \/ MakeUpper(r) \/ MakeMountpoint(r) \/ MountOverlay(r)
           \/ MountVolumes(r) \/ LookupPid(r) \/ NameVeth(r) \/ AddVeth(r) \/ SetAlias(r)
           \/ BackoutVeth(r) \/ MapPorts(r) \/ WriteInfo(r) \/ UpdateStatus(r) \/ SetupError(r)
           \/ UnmapPorts(r) \/ Disconnect(r) \/ UnmountVolumes(r) \/ UnmountRoot(r)
           \/ RemoveDir(r) \/ RemoveInfo(r)
    PROVE  RInv'
  <1> USE DEF At, host, local, key
  <1>1. UNCHANGED key
    BY DEF CheckAbsent, MakeUpper, MakeMountpoint, MountOverlay, MountVolumes, LookupPid,
           NameVeth, AddVeth, SetAlias, BackoutVeth, MapPorts, WriteInfo, UpdateStatus, SetupError,
           Fail, UnmapPorts, Disconnect, UnmountVolumes, UnmountRoot, RemoveDir, RemoveInfo
  <1>2. \E to : Onward(pc[r], to) /\ Goto(r, to)
    <2> USE DEF Onward, Places, Setup, CleanUp, Ends, Owning, Joined, Connecting, Unstarted,
                Reaped, Addressless, Holding, Released
    <2>1. CASE \/ CheckAbsent(r) \/ MakeUpper(r) \/ MakeMountpoint(r) \/ MountOverlay(r)
               \/ MountVolumes(r)
      BY <2>1 DEF CheckAbsent, MakeUpper, MakeMountpoint, MountOverlay, MountVolumes
    <2>2. CASE LookupPid(r) \/ NameVeth(r) \/ AddVeth(r) \/ SetAlias(r) \/ BackoutVeth(r)
      BY <2>2 DEF LookupPid, NameVeth, AddVeth, SetAlias, BackoutVeth
    <2>3. CASE MapPorts(r) \/ WriteInfo(r) \/ UpdateStatus(r)
      BY <2>3 DEF MapPorts, WriteInfo, UpdateStatus
    <2>4. CASE SetupError(r)
      BY <2>4 DEF SetupError, Fail
    <2>5. CASE \/ UnmapPorts(r) \/ Disconnect(r) \/ UnmountVolumes(r) \/ UnmountRoot(r)
               \/ RemoveDir(r) \/ RemoveInfo(r)
      BY <2>5 DEF UnmapPorts, Disconnect, UnmountVolumes, UnmountRoot, RemoveDir, RemoveInfo
    <2> QED
      BY <2>1, <2>2, <2>3, <2>4, <2>5
  <1> QED
    BY <1>1, <1>2, MoveRInv

\* mkdir refuses an existing cgroup, so nobody else owns one when this run gets it.
LEMMA MakeCgroupRInv ==
    ASSUME RInv, NEW r \in Runners, MakeCgroup(r)
    PROVE  RInv'
  <1> USE NoneAssumption
      DEF RInv, Typed, At, Goto, host, local, Places, Setup, CleanUp, Ends, Owning,
              Joined, Connecting, Unstarted, Reaped, Addressless, Holding, Released,
              MakeCgroup
  <1>1. Typed'
    OBVIOUS
  <1>2. CreatedIsOwned'
    BY DEF CreatedIsOwned, StagesInOrder
  <1>3. StagesInOrder'
    BY DEF StagesInOrder, CreatedIsOwned, Alive
  <1>4. ChildrenInOwnCgroup'
    BY DEF ChildrenInOwnCgroup, CreatedIsOwned, StagesInOrder, Alive
  <1>5. AddressesInOrder'
    BY DEF AddressesInOrder
  <1>6. AddressesHeld'
    <2>1. \A s \in Runners : Working(s)' \subseteq Working(s)
      BY DEF AddressesInOrder, Working
    <2> QED
      BY <2>1 DEF AddressesHeld
  <1> QED
    BY <1>1, <1>2, <1>3, <1>4, <1>5, <1>6

\* The owner gives the cgroup up before it has a child.
LEMMA SetLimitsRInv ==
    ASSUME RInv, NEW r \in Runners, SetLimits(r)
    PROVE  RInv'
  <1> USE NoneAssumption
      DEF RInv, Typed, At, Goto, host, local, Places, Setup, CleanUp, Ends, Owning,
              Joined, Connecting, Unstarted, Reaped, Addressless, Holding, Released,
              SetLimits, Faulty
  <1>1. Typed'
    OBVIOUS
  <1>2. CreatedIsOwned'
    BY DEF CreatedIsOwned, StagesInOrder
  <1>3. StagesInOrder'
    BY DEF StagesInOrder, CreatedIsOwned, Alive
  <1>4. ChildrenInOwnCgroup'
    BY DEF ChildrenInOwnCgroup, CreatedIsOwned, StagesInOrder, Alive
  <1>5. AddressesInOrder'
    BY DEF AddressesInOrder
  <1>6. AddressesHeld'
    <2>1. \A s \in Runners : Working(s)' \subseteq Working(s)
      BY DEF AddressesInOrder, Working
    <2> QED
      BY <2>1 DEF AddressesHeld
  <1> QED
    BY <1>1, <1>2, <1>3, <1>4, <1>5, <1>6

\* cgroup_cleanup comes after the kill, so the owner has no living child.
LEMMA CleanCgroupRInv ==
    ASSUME RInv, NEW r \in Runners, CleanCgroup(r)
    PROVE  RInv'
  <1> USE NoneAssumption
      DEF RInv, Typed, At, Goto, host, local, Places, Setup, CleanUp, Ends, Owning,
              Joined, Connecting, Unstarted, Reaped, Addressless, Holding, Released,
              CleanCgroup, Faulty, Members, Alive
  <1>1. Typed'
    OBVIOUS
  <1>2. CreatedIsOwned'
    BY DEF CreatedIsOwned, StagesInOrder
  <1>3. StagesInOrder'
    BY DEF StagesInOrder, CreatedIsOwned, Alive
  <1>4. ChildrenInOwnCgroup'
    BY DEF ChildrenInOwnCgroup, CreatedIsOwned, StagesInOrder, Alive
  <1>5. AddressesInOrder'
    BY DEF AddressesInOrder
  <1>6. AddressesHeld'
    <2>1. \A s \in Runners : Working(s)' \subseteq Working(s)
      BY DEF AddressesInOrder, Working
    <2> QED
      BY <2>1 DEF AddressesHeld
  <1> QED
    BY <1>1, <1>2, <1>3, <1>4, <1>5, <1>6

\* The child of a run that owns the cgroup, not yet inside it.
LEMMA CloneRInv ==
    ASSUME RInv, NEW r \in Runners, Clone(r)
    PROVE  RInv'
  <1> USE NoneAssumption
      DEF RInv, Typed, At, Goto, host, local, Places, Setup, CleanUp, Ends, Owning,
              Joined, Connecting, Unstarted, Reaped, Addressless, Holding, Released,
              Clone
  <1>1. Typed'
    OBVIOUS
  <1>2. CreatedIsOwned'
    BY DEF CreatedIsOwned, StagesInOrder
  <1>3. StagesInOrder'
    BY DEF StagesInOrder, CreatedIsOwned, Alive
  <1>4. ChildrenInOwnCgroup'
    BY DEF ChildrenInOwnCgroup, CreatedIsOwned, StagesInOrder, Alive
  <1>5. AddressesInOrder'
    BY DEF AddressesInOrder
  <1>6. AddressesHeld'
    <2>1. \A s \in Runners : Working(s)' \subseteq Working(s)
      BY DEF AddressesInOrder, Working
    <2> QED
      BY <2>1 DEF AddressesHeld
  <1> QED
    BY <1>1, <1>2, <1>3, <1>4, <1>5, <1>6

\* From here on a living child is inside the cgroup.
LEMMA ApplyCgroupRInv ==
    ASSUME RInv, NEW r \in Runners, ApplyCgroup(r)
    PROVE  RInv'
  <1> USE NoneAssumption
      DEF RInv, Typed, At, Goto, host, local, Places, Setup, CleanUp, Ends, Owning,
              Joined, Connecting, Unstarted, Reaped, Addressless, Holding, Released,
              ApplyCgroup, Alive
  <1>1. Typed'
    OBVIOUS
  <1>2. CreatedIsOwned'
    BY DEF CreatedIsOwned, StagesInOrder
  <1>3. StagesInOrder'
    BY DEF StagesInOrder, CreatedIsOwned, Alive
  <1>4. ChildrenInOwnCgroup'
    BY DEF ChildrenInOwnCgroup, CreatedIsOwned, StagesInOrder, Alive
  <1>5. AddressesInOrder'
    BY DEF AddressesInOrder
  <1>6. AddressesHeld'
    <2>1. \A s \in Runners : Working(s)' \subseteq Working(s)
      BY DEF AddressesInOrder, Working
    <2> QED
      BY <2>1 DEF AddressesHeld
  <1> QED
    BY <1>1, <1>2, <1>3, <1>4, <1>5, <1>6

\* The address was free: nobody works with it.
LEMMA AllocIpRInv ==
    ASSUME RInv, NEW r \in Runners, AllocIp(r)
    PROVE  RInv'
  <1> USE NoneAssumption
      DEF RInv, Typed, At, Goto, host, local, Places, Setup, CleanUp, Ends, Owning,
              Joined, Connecting, Unstarted, Reaped, Addressless, Holding, Released,
              AllocIp
  <1>1. Typed'
    OBVIOUS
  <1>2. CreatedIsOwned'
    BY DEF CreatedIsOwned, StagesInOrder
  <1>3. StagesInOrder'
    BY DEF StagesInOrder, CreatedIsOwned, Alive
  <1>4. ChildrenInOwnCgroup'
    BY DEF ChildrenInOwnCgroup, CreatedIsOwned, StagesInOrder, Alive
  <1>5. AddressesInOrder'
    BY DEF AddressesInOrder
  <1>6. AddressesHeld'
    <2>1. PICK a \in Addresses \ used : /\ used' = used \cup {a}
                                        /\ pending' = [pending EXCEPT ![r] = a]
      OBVIOUS
    <2>2. Working(r)' \subseteq {a}
      BY <2>1 DEF AddressesInOrder, Working
    <2>3. \A s \in Runners \ {r} : Working(s)' = Working(s)
      BY <2>1 DEF Working
    <2> QED
      BY <2>1, <2>2, <2>3 DEF AddressesHeld
  <1> QED
    BY <1>1, <1>2, <1>3, <1>4, <1>5, <1>6

\* The address passes from str_ip to ip_addr.
LEMMA ConfigureRInv ==
    ASSUME RInv, NEW r \in Runners, Configure(r)
    PROVE  RInv'
  <1> USE NoneAssumption
      DEF RInv, Typed, At, Goto, host, local, Places, Setup, CleanUp, Ends, Owning,
              Joined, Connecting, Unstarted, Reaped, Addressless, Holding, Released,
              Configure
  <1>1. Typed'
    OBVIOUS
  <1>2. CreatedIsOwned'
    BY DEF CreatedIsOwned, StagesInOrder
  <1>3. StagesInOrder'
    BY DEF StagesInOrder, CreatedIsOwned, Alive
  <1>4. ChildrenInOwnCgroup'
    BY DEF ChildrenInOwnCgroup, CreatedIsOwned, StagesInOrder, Alive
  <1>5. AddressesInOrder'
    BY DEF AddressesInOrder
  <1>6. AddressesHeld'
    <2>1. \A s \in Runners : Working(s)' \subseteq Working(s)
      BY DEF AddressesInOrder, Working
    <2> QED
      BY <2>1 DEF AddressesHeld
  <1> QED
    BY <1>1, <1>2, <1>3, <1>4, <1>5, <1>6

\* Only this run's own address is given back, and forgotten.
LEMMA BackoutRInv ==
    ASSUME RInv, NEW r \in Runners, Backout(r)
    PROVE  RInv'
  <1> USE NoneAssumption
      DEF RInv, Typed, At, Goto, host, local, Places, Setup, CleanUp, Ends, Owning,
              Joined, Connecting, Unstarted, Reaped, Addressless, Holding, Released,
              Backout, Undo, Faulty
  <1>1. Typed'
    OBVIOUS
  <1>2. CreatedIsOwned'
    BY DEF CreatedIsOwned, StagesInOrder
  <1>3. StagesInOrder'
    BY DEF StagesInOrder, CreatedIsOwned, Alive
  <1>4. ChildrenInOwnCgroup'
    BY DEF ChildrenInOwnCgroup, CreatedIsOwned, StagesInOrder, Alive
  <1>5. AddressesInOrder'
    BY DEF AddressesInOrder
  <1>6. AddressesHeld'
    <2>1. Working(r)' = {}
      BY DEF AddressesInOrder, Working
    <2>2. \A s \in Runners \ {r} : Working(s)' = Working(s)
      BY DEF Working
    <2>3. used \ (Working(r) \cup {None}) \subseteq used'
      BY DEF AddressesInOrder, Working
    <2>4. \A s \in Runners : None \notin Working(s)
      BY DEF Working
    <2> QED
      BY <2>1, <2>2, <2>3, <2>4 DEF AddressesHeld
  <1> QED
    BY <1>1, <1>2, <1>3, <1>4, <1>5, <1>6

\* Only this run's own address is given back.
LEMMA ReleaseIpRInv ==
    ASSUME RInv, NEW r \in Runners, ReleaseIp(r)
    PROVE  RInv'
  <1> USE NoneAssumption
      DEF RInv, Typed, At, Goto, host, local, Places, Setup, CleanUp, Ends, Owning,
              Joined, Connecting, Unstarted, Reaped, Addressless, Holding, Released,
              ReleaseIp, Undo, Faulty
  <1>1. Typed'
    OBVIOUS
  <1>2. CreatedIsOwned'
    BY DEF CreatedIsOwned, StagesInOrder
  <1>3. StagesInOrder'
    BY DEF StagesInOrder, CreatedIsOwned, Alive
  <1>4. ChildrenInOwnCgroup'
    BY DEF ChildrenInOwnCgroup, CreatedIsOwned, StagesInOrder, Alive
  <1>5. AddressesInOrder'
    BY DEF AddressesInOrder
  <1>6. AddressesHeld'
    <2>1. Working(r)' = {}
      BY DEF AddressesInOrder, Working
    <2>2. \A s \in Runners \ {r} : Working(s)' = Working(s)
      BY DEF Working
    <2>3. used \ (Working(r) \cup {None}) \subseteq used'
      BY DEF AddressesInOrder, Working
    <2>4. \A s \in Runners : None \notin Working(s)
      BY DEF Working
    <2> QED
      BY <2>1, <2>2, <2>3, <2>4 DEF AddressesHeld
  <1> QED
    BY <1>1, <1>2, <1>3, <1>4, <1>5, <1>6

\* The byte is written for a child inside the cgroup.
LEMMA ReleaseRInv ==
    ASSUME RInv, NEW r \in Runners, Release(r)
    PROVE  RInv'
  <1> USE NoneAssumption
      DEF RInv, Typed, At, Goto, host, local, Places, Setup, CleanUp, Ends, Owning,
              Joined, Connecting, Unstarted, Reaped, Addressless, Holding, Released,
              Release, Alive
  <1>1. Typed'
    OBVIOUS
  <1>2. CreatedIsOwned'
    BY DEF CreatedIsOwned, StagesInOrder
  <1>3. StagesInOrder'
    BY DEF StagesInOrder, CreatedIsOwned, Alive
  <1>4. ChildrenInOwnCgroup'
    BY DEF ChildrenInOwnCgroup, CreatedIsOwned, StagesInOrder, Alive
  <1>5. AddressesInOrder'
    BY DEF AddressesInOrder
  <1>6. AddressesHeld'
    <2>1. \A s \in Runners : Working(s)' \subseteq Working(s)
      BY DEF AddressesInOrder, Working
    <2> QED
      BY <2>1 DEF AddressesHeld
  <1> QED
    BY <1>1, <1>2, <1>3, <1>4, <1>5, <1>6

\* Without a living child nothing depends on the pipe.
LEMMA ReleaseBrokenRInv ==
    ASSUME RInv, NEW r \in Runners, ReleaseBroken(r)
    PROVE  RInv'
  <1> USE NoneAssumption
      DEF RInv, Typed, At, Goto, host, local, Places, Setup, CleanUp, Ends, Owning,
              Joined, Connecting, Unstarted, Reaped, Addressless, Holding, Released,
              ReleaseBroken, Alive
  <1>1. Typed'
    OBVIOUS
  <1>2. CreatedIsOwned'
    BY DEF CreatedIsOwned, StagesInOrder
  <1>3. StagesInOrder'
    BY DEF StagesInOrder, CreatedIsOwned, Alive
  <1>4. ChildrenInOwnCgroup'
    BY DEF ChildrenInOwnCgroup, CreatedIsOwned, StagesInOrder, Alive
  <1>5. AddressesInOrder'
    BY DEF AddressesInOrder
  <1>6. AddressesHeld'
    <2>1. \A s \in Runners : Working(s)' \subseteq Working(s)
      BY DEF AddressesInOrder, Working
    <2> QED
      BY <2>1 DEF AddressesHeld
  <1> QED
    BY <1>1, <1>2, <1>3, <1>4, <1>5, <1>6

\* A dead child is reaped.
LEMMA WaitRInv ==
    ASSUME RInv, NEW r \in Runners, Wait(r)
    PROVE  RInv'
  <1> USE NoneAssumption
      DEF RInv, Typed, At, Goto, host, local, Places, Setup, CleanUp, Ends, Owning,
              Joined, Connecting, Unstarted, Reaped, Addressless, Holding, Released,
              Wait
  <1>1. Typed'
    OBVIOUS
  <1>2. CreatedIsOwned'
    BY DEF CreatedIsOwned, StagesInOrder
  <1>3. StagesInOrder'
    BY DEF StagesInOrder, CreatedIsOwned, Alive
  <1>4. ChildrenInOwnCgroup'
    BY DEF ChildrenInOwnCgroup, CreatedIsOwned, StagesInOrder, Alive
  <1>5. AddressesInOrder'
    BY DEF AddressesInOrder
  <1>6. AddressesHeld'
    <2>1. \A s \in Runners : Working(s)' \subseteq Working(s)
      BY DEF AddressesInOrder, Working
    <2> QED
      BY <2>1 DEF AddressesHeld
  <1> QED
    BY <1>1, <1>2, <1>3, <1>4, <1>5, <1>6

\* The kill makes the later steps childless.
LEMMA KillChildRInv ==
    ASSUME RInv, NEW r \in Runners, KillChild(r)
    PROVE  RInv'
  <1> USE NoneAssumption
      DEF RInv, Typed, At, Goto, host, local, Places, Setup, CleanUp, Ends, Owning,
              Joined, Connecting, Unstarted, Reaped, Addressless, Holding, Released,
              KillChild
  <1>1. Typed'
    OBVIOUS
  <1>2. CreatedIsOwned'
    BY DEF CreatedIsOwned, StagesInOrder
  <1>3. StagesInOrder'
    BY DEF StagesInOrder, CreatedIsOwned, Alive
  <1>4. ChildrenInOwnCgroup'
    BY DEF ChildrenInOwnCgroup, CreatedIsOwned, StagesInOrder, Alive
  <1>5. AddressesInOrder'
    BY DEF AddressesInOrder
  <1>6. AddressesHeld'
    <2>1. \A s \in Runners : Working(s)' \subseteq Working(s)
      BY DEF AddressesInOrder, Working
    <2> QED
      BY <2>1 DEF AddressesHeld
  <1> QED
    BY <1>1, <1>2, <1>3, <1>4, <1>5, <1>6

\* The child starts the command only with the byte in the pipe.
LEMMA ChildRInv ==
    ASSUME RInv, NEW r \in Runners, Child(r) \/ ChildKilled(r)
    PROVE  RInv'
  <1> USE NoneAssumption
      DEF RInv, Typed, At, Goto, host, local, Places, Setup, CleanUp, Ends, Owning,
              Joined, Connecting, Unstarted, Reaped, Addressless, Holding, Released,
              Child, ChildReady, ChildExec, ChildExit, ChildKilled
  <1>1. Typed'
    OBVIOUS
  <1>2. CreatedIsOwned'
    BY DEF CreatedIsOwned, StagesInOrder
  <1>3. StagesInOrder'
    BY DEF StagesInOrder, CreatedIsOwned, Alive
  <1>4. ChildrenInOwnCgroup'
    BY DEF ChildrenInOwnCgroup, CreatedIsOwned, StagesInOrder, Alive
  <1>5. AddressesInOrder'
    BY DEF AddressesInOrder
  <1>6. AddressesHeld'
    <2>1. \A s \in Runners : Working(s)' \subseteq Working(s)
      BY DEF AddressesInOrder, Working
    <2> QED
      BY <2>1 DEF AddressesHeld
  <1> QED
    BY <1>1, <1>2, <1>3, <1>4, <1>5, <1>6

\* A dead runner's child, cgroup and addresses stay as they are.
LEMMA CrashRInv ==
    ASSUME RInv, NEW r \in Runners, Crash(r)
    PROVE  RInv'
  <1> USE NoneAssumption
      DEF RInv, Typed, At, Goto, host, local, Places, Setup, CleanUp, Ends, Owning,
              Joined, Connecting, Unstarted, Reaped, Addressless, Holding, Released,
              Crash
  <1>1. Typed'
    OBVIOUS
  <1>2. CreatedIsOwned'
    BY DEF CreatedIsOwned, StagesInOrder
  <1>3. StagesInOrder'
    BY DEF StagesInOrder, CreatedIsOwned, Alive
  <1>4. ChildrenInOwnCgroup'
    BY DEF ChildrenInOwnCgroup, CreatedIsOwned, StagesInOrder, Alive
  <1>5. AddressesInOrder'
    BY DEF AddressesInOrder
  <1>6. AddressesHeld'
    <2>1. \A s \in Runners : Working(s)' \subseteq Working(s)
      BY DEF AddressesInOrder, Working
    <2> QED
      BY <2>1 DEF AddressesHeld
  <1> QED
    BY <1>1, <1>2, <1>3, <1>4, <1>5, <1>6

\* The veth pair is no part of the invariant.
LEMMA NetnsGoneRInv ==
    ASSUME RInv, NEW r \in Runners, NetnsGone(r)
    PROVE  RInv'
  BY DEF NetnsGone, local, RInv, Typed, CreatedIsOwned, StagesInOrder, ChildrenInOwnCgroup,
         AddressesInOrder, AddressesHeld, Working, Alive

\* Every step keeps the invariant.
LEMMA NextRInv == RInv /\ [Next]_vars => RInv'
  <1> SUFFICES ASSUME RInv, [Next]_vars PROVE RInv'
    OBVIOUS
  <1>1. CASE UNCHANGED vars
    BY <1>1 DEF vars, host, local, RInv, Typed, CreatedIsOwned, StagesInOrder,
       ChildrenInOwnCgroup, AddressesInOrder, AddressesHeld, Working, Alive
  <1>2. CASE Next
    <2>1. PICK r \in Runners : Run(r) \/ Rollback(r) \/ Child(r) \/ ChildKilled(r)
                                   \/ NetnsGone(r) \/ Crash(r)
      BY <1>2 DEF Next
    <2>2. CASE Run(r)
      BY <2>2, OnwardRInv, MakeCgroupRInv, SetLimitsRInv, CloneRInv, ApplyCgroupRInv,
         AllocIpRInv, ConfigureRInv, BackoutRInv, ReleaseRInv, ReleaseBrokenRInv, WaitRInv
         DEF Run
    <2>3. CASE Rollback(r)
      BY <2>3, OnwardRInv, KillChildRInv, ReleaseIpRInv, CleanCgroupRInv DEF Rollback
    <2>4. CASE Child(r) \/ ChildKilled(r) \/ NetnsGone(r) \/ Crash(r)
      BY <2>4, ChildRInv, NetnsGoneRInv, CrashRInv
    <2> QED
      BY <2>1, <2>2, <2>3, <2>4
  <1> QED
    BY <1>1, <1>2

\* The inductive invariant holds in every reachable state.
THEOREM RunInvariance == Spec => []RInv
  BY InitRInv, NextRInv, PTL DEF Spec

\* A running command is authorised by the byte and confined to the cgroup its
\* own docker_run made, however many runs of the name there are, in whatever
\* order they fail, roll back or are killed.
THEOREM Confinement == Spec => []StartedConfined
  <1>1. RInv => StartedConfined
    BY DEF RInv, StartedConfined, ChildrenInOwnCgroup, CreatedIsOwned, Alive
  <1> QED
    BY <1>1, RunInvariance, PTL

\* The address a run works with is marked used and is nobody else's.
THEOREM AddressSafety == Spec => []AddressesHeld
  <1>1. RInv => AddressesHeld
    BY DEF RInv
  <1> QED
    BY <1>1, RunInvariance, PTL

\* Only the run that made the cgroup removes it, and only when no command is
\* running in it.
THEOREM Ownership == Spec => CgroupOwnership
  <1> DEFINE Owned == \A r \in Runners : (CleanCgroup(r) \/ SetLimits(r)) /\ cgroup # cgroup'
                         => cgroup = r /\ Members = {}
  <1>1. RInv /\ [Next]_vars => [Owned]_vars
    <2> SUFFICES ASSUME RInv, NEW r \in Runners, CleanCgroup(r) \/ SetLimits(r),
                        cgroup # cgroup'
                 PROVE  cgroup = r /\ Members = {}
      OBVIOUS
    <2>1. created[r]
      BY DEF CleanCgroup, SetLimits, At, host, RInv, StagesInOrder, Owning
    <2>2. cgroup = r
      BY <2>1 DEF RInv, CreatedIsOwned
    <2>3. ~Alive(r)
      BY DEF CleanCgroup, SetLimits, At, RInv, StagesInOrder, Unstarted, Reaped, Alive
    <2>4. \A s \in Runners : Alive(s) => s = r
      BY <2>2 DEF RInv, ChildrenInOwnCgroup, CreatedIsOwned
    <2> QED
      BY <2>2, <2>3, <2>4 DEF Members
  <1> QED
    BY <1>1, RunInvariance, PTL DEF Spec, CgroupOwnership

-----------------------------------------------------------------------------
\* Inside connect_container there is a str_ip, and after it an ip_addr.
Supplied ==
    \A r \in Runners :
        /\ pc[r] \in Connecting => pending[r] \in Addresses
        /\ pc[r] \in {"ports", "write"} => ip[r] \in Addresses

\* What TypeOK says besides Typed.
HostTyped ==
    /\ dir \in BOOLEAN /\ harmed \in BOOLEAN
    /\ layers \in Seq(SUBSET Volumes) /\ layers # <<>>
    /\ used \subseteq Addresses
    /\ veth \in (Runners \X BOOLEAN) \cup {None}
    /\ dnat \subseteq Addresses \X Ports \X Chains
    /\ meta \in [owner : Runners, ip : Addresses, status : {"RUNNING", "EXITED"}] \cup {None}
    /\ named \in [Runners -> BOOLEAN] /\ unclean \in [Runners -> BOOLEAN]
    /\ sigpipe \in [Runners -> {"default", "ignored"}]
    /\ faults \in 0 .. MaxFaults

\* A failing clean-up call stays within the bound.
LEMMA FaultyTyped ==
    ASSUME faults \in 0 .. MaxFaults, NEW n \in Nat, Faulty(n)
    PROVE  faults' \in 0 .. MaxFaults
  BY FaultsAssumption DEF Faulty

\* Sets of volumes and of ports have a size.
LEMMA Sizes ==
    /\ \A s \in SUBSET Volumes : Cardinality(s) \in Nat /\ (Cardinality(s) = 0 <=> s = {})
    /\ \A s \in SUBSET Ports : Cardinality(s) \in Nat
  BY ArgsAssumption, FS_Subset, FS_CardinalityType, FS_EmptySet

\* The topmost mount is there and can be written.
LEMMA TopTyped ==
    ASSUME layers \in Seq(SUBSET Volumes), layers # <<>>
    PROVE  /\ Top \in SUBSET Volumes /\ Len(layers) \in Nat \ {0}
           /\ \A s \in SUBSET Volumes :
                 WithTop(s) \in Seq(SUBSET Volumes) /\ WithTop(s) # <<>>
           /\ Len(layers) > 1 =>
                 /\ SubSeq(layers, 1, Len(layers) - 1) \in Seq(SUBSET Volumes)
                 /\ SubSeq(layers, 1, Len(layers) - 1) # <<>>
  <1>1. Len(layers) \in Nat \ {0}
    BY EmptySeq
  <1>2. Top \in SUBSET Volumes
    BY <1>1, ElementOfSeq DEF Top
  <1>3. ASSUME NEW s \in SUBSET Volumes
        PROVE  WithTop(s) \in Seq(SUBSET Volumes) /\ WithTop(s) # <<>>
    <2>1. WithTop(s) \in Seq(SUBSET Volumes) /\ Len(WithTop(s)) = Len(layers)
      BY <1>1, ExceptSeq DEF WithTop
    <2> QED
      BY <1>1, <2>1
  <1>4. ASSUME Len(layers) > 1
        PROVE  /\ SubSeq(layers, 1, Len(layers) - 1) \in Seq(SUBSET Volumes)
               /\ SubSeq(layers, 1, Len(layers) - 1) # <<>>
    <2>1. /\ SubSeq(layers, 1, Len(layers) - 1) \in Seq(SUBSET Volumes)
          /\ Len(SubSeq(layers, 1, Len(layers) - 1)) = Len(layers) - 1
      BY <1>1, <1>4, SubSeqProperties
    <2> QED
      BY <1>1, <1>4, <2>1
  <1> QED
    BY <1>1, <1>2, <1>3, <1>4

\* The workspace's steps.
LEMMA WorkspaceTyped ==
    ASSUME HostTyped, NEW r \in Runners,
           \/ MakeUpper(r) \/ MakeMountpoint(r) \/ MountOverlay(r) \/ MountVolumes(r)
           \/ UnmountVolumes(r) \/ UnmountRoot(r) \/ RemoveDir(r)
    PROVE  HostTyped'
  <1> USE DEF HostTyped, host, local
  <1>1. CASE MakeUpper(r) \/ MakeMountpoint(r)
    BY <1>1 DEF MakeUpper, MakeMountpoint
  <1>2. CASE MountOverlay(r)
    <2>1. Append(layers, {}) \in Seq(SUBSET Volumes) /\ Append(layers, {}) # <<>>
      OBVIOUS
    <2> QED
      BY <1>2, <2>1 DEF MountOverlay
  <1>3. CASE MountVolumes(r)
    <2>1. PICK s \in SUBSET Volumes : layers' = WithTop(Top \cup s)
      BY <1>3 DEF MountVolumes
    <2>2. layers' \in Seq(SUBSET Volumes) /\ layers' # <<>>
      BY <2>1, TopTyped
    <2>3. faults' \in 0 .. MaxFaults
      BY <1>3, Sizes, FaultyTyped DEF MountVolumes
    <2> QED
      BY <1>3, <2>2, <2>3 DEF MountVolumes
  <1>4. CASE UnmountVolumes(r)
    <2>1. PICK left \in SUBSET Top : /\ layers' = WithTop(left)
                                     /\ Faulty(Cardinality(left))
                                     /\ unclean' = [unclean EXCEPT ![r] = left # {}]
      BY <1>4 DEF UnmountVolumes
    <2>2. left \in SUBSET Volumes /\ layers' \in Seq(SUBSET Volumes) /\ layers' # <<>>
      BY <2>1, TopTyped
    <2>3. faults' \in 0 .. MaxFaults
      BY <2>1, <2>2, Sizes, FaultyTyped
    <2> QED
      BY <1>4, <2>1, <2>2, <2>3 DEF UnmountVolumes
  <1>5. CASE UnmountRoot(r)
    <2>1. layers' \in Seq(SUBSET Volumes) /\ layers' # <<>>
      BY <1>5, TopTyped DEF UnmountRoot
    <2>2. faults' \in 0 .. MaxFaults
      BY <1>5, FaultyTyped DEF UnmountRoot
    <2>3. unclean' \in [Runners -> BOOLEAN]
      BY <1>5 DEF UnmountRoot
    <2> QED
      BY <1>5, <2>1, <2>2, <2>3 DEF UnmountRoot
  <1>6. CASE RemoveDir(r)
    BY <1>6, FaultyTyped DEF RemoveDir, Undo
  <1> QED
    BY <1>1, <1>2, <1>3, <1>4, <1>5, <1>6

\* A pair is always some runner's.
LEMMA VethTyped ==
    ASSUME veth \in (Runners \X BOOLEAN) \cup {None}, NEW r \in Runners,
           AddVeth(r) \/ SetAlias(r) \/ BackoutVeth(r) \/ Disconnect(r)
    PROVE  veth' \in (Runners \X BOOLEAN) \cup {None}
  <1>1. veth' = veth \/ veth' = None \/ veth' = <<r, FALSE>> \/ veth' = <<r, TRUE>>
    BY DEF AddVeth, SetAlias, BackoutVeth, Disconnect, DeleteOwned, Undo
  <1>2. <<r, FALSE>> \in Runners \X BOOLEAN /\ <<r, TRUE>> \in Runners \X BOOLEAN
    OBVIOUS
  <1> QED
    BY <1>1, <1>2

\* The steps of the network endpoint and of the cgroup.
LEMMA EndpointTyped ==
    ASSUME HostTyped, Supplied, Typed, NEW r \in Runners,
           \/ AllocIp(r) \/ AddVeth(r) \/ SetAlias(r) \/ BackoutVeth(r) \/ Backout(r)
           \/ MapPorts(r) \/ UnmapPorts(r) \/ Disconnect(r) \/ ReleaseIp(r) \/ SetLimits(r)
           \/ CleanCgroup(r)
    PROVE  HostTyped'
  <1> USE DEF HostTyped, host, local
  <1>1. CASE AllocIp(r)
    BY <1>1 DEF AllocIp
  <1>2. CASE AddVeth(r)
    <2>1. veth' \in (Runners \X BOOLEAN) \cup {None}
      BY <1>2, VethTyped
    <2> QED
      BY <1>2, <2>1 DEF AddVeth
  <1>3. CASE SetAlias(r) \/ BackoutVeth(r) \/ Disconnect(r)
    <2>1. veth' \in (Runners \X BOOLEAN) \cup {None}
      BY <1>3, VethTyped
    <2>2. faults' \in 0 .. MaxFaults
      BY <1>3, FaultyTyped DEF SetAlias, BackoutVeth, Disconnect, DeleteOwned, Undo
    <2> QED
      BY <1>3, <2>1, <2>2 DEF SetAlias, BackoutVeth, Disconnect
  <1>4. CASE Backout(r) \/ ReleaseIp(r)
    BY <1>4, FaultyTyped DEF Backout, ReleaseIp, Undo
  <1>5. CASE MapPorts(r)
    <2>1. ip[r] \in Addresses
      BY <1>5 DEF MapPorts, At, Supplied
    <2>2. \A s \in SUBSET Ports, c \in SUBSET Chains :
              RulesOf(ip[r], s, c) \subseteq Addresses \X Ports \X Chains
      BY <2>1 DEF RulesOf
    <2>3. dnat' \subseteq Addresses \X Ports \X Chains
      BY <1>5, <2>2 DEF MapPorts, Chains
    <2>4. faults' \in 0 .. MaxFaults
      BY <1>5, Sizes, FaultyTyped DEF MapPorts
    <2> QED
      BY <1>5, <2>3, <2>4 DEF MapPorts
  <1>6. CASE UnmapPorts(r)
    BY <1>6, FaultyTyped DEF UnmapPorts
  <1>7. CASE SetLimits(r) \/ CleanCgroup(r)
    BY <1>7, FaultyTyped DEF SetLimits, CleanCgroup
  <1> QED
    BY <1>1, <1>2, <1>3, <1>4, <1>5, <1>6, <1>7

\* The steps of the metadata file.
LEMMA MetadataTyped ==
    ASSUME HostTyped, Supplied, NEW r \in Runners,
           WriteInfo(r) \/ UpdateStatus(r) \/ RemoveInfo(r)
    PROVE  HostTyped'
  <1> USE DEF HostTyped, host, local
  <1>1. CASE WriteInfo(r)
    BY <1>1 DEF WriteInfo, At, Supplied
  <1>2. CASE UpdateStatus(r)
    BY <1>2 DEF UpdateStatus
  <1>3. CASE RemoveInfo(r)
    BY <1>3, FaultyTyped DEF RemoveInfo, Undo
  <1> QED
    BY <1>1, <1>2, <1>3

\* Every step of docker_run keeps the types of the host.
LEMMA NextHostTyped ==
    ASSUME HostTyped, Supplied, Typed, [Next]_vars
    PROVE  HostTyped'
  <1>1. CASE UNCHANGED vars
    BY <1>1 DEF vars, host, local, HostTyped
  <1>2. ASSUME NEW r \in Runners,
               \/ CheckAbsent(r) \/ MakeCgroup(r) \/ Clone(r) \/ ApplyCgroup(r) \/ LookupPid(r)
               \/ NameVeth(r) \/ Configure(r) \/ Release(r) \/ ReleaseBroken(r) \/ Wait(r)
               \/ SetupError(r) \/ KillChild(r) \/ Child(r) \/ ChildKilled(r) \/ Crash(r)
        PROVE  HostTyped'
    BY <1>2 DEF CheckAbsent, MakeCgroup, Clone, ApplyCgroup, LookupPid, NameVeth, Configure,
       Release, ReleaseBroken, Wait, SetupError, Fail, KillChild, Child, ChildReady, ChildExec,
       ChildExit, ChildKilled, Crash, host, local, HostTyped
  <1>3. ASSUME NEW r \in Runners, NetnsGone(r) PROVE HostTyped'
    BY <1>3 DEF NetnsGone, local, HostTyped
  <1> QED
    BY <1>1, <1>2, <1>3, WorkspaceTyped, EndpointTyped, MetadataTyped DEF Next, Run, Rollback

\* An address is there where it is used.
LEMMA NextSupplied ==
    ASSUME Supplied, Typed, HostTyped, [Next]_vars
    PROVE  Supplied'
  <1>1. CASE UNCHANGED vars
    BY <1>1 DEF vars, local, Supplied
  <1>2. ASSUME NEW r \in Runners, NEW to, Goto(r, to), UNCHANGED <<pending, ip>>,
               to \in Connecting => pc[r] \in Connecting,
               to \in {"ports", "write"} => pc[r] \in {"ports", "write"}
        PROVE  Supplied'
    BY <1>2 DEF Supplied, Typed, Goto
  <1>3. ASSUME NEW r \in Runners, AllocIp(r) \/ Configure(r) \/ Backout(r) PROVE Supplied'
    BY <1>3 DEF AllocIp, Configure, Backout, At, Goto, Supplied, Typed, Connecting
  <1>4. ASSUME NEW r \in Runners, Child(r) \/ ChildKilled(r) \/ NetnsGone(r) PROVE Supplied'
    BY <1>4 DEF Child, ChildReady, ChildExec, ChildExit, ChildKilled, NetnsGone, local, Supplied
  <1>5. ASSUME NEW r \in Runners,
               \/ CheckAbsent(r) \/ MakeUpper(r) \/ MakeMountpoint(r) \/ MountOverlay(r)
               \/ MountVolumes(r) \/ MakeCgroup(r) \/ SetLimits(r) \/ Clone(r) \/ ApplyCgroup(r)
        PROVE  Supplied'
    BY <1>2, <1>5 DEF CheckAbsent, MakeUpper, MakeMountpoint, MountOverlay, MountVolumes,
       MakeCgroup, SetLimits, Clone, ApplyCgroup, At, local, Connecting
  <1>6. ASSUME NEW r \in Runners,
               \/ LookupPid(r) \/ NameVeth(r) \/ AddVeth(r) \/ SetAlias(r) \/ BackoutVeth(r)
               \/ MapPorts(r) \/ WriteInfo(r)
        PROVE  Supplied'
    BY <1>2, <1>6 DEF LookupPid, NameVeth, AddVeth, SetAlias, BackoutVeth, MapPorts, WriteInfo,
       At, local, Connecting
  <1>7. ASSUME NEW r \in Runners,
               \/ Release(r) \/ ReleaseBroken(r) \/ Wait(r) \/ UpdateStatus(r) \/ SetupError(r)
               \/ Crash(r)
        PROVE  Supplied'
    BY <1>2, <1>7 DEF Release, ReleaseBroken, Wait, UpdateStatus, SetupError, Fail, Crash,
       At, local, Connecting
  <1>8. ASSUME NEW r \in Runners,
               \/ KillChild(r) \/ UnmapPorts(r) \/ Disconnect(r) \/ ReleaseIp(r)
               \/ UnmountVolumes(r) \/ UnmountRoot(r) \/ RemoveDir(r) \/ CleanCgroup(r)
               \/ RemoveInfo(r)
        PROVE  Supplied'
    BY <1>2, <1>8 DEF KillChild, UnmapPorts, Disconnect, ReleaseIp, UnmountVolumes, UnmountRoot,
       RemoveDir, CleanCgroup, RemoveInfo, At, local, Connecting
  <1> QED
    BY <1>1, <1>3, <1>4, <1>5, <1>6, <1>7, <1>8 DEF Next, Run, Rollback

\* The variables keep their types, whatever fails and however many runs of the
\* name there are: there is an address wherever one is used, and the bare
\* mountpoint is never unmounted.
THEOREM RunTyped == Spec => []TypeOK
  <1>1. Init => HostTyped /\ Supplied
    <2>1. <<{}>> \in Seq(SUBSET Volumes) /\ <<{}>> # <<>>
      OBVIOUS
    <2> SUFFICES ASSUME Init PROVE HostTyped /\ Supplied
      OBVIOUS
    <2>2. dir \in BOOLEAN /\ harmed \in BOOLEAN
      BY DEF Init
    <2>3. /\ layers = <<{}>> /\ used = {} /\ veth = None /\ dnat = {} /\ meta = None
      BY DEF Init
    <2>4. faults \in 0 .. MaxFaults
      BY FaultsAssumption DEF Init
    <2>5. /\ named \in [Runners -> BOOLEAN] /\ unclean \in [Runners -> BOOLEAN]
          /\ sigpipe \in [Runners -> {"default", "ignored"}]
      BY DEF Init
    <2>6. Supplied
      BY DEF Init, Supplied, Connecting
    <2> QED
      BY <2>1, <2>2, <2>3, <2>4, <2>5, <2>6 DEF HostTyped
  <1>2. RInv /\ HostTyped /\ Supplied /\ [Next]_vars => (HostTyped /\ Supplied)'
    BY NextHostTyped, NextSupplied DEF RInv
  <1>3. RInv /\ HostTyped => TypeOK
    BY DEF RInv, Typed, HostTyped, TypeOK
  <1> QED
    BY <1>1, <1>2, <1>3, RunInvariance, PTL DEF Spec
=============================================================================
