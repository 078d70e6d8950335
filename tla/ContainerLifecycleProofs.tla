---------------------- MODULE ContainerLifecycleProofs ----------------------
(***************************************************************************)
(* What stop, rm, exec, the refreshes and foreground runs promise for any  *)
(* number of processes, names, addresses and runs of a name, with failing  *)
(* calls, crashes and reboots: the recorded status is sound, and the       *)
(* metadata outlives the resources, of every name but those that were run  *)
(* again while a command was past its last look at the container before.   *)
(***************************************************************************)
EXTENDS ContainerLifecycle, TLAPS

Alone(c) == c \notin overtaken

\* Places where the command uses the metadata it has read, or has written;
\* after the init process was seen to have ended; in the container's cgroup;
\* and after each clean-up call of rm.
WithInfo == {"fg", "refresh", "rewrite"} \cup Cleaning
Ending == {"reread", "rewrite"} \cup Cleaning
Joined == {"joined", "inside"}
Unmapped == {"unlink", "unlease", "rmdir", "rmcgroup", "rmmeta"}
Unlinked == {"unlease", "rmdir", "rmcgroup", "rmmeta"}
Unleased == {"rmdir", "rmcgroup", "rmmeta"}
Emptied == {"rmcgroup", "rmmeta"}

InfoInOrder ==
    \A p \in Procs :
        /\ pc[p] \in WithInfo => info[p] # None
        /\ mbad[p] => bad[p]

\* Metadata, and every copy of it in use, is of the last run.
Current ==
    \A c \in Names : Alone(c) =>
        /\ meta[c] # None => meta[c].start = starts[c]
        /\ \A p \in Procs : tgt[p] = c /\ pc[p] \in WithInfo => info[p].start = starts[c]

\* Whoever says or has seen that the container ended is right, in the metadata,
\* in a copy of it in use and at every place where the code relies on it.
EndedIsEnded ==
    \A c \in Names : Alone(c) =>
        /\ meta[c] # None /\ meta[c].status # "RUNNING" => init[c] # "running"
        /\ \A p \in Procs : tgt[p] = c =>
              /\ pc[p] \in WithInfo /\ info[p].status # "RUNNING" => init[c] # "running"
              /\ pc[p] \in Ending => init[c] # "running"

\* a is an address that c's rules, its metadata or a copy of it in use name.
Records(c, a) ==
    \/ <<a, c>> \in rules
    \/ meta[c] # None /\ meta[c].ip = a
    \/ \E p \in Procs : tgt[p] = c /\ pc[p] \in WithInfo /\ info[p].ip = a

OneAddress ==
    \A c \in Names : Alone(c) =>
        \A a, b \in Addresses : Records(c, a) /\ Records(c, b) => a = b

\* An rm without a failed call has removed what the calls so far are for.
Dismantled ==
    \A p \in Procs : Alone(tgt[p]) /\ ~bad[p] =>
        /\ pc[p] \in Unmapped => \A a \in Addresses : <<a, tgt[p]>> \notin rules
        /\ pc[p] \in Unlinked => net[tgt[p]] = None
        /\ pc[p] \in Emptied => work[tgt[p]] = "absent"
        /\ pc[p] = "rmmeta" => ~cg[tgt[p]]

\* A cgroup that has members exists.
MembersInCgroup ==
    /\ \A c \in Names : init[c] = "running" => cg[c]
    /\ \A p \in Procs : pc[p] \in Joined => cg[tgt[p]]

\* The first half of MetadataOutlivesResources.
Left(c) ==
    \/ work[c] # "absent" \/ cg[c] \/ net[c] # None
    \/ \E a \in Addresses : <<a, c>> \in rules

ResourcesKept == \A c \in Names : Alone(c) /\ Left(c) => meta[c] # None

\* The second half: a used address has a container that records it and that no
\* rm is about to forget after having released the address.
LeaseKept ==
    (\A c \in Names : Alone(c)) =>
        \A a \in used : \E c \in Names :
            /\ meta[c] # None /\ meta[c].ip = a
            /\ \A p \in Procs : tgt[p] = c /\ pc[p] \in Unleased => bad[p]

LInv ==
    /\ TypeOK /\ InfoInOrder /\ Current /\ EndedIsEnded /\ RunningIsWhole /\ OneAddress
    /\ Dismantled /\ MembersInCgroup /\ ResourcesKept /\ LeaseKept

\* Before any run the invariant holds.
LEMMA InitLInv == Init => LInv
  <1> SUFFICES ASSUME Init PROVE LInv
    OBVIOUS
  <1> USE DEF Init
  <1>1. TypeOK
    BY BoundsAssumption DEF TypeOK, Places
  <1>2. InfoInOrder /\ Current /\ EndedIsEnded /\ RunningIsWhole /\ MembersInCgroup
    BY DEF InfoInOrder, Current, EndedIsEnded, RunningIsWhole, MembersInCgroup, WithInfo, Ending,
           Joined, Cleaning
  <1>3. OneAddress /\ Dismantled /\ ResourcesKept /\ LeaseKept
    BY DEF OneAddress, Records, Dismantled, ResourcesKept, LeaseKept, Left, Unmapped, Unlinked,
           Emptied, WithInfo, Cleaning
  <1> QED
    BY <1>1, <1>2, <1>3 DEF LInv

-----------------------------------------------------------------------------
\* The part of LInv that a step of p on pc alone can disturb.
Onward(p, to) ==
    /\ to \in Places
    /\ to \in WithInfo => pc[p] \in WithInfo
    /\ to \in Ending /\ Alone(tgt[p]) => init[tgt[p]] # "running"
    /\ to \in Joined => cg[tgt[p]]
    /\ to \notin Unmapped

\* A step that only goes onward keeps the invariant.
LEMMA MoveLInv ==
    ASSUME LInv, NEW p \in Procs, NEW to, Onward(p, to), Goto(p, to),
           polls' \in [Procs -> 0 .. MaxPolls],
           UNCHANGED <<meta, host, cmd, tgt, info, bad, mbad, faults>>
    PROVE  LInv'
  <1> USE DEF Onward, Goto, host
  <1>1. TypeOK'
    BY DEF LInv, TypeOK
  <1>2. InfoInOrder' /\ Current' /\ RunningIsWhole' /\ MembersInCgroup'
    BY DEF LInv, TypeOK, InfoInOrder, Current, RunningIsWhole, Whole, MembersInCgroup, Alone
  <1>3. EndedIsEnded'
    BY DEF LInv, TypeOK, EndedIsEnded, Alone
  <1>4. OneAddress'
    <2>1. \A c \in Names, a \in Addresses : Records(c, a)' => Records(c, a)
      BY DEF LInv, TypeOK, Records
    <2> QED
      BY <2>1 DEF LInv, OneAddress, Alone
  <1>5. ResourcesKept'
    BY DEF LInv, ResourcesKept, Left, Alone
  <1>6. Dismantled'
    BY DEF LInv, TypeOK, Dismantled, Alone, Unmapped, Unlinked, Emptied
  <1>7. LeaseKept'
    BY DEF LInv, TypeOK, LeaseKept, Alone, Unmapped, Unleased
  <1> QED
    BY <1>1, <1>2, <1>3, <1>4, <1>5, <1>6, <1>7 DEF LInv

\* A command that ends, or is killed, forgets what it read; if it was a
\* foreground run, its child's zombie is reaped by another.
LEMMA LeaveLInv ==
    ASSUME LInv, NEW p \in Procs, Leave(p),
           UNCHANGED <<meta, starts, overtaken, cg, work, net, rules, used, faults>>,
           \/ UNCHANGED init
           \/ \E c \in Names : init[c] = "zombie" /\ init' = [init EXCEPT ![c] = "gone"]
    PROVE  LInv'
  <1> USE DEF Leave, Goto
  <1>1. /\ init' \in [Names -> {"none", "running", "zombie", "gone"}]
        /\ \A c \in Names : init'[c] = "running" <=> init[c] = "running"
    BY DEF LInv, TypeOK
  <1>2. TypeOK'
    BY <1>1, BoundsAssumption DEF LInv, TypeOK, Places
  <1>3. InfoInOrder' /\ Current' /\ MembersInCgroup'
    BY <1>1 DEF LInv, TypeOK, InfoInOrder, Current, MembersInCgroup, WithInfo, Joined, Cleaning,
                Alone
  <1>4. EndedIsEnded'
    BY <1>1 DEF LInv, TypeOK, EndedIsEnded, Alone, WithInfo, Ending, Cleaning
  <1>5. OneAddress'
    <2>1. \A c \in Names, a \in Addresses : Records(c, a)' => Records(c, a)
      BY DEF LInv, TypeOK, Records, WithInfo, Cleaning
    <2> QED
      BY <2>1 DEF LInv, OneAddress, Alone
  <1>6. ResourcesKept' /\ RunningIsWhole'
    BY <1>1 DEF LInv, ResourcesKept, Left, Alone, RunningIsWhole, Whole
  <1>7. Dismantled'
    BY DEF LInv, TypeOK, Dismantled, Alone, Unmapped, Unlinked, Emptied
  <1>8. LeaseKept'
    BY DEF LInv, TypeOK, LeaseKept, Alone, Unleased
  <1> QED
    BY <1>2, <1>3, <1>4, <1>5, <1>6, <1>7, <1>8 DEF LInv

\* read_container_info, for a command and for update_container_status.
LEMMA ReadLInv ==
    ASSUME LInv, NEW p \in Procs, ReadInfo(p) \/ UpdateRead(p)
    PROVE  LInv'
  <1>1. /\ meta[tgt[p]] # None
        /\ info' = [info EXCEPT ![p] = meta[tgt[p]]]
        /\ \/ pc[p] = "read" /\ pc' = [pc EXCEPT ![p] = "refresh"]
           \/ pc[p] = "reread" /\ pc' = [pc EXCEPT ![p] = "rewrite"]
        /\ UNCHANGED <<meta, host, cmd, tgt, polls, bad, mbad, faults>>
    BY DEF ReadInfo, UpdateRead, At, Goto
  <1> USE <1>1 DEF host
  <1>2. tgt[p] \in Names /\ meta[tgt[p]] \in Infos
    BY DEF LInv, TypeOK
  <1>3. TypeOK'
    BY <1>2 DEF LInv, TypeOK, Places
  <1>4. InfoInOrder' /\ Current' /\ MembersInCgroup'
    BY <1>2 DEF LInv, TypeOK, InfoInOrder, Current, MembersInCgroup, WithInfo, Joined, Cleaning,
                Alone
  <1>5. EndedIsEnded'
    BY <1>2 DEF LInv, TypeOK, EndedIsEnded, Alone, WithInfo, Ending, Cleaning
  <1>6. OneAddress'
    <2>1. \A c \in Names, a \in Addresses : Records(c, a)' => Records(c, a)
      BY DEF LInv, TypeOK, Records, WithInfo, Cleaning
    <2> QED
      BY <2>1 DEF LInv, OneAddress, Alone
  <1>7. ResourcesKept' /\ RunningIsWhole'
    BY DEF LInv, ResourcesKept, Left, Alone, RunningIsWhole, Whole
  <1>8. Dismantled'
    BY DEF LInv, TypeOK, Dismantled, Alone, Unmapped, Unlinked, Emptied
  <1>9. LeaseKept'
    BY DEF LInv, TypeOK, LeaseKept, Alone, Unleased
  <1> QED
    BY <1>3, <1>4, <1>5, <1>6, <1>7, <1>8, <1>9 DEF LInv

\* A new status for the same start and address is metadata again.
LEMMA WithStatusInfo ==
    ASSUME NEW i \in Infos, NEW s \in Statuses
    PROVE  /\ WithStatus(i, s) \in Infos /\ WithStatus(i, s) # None
           /\ WithStatus(i, s).status = s
           /\ WithStatus(i, s).start = i.start /\ WithStatus(i, s).ip = i.ip
  <1>1. /\ WithStatus(i, s) \in Infos /\ WithStatus(i, s).status = s
        /\ WithStatus(i, s).start = i.start /\ WithStatus(i, s).ip = i.ip
    BY DEF WithStatus, Infos
  <1> QED
    BY <1>1, NoneAssumption

\* write_container_info of a status other than RUNNING, by a command that then
\* ends or goes on to dismantle the container.
LEMMA WriteLInv ==
    ASSUME LInv, NEW p \in Procs, NEW s \in Statuses, s # "RUNNING",
           pc[p] \in {"refresh", "rewrite"},
           Alone(tgt[p]) => init[tgt[p]] # "running",
           meta' = [meta EXCEPT ![tgt[p]] = WithStatus(info[p], s)],
           \/ Leave(p)
           \/ /\ Goto(p, "unmount")
              /\ info' = [info EXCEPT ![p] = WithStatus(info[p], s)]
              /\ UNCHANGED <<cmd, tgt, polls, bad, mbad>>,
           UNCHANGED <<host, faults>>
    PROVE  LInv'
  <1> USE DEF host
  <1>1. info[p] \in Infos /\ tgt[p] \in Names
    BY DEF LInv, TypeOK, InfoInOrder, WithInfo
  <1> DEFINE i == WithStatus(info[p], s)
  <1>2. /\ i \in Infos /\ i # None /\ i.status # "RUNNING"
        /\ i.start = info[p].start /\ i.ip = info[p].ip
    BY <1>1, WithStatusInfo
  <1>3. /\ meta' \in [Names -> Infos \cup {None}]
        /\ meta'[tgt[p]] = i
        /\ \A c \in Names : c # tgt[p] => meta'[c] = meta[c]
    BY <1>1, <1>2 DEF LInv, TypeOK
  <1>4. /\ pc' \in [Procs -> Places] /\ info' \in [Procs -> Infos \cup {None}]
        /\ polls' \in [Procs -> 0 .. MaxPolls]
        /\ bad' \in [Procs -> BOOLEAN] /\ mbad' \in [Procs -> BOOLEAN]
        /\ cmd' \in [Procs -> {"none", "run", "refresh", "stop", "rm", "exec"}] /\ tgt' = tgt
        /\ \A q \in Procs : q # p => /\ pc'[q] = pc[q] /\ info'[q] = info[q]
                                     /\ bad'[q] = bad[q] /\ mbad'[q] = mbad[q]
        /\ \/ pc'[p] = "idle" /\ info'[p] = None /\ mbad'[p] = FALSE
           \/ pc'[p] = "unmount" /\ info'[p] = i /\ bad'[p] = bad[p] /\ mbad'[p] = mbad[p]
    <2> HIDE DEF i
    <2>1. CASE Leave(p)
      BY <2>1, BoundsAssumption DEF LInv, TypeOK, Leave, Goto, Places
    <2>2. CASE ~Leave(p)
      <3>1. /\ pc' = [pc EXCEPT ![p] = "unmount"] /\ info' = [info EXCEPT ![p] = i]
            /\ UNCHANGED <<cmd, tgt, polls, bad, mbad>>
        BY <2>2 DEF Goto, i
      <3> QED
        BY <1>2, <3>1 DEF LInv, TypeOK, Places, Cleaning
    <2> QED
      BY <2>1, <2>2
  <1> HIDE DEF i
  <1>5. TypeOK'
    BY <1>3, <1>4 DEF LInv, TypeOK
  <1>6. InfoInOrder' /\ MembersInCgroup'
    BY <1>2, <1>4 DEF LInv, TypeOK, InfoInOrder, MembersInCgroup, WithInfo, Joined, Cleaning
  <1>7. Current'
    <2>1. Alone(tgt[p]) => i.start = starts[tgt[p]]
      BY <1>1, <1>2 DEF LInv, Current, WithInfo
    <2> QED
      BY <1>2, <1>3, <1>4, <2>1 DEF LInv, TypeOK, Current, WithInfo, Cleaning, Alone
  <1>8. EndedIsEnded'
    BY <1>2, <1>3, <1>4 DEF LInv, TypeOK, EndedIsEnded, Alone, WithInfo, Ending, Cleaning
  <1>9. OneAddress'
    <2>1. \A c \in Names, a \in Addresses : Records(c, a)' => Records(c, a)
      BY <1>1, <1>2, <1>3, <1>4 DEF LInv, TypeOK, Records, WithInfo, Cleaning
    <2> QED
      BY <2>1 DEF LInv, OneAddress, Alone
  <1>10. ResourcesKept' /\ RunningIsWhole'
    BY <1>2, <1>3 DEF LInv, ResourcesKept, Left, Alone, RunningIsWhole, Whole
  <1>11. Dismantled'
    BY <1>4 DEF LInv, TypeOK, Dismantled, Alone, Unmapped, Unlinked, Emptied
  <1>12. LeaseKept'
    <2> SUFFICES ASSUME \A c \in Names : Alone(c), NEW a \in used
                 PROVE  \E c \in Names :
                           /\ meta'[c] # None /\ meta'[c].ip = a
                           /\ \A q \in Procs : tgt[q] = c /\ pc'[q] \in Unleased => bad'[q]
      BY <1>4 DEF LeaseKept, Alone
    <2>1. PICK c \in Names :
             /\ meta[c] # None /\ meta[c].ip = a
             /\ \A q \in Procs : tgt[q] = c /\ pc[q] \in Unleased => bad[q]
      BY DEF LInv, LeaseKept
    <2>2. c = tgt[p] => info[p].ip = a
      <3>1. a \in Addresses /\ info[p].ip \in Addresses
        BY <1>1 DEF LInv, TypeOK, Infos
      <3>2. c = tgt[p] => Records(c, a) /\ Records(c, info[p].ip)
        BY <1>1, <2>1 DEF Records, WithInfo
      <3> QED
        BY <3>1, <3>2 DEF LInv, OneAddress
    <2>3. meta'[c] # None /\ meta'[c].ip = a
      BY <1>2, <1>3, <2>1, <2>2
    <2> QED
      BY <1>4, <2>1, <2>3 DEF Unleased
  <1> QED
    BY <1>5, <1>6, <1>7, <1>8, <1>9, <1>10, <1>11, <1>12 DEF LInv

-----------------------------------------------------------------------------
\* Clean-up calls only take away.
Shrinks ==
    /\ rules' \subseteq rules /\ used' \subseteq used
    /\ net' \in [Names -> Addresses \cup {None}]
    /\ work' \in [Names -> {"absent", "mounted", "unmounted"}]
    /\ cg' \in [Names -> BOOLEAN]
    /\ \A c \in Names : /\ net'[c] = net[c] \/ net'[c] = None
                        /\ work[c] = "absent" => work'[c] = "absent"
                        /\ cg'[c] => cg[c]
                        /\ cg[c] => cg'[c] \/ Members(c) = {}

\* A clean-up call took away what it is for, unless it or one before it failed.
Cleans(p, to) ==
    /\ pc[p] \in Cleaning /\ to \in Cleaning
    /\ bad' \in [Procs -> BOOLEAN] /\ mbad' \in [Procs -> BOOLEAN]
    /\ \A q \in Procs : q # p => bad'[q] = bad[q] /\ mbad'[q] = mbad[q]
    /\ bad[p] \/ mbad'[p] => bad'[p]
    /\ \A c \in Names : c # tgt[p] => net'[c] = net[c] /\ work'[c] = work[c]
    /\ Alone(tgt[p]) /\ ~bad'[p] =>
          /\ to \in Unmapped => pc[p] \in Unmapped \/ \A a \in Addresses : <<a, tgt[p]>> \notin rules'
          /\ to \in Unlinked => pc[p] \in Unlinked \/ net'[tgt[p]] = None
          /\ to \in Unleased => pc[p] \in Unleased \/ info[p].ip \notin used'
          /\ to \in Emptied => pc[p] \in Emptied \/ work'[tgt[p]] = "absent"
          /\ to = "rmmeta" => ~cg'[tgt[p]]

\* A clean-up call of rm keeps the invariant.
LEMMA CleanLInv ==
    ASSUME LInv, NEW p \in Procs, NEW to, Goto(p, to), Shrinks, Cleans(p, to),
           faults' \in 0 .. MaxFaults,
           UNCHANGED <<meta, starts, overtaken, init, cmd, tgt, info, polls>>
    PROVE  LInv'
  <1> USE DEF Goto
  <1>1. TypeOK'
    BY DEF LInv, TypeOK, Shrinks, Cleans, Places
  <1>2. InfoInOrder' /\ Current'
    BY DEF LInv, TypeOK, InfoInOrder, Current, Cleans, WithInfo, Alone
  <1>3. MembersInCgroup'
    <2>1. \A c \in Names : cg[c] /\ Members(c) # {} => cg'[c]
      BY DEF Shrinks
    <2>2. \A q \in Procs : pc'[q] \in Joined => pc[q] \in Joined
      BY DEF LInv, TypeOK, Cleans, Cleaning, Joined
    <2>3. /\ \A c \in Names : init[c] = "running" => Members(c) # {}
          /\ \A q \in Procs : pc[q] \in Joined => Members(tgt[q]) # {} /\ tgt[q] \in Names
      BY DEF LInv, TypeOK, Members, Joined
    <2> QED
      BY <2>1, <2>2, <2>3 DEF LInv, MembersInCgroup
  <1>4. EndedIsEnded'
    BY DEF LInv, TypeOK, EndedIsEnded, Alone, Cleans, WithInfo, Ending
  <1>5. OneAddress'
    <2>1. \A c \in Names, a \in Addresses : Records(c, a)' => Records(c, a)
      BY DEF LInv, TypeOK, Records, Shrinks, Cleans, WithInfo
    <2> QED
      BY <2>1 DEF LInv, OneAddress, Alone
  <1>6. ResourcesKept' /\ RunningIsWhole'
    <2>1. ASSUME NEW c \in Names, Alone(c), init[c] = "running"
          PROVE  c # tgt[p]
      BY <2>1 DEF LInv, EndedIsEnded, Cleans, Ending
    <2>2. RunningIsWhole'
      BY <2>1 DEF LInv, RunningIsWhole, Whole, Cleans, Alone
    <2> QED
      BY <2>2 DEF LInv, TypeOK, ResourcesKept, Left, Alone, Shrinks
  <1>7. Dismantled'
    <2> SUFFICES ASSUME NEW q \in Procs, Alone(tgt[q]), ~bad'[q]
                 PROVE  /\ pc'[q] \in Unmapped => \A a \in Addresses : <<a, tgt[q]>> \notin rules'
                        /\ pc'[q] \in Unlinked => net'[tgt[q]] = None
                        /\ pc'[q] \in Emptied => work'[tgt[q]] = "absent"
                        /\ pc'[q] = "rmmeta" => ~cg'[tgt[q]]
      BY DEF Dismantled, Alone
    <2>0. tgt[q] \in Names
      BY DEF LInv, TypeOK
    <2>1. CASE q # p
      BY <2>0, <2>1 DEF LInv, TypeOK, Dismantled, Shrinks, Cleans
    <2>2. CASE q = p
      <3>1. pc'[p] = to /\ ~bad[p]
        BY <2>2 DEF LInv, TypeOK, Cleans
      <3> QED
        BY <2>0, <2>2, <3>1 DEF LInv, Dismantled, Shrinks, Cleans
    <2> QED
      BY <2>1, <2>2
  <1>8. LeaseKept'
    <2> SUFFICES ASSUME \A c \in Names : Alone(c), NEW a \in used'
                 PROVE  \E c \in Names :
                           /\ meta[c] # None /\ meta[c].ip = a
                           /\ \A q \in Procs : tgt[q] = c /\ pc'[q] \in Unleased => bad'[q]
      BY DEF LeaseKept, Alone
    <2>1. PICK c \in Names :
             /\ meta[c] # None /\ meta[c].ip = a
             /\ \A q \in Procs : tgt[q] = c /\ pc[q] \in Unleased => bad[q]
      BY DEF LInv, LeaseKept, Shrinks
    <2>2. ASSUME tgt[p] = c, to \in Unleased, ~bad'[p]
          PROVE  FALSE
      <3>1. pc[p] \notin Unleased /\ info[p].ip \notin used'
        BY <2>1, <2>2 DEF Cleans, LInv, TypeOK
      <3>2. info[p] \in Infos /\ a \in Addresses
        BY DEF LInv, TypeOK, InfoInOrder, Cleans, WithInfo, Shrinks
      <3>3. Records(c, a) /\ Records(c, info[p].ip)
        BY <2>1, <2>2, <3>2 DEF Records, Cleans, WithInfo
      <3> QED
        BY <3>1, <3>2, <3>3 DEF LInv, OneAddress, Infos
    <2> QED
      BY <2>1, <2>2 DEF LInv, TypeOK, Cleans
  <1> QED
    BY <1>1, <1>2, <1>3, <1>4, <1>5, <1>6, <1>7, <1>8 DEF LInv

\* unset_container_port_map removes the rules of the recorded address: all that
\* a container has.
LEMMA UnmapPortsLInv ==
    ASSUME LInv, NEW p \in Procs, UnmapPorts(p)
    PROVE  LInv'
  <1> USE BoundsAssumption DEF At, Goto, Spoil, Cleaning, Unmapped, Unlinked, Unleased, Emptied
  <1>1. Shrinks /\ faults' \in 0 .. MaxFaults
    BY DEF UnmapPorts, LInv, TypeOK, Shrinks
  <1>2. CASE pc'[p] = "rmdir"
    <2>1. pc[p] = "unmap" /\ Goto(p, "rmdir") /\ bad' = [bad EXCEPT ![p] = TRUE]
      BY <1>2 DEF UnmapPorts, LInv, TypeOK
    <2>2. Cleans(p, "rmdir")
      BY <2>1 DEF UnmapPorts, LInv, TypeOK, Cleans, InfoInOrder
    <2> QED
      BY <1>1, <2>1, <2>2, CleanLInv DEF UnmapPorts
  <1>3. CASE pc'[p] # "rmdir"
    <2>1. /\ pc[p] = "unmap" /\ Goto(p, "unlink") /\ UNCHANGED bad
          /\ rules' = {x \in rules : x[1] # info[p].ip}
      BY <1>3 DEF UnmapPorts, LInv, TypeOK
    <2>2. Alone(tgt[p]) => \A a \in Addresses : <<a, tgt[p]>> \notin rules'
      <3> SUFFICES ASSUME Alone(tgt[p]), NEW a \in Addresses, <<a, tgt[p]>> \in rules'
                   PROVE  FALSE
        OBVIOUS
      <3>1. <<a, tgt[p]>> \in rules /\ a # info[p].ip
        BY <2>1
      <3>2. info[p] \in Infos /\ tgt[p] \in Names
        BY <2>1 DEF LInv, TypeOK, InfoInOrder, WithInfo
      <3>3. Records(tgt[p], a) /\ Records(tgt[p], info[p].ip)
        BY <2>1, <3>1, <3>2 DEF Records, WithInfo
      <3> QED
        BY <3>1, <3>2, <3>3 DEF LInv, OneAddress, Infos
    <2>3. Cleans(p, "unlink")
      BY <2>1, <2>2 DEF UnmapPorts, LInv, TypeOK, Cleans, InfoInOrder
    <2> QED
      BY <1>1, <2>1, <2>3, CleanLInv DEF UnmapPorts
  <1> QED
    BY <1>2, <1>3

\* The other clean-up calls: umount, ip link del, release_used_ip, remove_dir
\* and rmdir of the cgroup.
LEMMA RemoveLInv ==
    ASSUME LInv, NEW p \in Procs,
           Unmount(p) \/ Disconnect(p) \/ ReleaseIp(p) \/ RemoveDir(p) \/ RemoveCgroup(p)
    PROVE  LInv'
  <1> USE BoundsAssumption DEF At, Goto, Spoil, Cleaning, Unmapped, Unlinked, Unleased, Emptied
  <1>1. CASE Unmount(p)
    <2>1. Shrinks /\ faults' \in 0 .. MaxFaults
      BY <1>1 DEF Unmount, LInv, TypeOK, Shrinks
    <2>2. Cleans(p, "unmap")
      BY <1>1 DEF Unmount, LInv, TypeOK, InfoInOrder, Cleans
    <2> QED
      BY <1>1, <2>1, <2>2, CleanLInv DEF Unmount
  <1>2. CASE Disconnect(p)
    <2>1. Shrinks /\ faults' \in 0 .. MaxFaults
      BY <1>2 DEF Disconnect, LInv, TypeOK, Shrinks
    <2>2. CASE At(p, "unlink", "unlease") /\ net' = [net EXCEPT ![tgt[p]] = None] /\ UNCHANGED bad
      <3>1. Cleans(p, "unlease")
        BY <1>2, <2>2 DEF Disconnect, LInv, TypeOK, InfoInOrder, Cleans
      <3> QED
        BY <1>2, <2>1, <2>2, <3>1, CleanLInv DEF Disconnect
    <2>3. CASE At(p, "unlink", "rmdir") /\ Spoil(p)
      <3>1. Cleans(p, "rmdir")
        BY <1>2, <2>3 DEF Disconnect, LInv, TypeOK, InfoInOrder, Cleans
      <3> QED
        BY <1>2, <2>1, <2>3, <3>1, CleanLInv DEF Disconnect
    <2> QED
      BY <1>2, <2>2, <2>3 DEF Disconnect
  <1>3. CASE ReleaseIp(p)
    <2>1. Shrinks /\ faults' \in 0 .. MaxFaults
      BY <1>3 DEF ReleaseIp, LInv, TypeOK, Shrinks
    <2>2. Cleans(p, "rmdir")
      <3>1. /\ pc[p] = "unlease" /\ UNCHANGED mbad /\ bad' \in [Procs -> BOOLEAN]
            /\ \A q \in Procs : q # p => bad'[q] = bad[q]
            /\ bad[p] => bad'[p]
            /\ bad'[p] \/ info[p].ip \notin used'
            /\ UNCHANGED <<net, work>>
        BY <1>3 DEF ReleaseIp, LInv, TypeOK
      <3> QED
        BY <3>1 DEF LInv, TypeOK, InfoInOrder, Cleans
    <2> QED
      BY <1>3, <2>1, <2>2, CleanLInv DEF ReleaseIp
  <1>4. CASE RemoveDir(p)
    <2>1. Shrinks /\ faults' \in 0 .. MaxFaults
      BY <1>4 DEF RemoveDir, LInv, TypeOK, Shrinks
    <2>2. Cleans(p, "rmcgroup")
      <3>1. /\ pc[p] = "rmdir" /\ UNCHANGED mbad /\ bad' \in [Procs -> BOOLEAN]
            /\ \A q \in Procs : q # p => bad'[q] = bad[q]
            /\ bad[p] => bad'[p]
            /\ bad'[p] \/ mbad[p] \/ work'[tgt[p]] = "absent"
            /\ UNCHANGED net /\ \A c \in Names : c # tgt[p] => work'[c] = work[c]
        BY <1>4 DEF RemoveDir, LInv, TypeOK
      <3> QED
        BY <3>1 DEF LInv, TypeOK, InfoInOrder, Cleans
    <2> QED
      BY <1>4, <2>1, <2>2, CleanLInv DEF RemoveDir
  <1>5. CASE RemoveCgroup(p)
    <2>1. Shrinks /\ faults' \in 0 .. MaxFaults
      <3>1. /\ UNCHANGED <<rules, used, net, work>> /\ faults' \in 0 .. MaxFaults
            /\ UNCHANGED cg \/ (cg' = [cg EXCEPT ![tgt[p]] = FALSE] /\ Members(tgt[p]) = {})
        BY <1>5 DEF RemoveCgroup, LInv, TypeOK
      <3>2. /\ cg' \in [Names -> BOOLEAN]
            /\ \A c \in Names : (cg'[c] => cg[c]) /\ (cg[c] => cg'[c] \/ Members(c) = {})
        BY <3>1 DEF LInv, TypeOK
      <3> QED
        BY <3>1, <3>2 DEF LInv, TypeOK, Shrinks
    <2>2. Cleans(p, "rmmeta")
      <3>1. /\ pc[p] = "rmcgroup" /\ UNCHANGED mbad /\ bad' \in [Procs -> BOOLEAN]
            /\ \A q \in Procs : q # p => bad'[q] = bad[q]
            /\ bad[p] => bad'[p]
            /\ bad'[p] \/ ~cg'[tgt[p]]
            /\ UNCHANGED <<net, work>>
        BY <1>5 DEF RemoveCgroup, LInv, TypeOK
      <3> QED
        BY <3>1 DEF LInv, TypeOK, InfoInOrder, Cleans
    <2> QED
      BY <1>5, <2>1, <2>2, CleanLInv DEF RemoveCgroup
  <1> QED
    BY <1>1, <1>2, <1>3, <1>4, <1>5

\* remove_status_info: nothing of a container is left when its
\* metadata is removed.
LEMMA RemoveInfoLInv ==
    ASSUME LInv, NEW p \in Procs, RemoveInfo(p)
    PROVE  LInv'
  <1>1. CASE bad[p]
    BY <1>1, LeaveLInv DEF RemoveInfo, host
  <1>2. CASE ~bad[p]
    <2>0. tgt[p] \in Names /\ meta \in [Names -> Infos \cup {None}]
      BY DEF LInv, TypeOK
    <2>1. /\ pc[p] = "rmmeta" /\ Leave(p) /\ UNCHANGED <<host, faults>>
          /\ meta' \in [Names -> Infos \cup {None}]
          /\ meta'[tgt[p]] = None
          /\ \A c \in Names : c # tgt[p] => meta'[c] = meta[c]
      BY <1>2, <2>0 DEF RemoveInfo
    <2> USE <2>0, <2>1 DEF Leave, Goto, host
    <2>2. TypeOK'
      BY BoundsAssumption DEF LInv, TypeOK, Places
    <2>3. InfoInOrder' /\ Current'
      BY DEF LInv, TypeOK, InfoInOrder, Current, WithInfo, Cleaning, Alone
    <2>4. MembersInCgroup'
      BY DEF LInv, TypeOK, MembersInCgroup, Joined
    <2>5. EndedIsEnded'
      BY DEF LInv, TypeOK, EndedIsEnded, Alone, WithInfo, Ending, Cleaning
    <2>6. OneAddress'
      <3>1. \A c \in Names, a \in Addresses : Records(c, a)' => Records(c, a)
        BY DEF LInv, TypeOK, Records, WithInfo, Cleaning
      <3> QED
        BY <3>1 DEF LInv, OneAddress, Alone
    <2>7. RunningIsWhole'
      BY DEF LInv, EndedIsEnded, Ending, Cleaning, RunningIsWhole, Whole, Alone
    <2>8. ResourcesKept'
      <3>1. Alone(tgt[p]) => ~Left(tgt[p])
        BY <1>2 DEF LInv, Dismantled, Left, Unmapped, Unlinked, Emptied
      <3>2. \A c \in Names : (Left(c)' <=> Left(c)) /\ (Alone(c)' <=> Alone(c))
        BY DEF Left, Alone
      <3> QED
        BY <3>1, <3>2 DEF LInv, ResourcesKept
    <2>9. Dismantled'
      BY DEF LInv, TypeOK, Dismantled, Alone, Unmapped, Unlinked, Emptied
    <2>10. LeaseKept'
      <3> SUFFICES ASSUME \A c \in Names : Alone(c), NEW a \in used
                   PROVE  \E c \in Names :
                             /\ meta'[c] # None /\ meta'[c].ip = a
                             /\ \A q \in Procs : tgt[q] = c /\ pc'[q] \in Unleased => bad'[q]
        BY DEF LeaseKept, Alone
      <3>1. PICK c \in Names :
               /\ meta[c] # None /\ meta[c].ip = a
               /\ \A q \in Procs : tgt[q] = c /\ pc[q] \in Unleased => bad[q]
        BY DEF LInv, LeaseKept
      <3>2. c # tgt[p]
        BY <1>2, <3>1 DEF Unleased
      <3> QED
        BY <3>1, <3>2 DEF LInv, TypeOK
    <2> QED
      BY <2>2, <2>3, <2>4, <2>5, <2>6, <2>7, <2>8, <2>9, <2>10 DEF LInv
  <1> QED
    BY <1>1, <1>2

-----------------------------------------------------------------------------
\* The init process ends, and a foreground run, if it waits for it, goes on.
LEMMA InitEndsLInv ==
    ASSUME LInv, NEW c \in Names, NEW s \in {"zombie", "gone"},
           init[c] \in {"running", "zombie"}, init' = [init EXCEPT ![c] = s],
           \/ UNCHANGED pc
           \/ \E p \in Procs : pc[p] = "fg" /\ tgt[p] = c /\ Goto(p, "reread"),
           UNCHANGED <<meta, starts, overtaken, cg, work, net, rules, used, frame, faults>>
    PROVE  LInv'
  <1> USE DEF frame, Goto
  <1>1. /\ init' \in [Names -> {"none", "running", "zombie", "gone"}]
        /\ init'[c] # "running"
        /\ \A d \in Names : init'[d] = "running" => init[d] = "running"
    BY DEF LInv, TypeOK
  <1>2. /\ pc' \in [Procs -> Places]
        /\ \A q \in Procs : pc'[q] = pc[q] \/ (pc[q] = "fg" /\ tgt[q] = c /\ pc'[q] = "reread")
    <2>1. CASE UNCHANGED pc
      BY <2>1 DEF LInv, TypeOK
    <2>2. CASE \E p \in Procs : pc[p] = "fg" /\ tgt[p] = c /\ Goto(p, "reread")
      <3>1. PICK p \in Procs : pc[p] = "fg" /\ tgt[p] = c /\ pc' = [pc EXCEPT ![p] = "reread"]
        BY <2>2
      <3> QED
        BY <3>1 DEF LInv, TypeOK, Places
    <2> QED
      BY <2>1, <2>2
  <1>3. TypeOK'
    BY <1>1, <1>2 DEF LInv, TypeOK
  <1>4. InfoInOrder' /\ Current'
    BY <1>2 DEF LInv, InfoInOrder, Current, WithInfo, Cleaning, Alone
  <1>5. MembersInCgroup'
    BY <1>1, <1>2 DEF LInv, MembersInCgroup, Joined
  <1>6. EndedIsEnded'
    <2> SUFFICES ASSUME NEW d \in Names, Alone(d), init[d] = "running", init'[d] = "running"
                 PROVE  /\ ~(meta[d] # None /\ meta[d].status # "RUNNING")
                        /\ \A p \in Procs : tgt[p] = d =>
                              /\ ~(pc'[p] \in WithInfo /\ info[p].status # "RUNNING")
                              /\ pc'[p] \notin Ending
      BY <1>1 DEF EndedIsEnded, Alone
    <2> QED
      BY <1>1, <1>2 DEF LInv, EndedIsEnded, WithInfo, Cleaning
  <1>7. OneAddress'
    <2>1. \A d \in Names, a \in Addresses : Records(d, a)' => Records(d, a)
      BY <1>2 DEF Records, WithInfo, Cleaning
    <2> QED
      BY <2>1 DEF LInv, OneAddress, Alone
  <1>8. ResourcesKept' /\ RunningIsWhole'
    BY <1>1 DEF LInv, ResourcesKept, Left, Alone, RunningIsWhole, Whole
  <1>9. Dismantled'
    BY <1>2 DEF LInv, Dismantled, Alone, Unmapped, Unlinked, Emptied
  <1>10. LeaseKept'
    <2>1. \A q \in Procs : pc'[q] \in Unleased => pc[q] \in Unleased
      BY <1>2 DEF Unleased
    <2> QED
      BY <2>1 DEF LInv, LeaseKept, Alone
  <1> QED
    BY <1>3, <1>4, <1>5, <1>6, <1>7, <1>8, <1>9, <1>10 DEF LInv

\* The interface goes with the network namespace.
LEMMA NetnsGoneLInv ==
    ASSUME LInv, NEW c \in Names, NetnsGone(c)
    PROVE  LInv'
  <1> USE DEF NetnsGone, frame
  <1>1. TypeOK'
    BY DEF LInv, TypeOK
  <1>2. InfoInOrder' /\ Current' /\ EndedIsEnded' /\ MembersInCgroup'
    BY DEF LInv, InfoInOrder, Current, EndedIsEnded, MembersInCgroup, Alone
  <1>3. OneAddress' /\ LeaseKept'
    BY DEF LInv, OneAddress, Records, LeaseKept, Alone
  <1>4. Dismantled'
    BY DEF LInv, TypeOK, Dismantled, Alone
  <1>5. ResourcesKept' /\ RunningIsWhole'
    BY DEF LInv, TypeOK, ResourcesKept, Left, Alone, RunningIsWhole, Whole
  <1> QED
    BY <1>1, <1>2, <1>3, <1>4, <1>5 DEF LInv

\* After a reboot there are no commands, and less on the host than before.
LEMMA RebootLInv ==
    ASSUME LInv, Reboot
    PROVE  LInv'
  <1> USE DEF Reboot
  <1>1. TypeOK'
    BY BoundsAssumption DEF LInv, TypeOK, Places
  <1>2. InfoInOrder' /\ Current'
    BY DEF LInv, TypeOK, InfoInOrder, Current, WithInfo, Cleaning, Alone
  <1>3. MembersInCgroup'
    BY DEF LInv, TypeOK, MembersInCgroup, Joined
  <1>4. EndedIsEnded'
    BY DEF LInv, TypeOK, EndedIsEnded, Alone, WithInfo, Ending, Cleaning
  <1>5. OneAddress'
    <2>1. \A c \in Names, a \in Addresses : Records(c, a)' => Records(c, a)
      BY DEF Records, WithInfo, Cleaning
    <2> QED
      BY <2>1 DEF LInv, OneAddress, Alone
  <1>6. ResourcesKept' /\ RunningIsWhole'
    <2>1. \A c \in Names : Left(c)' => Left(c)
      BY DEF Left
    <2>2. \A c \in Names : init'[c] # "running"
      OBVIOUS
    <2> QED
      BY <2>1, <2>2 DEF LInv, ResourcesKept, Alone, RunningIsWhole
  <1>7. Dismantled'
    BY DEF LInv, TypeOK, Dismantled, Unmapped, Unlinked, Emptied
  <1>8. LeaseKept'
    <2>1. \A p \in Procs : pc'[p] \notin Unleased
      BY DEF Unleased
    <2> QED
      BY <2>1 DEF LInv, LeaseKept, Alone
  <1> QED
    BY <1>1, <1>2, <1>3, <1>4, <1>5, <1>6, <1>7, <1>8 DEF LInv

\* A command begins: it has read nothing.
LEMMA BeginLInv ==
    ASSUME LInv, NEW p \in Procs, NEW c \in Names, NEW k \in {"refresh", "stop", "rm", "exec"},
           Begin(p, c, k)
    PROVE  LInv'
  <1> USE DEF Begin, At, Goto, host
  <1>1. TypeOK'
    BY DEF LInv, TypeOK, Places
  <1>2. InfoInOrder' /\ Current'
    BY DEF LInv, TypeOK, InfoInOrder, Current, WithInfo, Cleaning, Alone
  <1>3. MembersInCgroup'
    BY DEF LInv, TypeOK, MembersInCgroup, Joined
  <1>4. EndedIsEnded'
    BY DEF LInv, TypeOK, EndedIsEnded, Alone, WithInfo, Ending, Cleaning
  <1>5. OneAddress'
    <2>1. \A d \in Names, a \in Addresses : Records(d, a)' => Records(d, a)
      BY DEF LInv, TypeOK, Records, WithInfo, Cleaning
    <2> QED
      BY <2>1 DEF LInv, OneAddress, Alone
  <1>6. ResourcesKept' /\ RunningIsWhole'
    BY DEF LInv, ResourcesKept, Left, Alone, RunningIsWhole, Whole
  <1>7. Dismantled'
    BY DEF LInv, TypeOK, Dismantled, Alone, Unmapped, Unlinked, Emptied
  <1>8. LeaseKept'
    <2>1. \A q \in Procs : pc'[q] \in Unleased => pc[q] \in Unleased /\ tgt'[q] = tgt[q]
      BY DEF LInv, TypeOK, Unleased
    <2> QED
      BY <2>1 DEF LInv, LeaseKept, Alone
  <1> QED
    BY <1>1, <1>2, <1>3, <1>4, <1>5, <1>6, <1>7, <1>8 DEF LInv

\* docker_run: nothing is left of the container before, and unless a command is
\* overtaken none uses what it has seen of it.
LEMMA RunLInv ==
    ASSUME LInv, NEW p \in Procs, NEW c \in Names, Run(p, c)
    PROVE  LInv'
  <1> DEFINE i(a) == NewInfo(c, a)
  <1>1. PICK a \in Addresses \ used, fg \in BOOLEAN :
           /\ meta' = [meta EXCEPT ![c] = i(a)]
           /\ info' = IF fg THEN [info EXCEPT ![p] = i(a)] ELSE info
           /\ net' = [net EXCEPT ![c] = a]
           /\ rules' = rules \cup {<<a, c>>}
           /\ used' = used \cup {a}
           /\ Goto(p, IF fg THEN "fg" ELSE "idle")
           /\ cmd' = [cmd EXCEPT ![p] = IF fg THEN "run" ELSE "none"]
    BY DEF Run
  <1>2. /\ pc[p] = "idle" /\ starts[c] < MaxStarts /\ ~Exists(c)
        /\ starts' = [starts EXCEPT ![c] = @ + 1]
        /\ overtaken' = IF \E q \in Procs : tgt[q] = c /\ pc[q] \in Committed
                        THEN overtaken \cup {c} ELSE overtaken
        /\ init' = [init EXCEPT ![c] = "running"]
        /\ cg' = [cg EXCEPT ![c] = TRUE]
        /\ work' = [work EXCEPT ![c] = "mounted"]
        /\ tgt' = [tgt EXCEPT ![p] = c]
        /\ UNCHANGED <<polls, bad, mbad, faults>>
    BY DEF Run
  <1>3. starts[c] \in Nat /\ starts[c] + 1 \in 1 .. MaxStarts
    BY <1>2, BoundsAssumption DEF LInv, TypeOK
  <1>4. /\ i(a) \in Infos /\ i(a) # None /\ i(a).status = "RUNNING"
        /\ i(a).start = starts[c] + 1 /\ i(a).ip = a
    <2>1. i(a) \in Infos /\ i(a).status = "RUNNING" /\ i(a).start = starts[c] + 1 /\ i(a).ip = a
      BY <1>3 DEF Infos, Statuses, NewInfo
    <2> HIDE DEF i
    <2> QED
      BY <2>1, NoneAssumption
  <1> HIDE DEF i
  <1>5. /\ pc' \in [Procs -> Places] /\ info' \in [Procs -> Infos \cup {None}]
        /\ pc'[p] = "idle" \/ (pc'[p] = "fg" /\ info'[p] = i(a))
        /\ \A q \in Procs : q # p => pc'[q] = pc[q] /\ tgt'[q] = tgt[q] /\ info'[q] = info[q]
        /\ tgt'[p] = c
    BY <1>1, <1>2, <1>4 DEF Goto, LInv, TypeOK, Places
  <1>6. /\ \A d \in Names : d # c => /\ meta'[d] = meta[d] /\ starts'[d] = starts[d]
                                     /\ init'[d] = init[d] /\ cg'[d] = cg[d]
                                     /\ work'[d] = work[d] /\ net'[d] = net[d]
        /\ meta'[c] = i(a) /\ starts'[c] = starts[c] + 1 /\ init'[c] = "running" /\ cg'[c]
    BY <1>1, <1>2 DEF LInv, TypeOK
  <1>7. \A b \in Addresses, d \in Names :
           <<b, d>> \in rules' <=> <<b, d>> \in rules \/ (b = a /\ d = c)
    BY <1>1
  <1>8. \A d \in Names : Alone(d)' => Alone(d)
    BY <1>2 DEF Alone
  <1>9. meta[c] = None /\ (Alone(c)' => \A b \in Addresses : <<b, c>> \notin rules)
    BY <1>2, <1>8 DEF Exists, LInv, ResourcesKept, Left
  <1>10. \A q \in Procs : q # p /\ tgt[q] = c /\ Alone(c)' => pc'[q] \notin Committed
    BY <1>2, <1>5 DEF Alone
  <1>11. TypeOK'
    <2>1. meta' \in [Names -> Infos \cup {None}] /\ starts' \in [Names -> 0 .. MaxStarts]
      BY <1>1, <1>2, <1>3, <1>4 DEF LInv, TypeOK
    <2>2. /\ net' \in [Names -> Addresses \cup {None}]
          /\ rules' \subseteq Addresses \X Names /\ used' \subseteq Addresses
          /\ overtaken' \subseteq Names
      BY <1>1, <1>2 DEF LInv, TypeOK
    <2>3. cmd' \in [Procs -> {"none", "run", "refresh", "stop", "rm", "exec"}]
      BY <1>1 DEF LInv, TypeOK
    <2> QED
      BY <1>2, <1>5, <2>1, <2>2, <2>3 DEF LInv, TypeOK
  <1>12. InfoInOrder' /\ MembersInCgroup'
    <2>1. InfoInOrder'
      BY <1>2, <1>4, <1>5 DEF LInv, InfoInOrder, WithInfo, Cleaning
    <2>2. ASSUME NEW q \in Procs, pc'[q] \in Joined
          PROVE  cg'[tgt'[q]]
      <3>1. q # p /\ cg[tgt[q]] /\ tgt[q] \in Names /\ tgt'[q] = tgt[q]
        BY <1>5, <2>2 DEF Joined, LInv, TypeOK, MembersInCgroup
      <3> QED
        BY <1>6, <3>1
    <2>3. \A d \in Names : init'[d] = "running" => cg'[d]
      BY <1>6 DEF LInv, MembersInCgroup
    <2> QED
      BY <2>1, <2>2, <2>3 DEF MembersInCgroup
  <1>13. ASSUME NEW q \in Procs, NEW d \in Names, tgt'[q] = d, Alone(d)', pc'[q] \in Committed
         PROVE  \/ q = p /\ d = c /\ pc'[q] = "fg" /\ info'[q] = i(a)
                \/ q # p /\ d # c /\ tgt[q] = d /\ pc[q] = pc'[q] /\ info'[q] = info[q]
    BY <1>5, <1>10, <1>13 DEF Committed, Cleaning
  <1>14. Current'
    <2> SUFFICES ASSUME NEW d \in Names, Alone(d)'
                 PROVE  /\ meta'[d] # None => meta'[d].start = starts'[d]
                        /\ \A q \in Procs : tgt'[q] = d /\ pc'[q] \in WithInfo
                                            => info'[q].start = starts'[d]
      BY DEF Current
    <2>1. meta'[d] # None => meta'[d].start = starts'[d]
      BY <1>4, <1>6, <1>8 DEF LInv, Current
    <2>2. ASSUME NEW q \in Procs, tgt'[q] = d, pc'[q] \in WithInfo
          PROVE  info'[q].start = starts'[d]
      <3>1. pc'[q] \in Committed
        BY <2>2 DEF WithInfo, Committed
      <3> QED
        BY <1>4, <1>6, <1>8, <1>13, <2>2, <3>1 DEF LInv, Current
    <2> QED
      BY <2>1, <2>2
  <1>15. EndedIsEnded'
    <2> SUFFICES ASSUME NEW d \in Names, Alone(d)'
                 PROVE  /\ meta'[d] # None /\ meta'[d].status # "RUNNING" => init'[d] # "running"
                        /\ \A q \in Procs : tgt'[q] = d =>
                              /\ pc'[q] \in WithInfo /\ info'[q].status # "RUNNING"
                                    => init'[d] # "running"
                              /\ pc'[q] \in Ending => init'[d] # "running"
      BY DEF EndedIsEnded
    <2>1. meta'[d] # None /\ meta'[d].status # "RUNNING" => init'[d] # "running"
      BY <1>4, <1>6, <1>8 DEF LInv, EndedIsEnded
    <2>2. ASSUME NEW q \in Procs, tgt'[q] = d, pc'[q] \in Committed
          PROVE  /\ pc'[q] \in WithInfo /\ info'[q].status # "RUNNING" => init'[d] # "running"
                 /\ pc'[q] \in Ending => init'[d] # "running"
      <3>1. CASE q = p /\ d = c /\ pc'[q] = "fg" /\ info'[q] = i(a)
        BY <1>4, <3>1 DEF Ending, Cleaning
      <3>2. CASE q # p /\ d # c /\ tgt[q] = d /\ pc[q] = pc'[q] /\ info'[q] = info[q]
        BY <1>6, <1>8, <3>2 DEF LInv, EndedIsEnded
      <3> QED
        BY <1>13, <2>2, <3>1, <3>2
    <2>3. \A q \in Procs : pc'[q] \in WithInfo \/ pc'[q] \in Ending => pc'[q] \in Committed
      BY DEF WithInfo, Ending, Committed
    <2> QED
      BY <2>1, <2>2, <2>3
  <1>16. OneAddress'
    <2> SUFFICES ASSUME NEW d \in Names, Alone(d)', NEW x \in Addresses, NEW y \in Addresses,
                        Records(d, x)', Records(d, y)'
                 PROVE  x = y
      BY DEF OneAddress
    <2>1. ASSUME NEW b \in Addresses, Records(d, b)'
          PROVE  IF d = c THEN b = a ELSE Records(d, b)
      <3>1. CASE <<b, d>> \in rules'
        BY <1>7, <1>9, <3>1 DEF Records
      <3>2. CASE meta'[d] # None /\ meta'[d].ip = b
        BY <1>4, <1>6, <3>2 DEF Records
      <3>3. CASE \E q \in Procs : tgt'[q] = d /\ pc'[q] \in WithInfo /\ info'[q].ip = b
        <4>1. PICK q \in Procs : tgt'[q] = d /\ pc'[q] \in WithInfo /\ info'[q].ip = b
          BY <3>3
        <4>2. pc'[q] \in Committed
          BY <4>1 DEF WithInfo, Committed
        <4> QED
          BY <1>4, <1>13, <4>1, <4>2 DEF Records
      <3> QED
        BY <2>1, <3>1, <3>2, <3>3 DEF Records
    <2> QED
      BY <1>8, <2>1 DEF LInv, OneAddress
  <1>17. Dismantled'
    <2> SUFFICES ASSUME NEW q \in Procs, Alone(tgt[q])', ~bad[q],
                        pc'[q] \in Unmapped
                 PROVE  /\ \A b \in Addresses : <<b, tgt'[q]>> \notin rules'
                        /\ pc'[q] \in Unlinked => net'[tgt'[q]] = None
                        /\ pc'[q] \in Emptied => work'[tgt'[q]] = "absent"
                        /\ pc'[q] = "rmmeta" => ~cg'[tgt'[q]]
      BY <1>2 DEF Dismantled, Unmapped, Unlinked, Emptied
    <2>1. pc'[q] \in Committed /\ pc'[q] # "fg" /\ tgt'[q] \in Names
      BY <1>2 DEF Unmapped, Committed, Cleaning, LInv, TypeOK
    <2>2. tgt[q] # c /\ tgt'[q] = tgt[q] /\ tgt[q] \in Names /\ pc'[q] = pc[q]
      BY <1>13, <2>1
    <2> QED
      BY <1>6, <1>7, <1>8, <2>2 DEF LInv, Dismantled
  <1>18. RunningIsWhole'
    <2>1. net'[c] # None /\ work'[c] = "mounted"
      BY <1>1, <1>2, AddressAssumption DEF LInv, TypeOK
    <2> QED
      BY <1>4, <1>6, <1>8, <2>1 DEF LInv, RunningIsWhole, Whole, Alone
  <1>19. ResourcesKept'
    <2>1. \A d \in Names : d # c => (Left(d)' => Left(d))
      BY <1>6, <1>7 DEF Left
    <2> QED
      BY <1>4, <1>6, <1>8, <2>1 DEF LInv, ResourcesKept
  <1>20. LeaseKept'
    <2> SUFFICES ASSUME \A d \in Names : Alone(d)', NEW b \in used'
                 PROVE  \E d \in Names :
                           /\ meta'[d] # None /\ meta'[d].ip = b
                           /\ \A q \in Procs : tgt'[q] = d /\ pc'[q] \in Unleased => bad[q]
      BY <1>2 DEF LeaseKept
    <2>1. \A q \in Procs : pc'[q] \in Unleased => pc'[q] \in Committed /\ pc'[q] # "fg"
      BY DEF Unleased, Committed, Cleaning
    <2>2. CASE b = a
      BY <1>4, <1>6, <1>13, <2>1, <2>2
    <2>3. CASE b # a
      <3>1. \A d \in Names : Alone(d)
        BY <1>8
      <3>2. PICK d \in Names :
               /\ meta[d] # None /\ meta[d].ip = b
               /\ \A q \in Procs : tgt[q] = d /\ pc[q] \in Unleased => bad[q]
        BY <1>1, <2>3, <3>1 DEF LInv, LeaseKept
      <3>3. d # c
        BY <1>9, <3>2
      <3>4. \A q \in Procs : tgt'[q] = d /\ pc'[q] \in Unleased => bad[q]
        BY <1>13, <2>1, <3>2
      <3> QED
        BY <1>6, <3>2, <3>3, <3>4
    <2> QED
      BY <2>2, <2>3
  <1> QED
    BY <1>11, <1>12, <1>14, <1>15, <1>16, <1>17, <1>18, <1>19, <1>20 DEF LInv

-----------------------------------------------------------------------------
\* The status refresh: what it finds decides where the command goes.
LEMMA RefreshLInv ==
    ASSUME LInv, NEW p \in Procs, RefreshKeeps(p) \/ RefreshWrites(p)
    PROVE  LInv'
  <1>0. pc[p] = "refresh" /\ tgt[p] \in Names /\ pc[p] \in WithInfo
    BY DEF RefreshKeeps, RefreshWrites, LInv, TypeOK, WithInfo
  <1>1. CASE RefreshKeeps(p)
    <2> DEFINE to == AfterRefresh(cmd[p], info[p].status)
    <2>1. CASE to = "idle"
      BY <1>1, <2>1, LeaveLInv DEF RefreshKeeps, host
    <2>2. CASE to # "idle"
      <3>1. /\ pc[p] = "refresh" /\ Goto(p, to) /\ UNCHANGED <<meta, host, frame, faults>>
        BY <1>1, <2>2 DEF RefreshKeeps
      <3>2. /\ to \in {"term", "join", "unmount"}
            /\ to = "unmount" => info[p].status # "RUNNING"
        BY <2>2 DEF AfterRefresh
      <3> HIDE DEF to
      <3>3. to = "unmount" /\ Alone(tgt[p]) => init[tgt[p]] # "running"
        BY <1>0, <3>2 DEF LInv, EndedIsEnded
      <3>4. Onward(p, to)
        BY <3>1, <3>2, <3>3 DEF Onward, Places, WithInfo, Ending, Joined, Unmapped, Cleaning
      <3> QED
        BY <3>1, <3>4, MoveLInv DEF frame, LInv, TypeOK
    <2> QED
      BY <2>1, <2>2
  <1>2. CASE RefreshWrites(p)
    <2>1. Alone(tgt[p]) => init[tgt[p]] # "running"
      BY <1>0, <1>2 DEF RefreshWrites, Identified, LInv, Current
    <2> QED
      BY <1>2, <2>1, WriteLInv DEF RefreshWrites, Statuses
  <1> QED
    BY <1>1, <1>2

\* docker_stop up to the update, and docker_exec.
LEMMA StopExecLInv ==
    ASSUME LInv, NEW p \in Procs,
           \/ SigTerm(p) \/ PollEmpty(p) \/ PollAgain(p) \/ PollOut(p) \/ SigKill(p)
           \/ FindInit(p) \/ JoinCgroup(p) \/ EnterNamespaces(p)
    PROVE  LInv'
  <1> USE DEF Onward, Places, WithInfo, Ending, Joined, Unmapped, Cleaning
  <1>0. polls \in [Procs -> 0 .. MaxPolls] /\ pc \in [Procs -> Places]
    BY DEF LInv, TypeOK
  <1>1. CASE SigTerm(p) \/ SigKill(p)
    BY <1>0, <1>1, MoveLInv DEF SigTerm, SigKill, At, frame
  <1>2. CASE FindInit(p) \/ JoinCgroup(p) \/ EnterNamespaces(p)
    BY <1>0, <1>2, MoveLInv DEF FindInit, JoinCgroup, EnterNamespaces, At, frame, LInv,
                                MembersInCgroup
  <1>3. CASE PollEmpty(p)
    <2>1. init[tgt[p]] # "running"
      BY <1>3 DEF PollEmpty, Members
    <2>2. polls' \in [Procs -> 0 .. MaxPolls]
      BY <1>0, <1>3, BoundsAssumption DEF PollEmpty
    <2> QED
      BY <1>3, <2>1, <2>2, MoveLInv DEF PollEmpty
  <1>4. CASE PollAgain(p)
    <2>1. Goto(p, pc[p]) /\ pc[p] \in {"poll", "killpoll"}
      BY <1>0, <1>4 DEF PollAgain, Goto
    <2>2. polls' \in [Procs -> 0 .. MaxPolls]
      BY <1>0, <1>4, BoundsAssumption DEF PollAgain
    <2> QED
      BY <1>4, <2>1, <2>2, MoveLInv DEF PollAgain
  <1>5. CASE PollOut(p)
    <2>1. CASE At(p, "poll", "kill") /\ polls' = [polls EXCEPT ![p] = 0]
               /\ UNCHANGED <<cmd, tgt, info, bad, mbad>>
      <3>1. polls' \in [Procs -> 0 .. MaxPolls]
        BY <1>0, <2>1, BoundsAssumption
      <3> QED
        BY <1>5, <2>1, <3>1, MoveLInv DEF PollOut, At
    <2>2. CASE pc[p] = "killpoll" /\ Leave(p)
      BY <1>5, <2>2, LeaveLInv DEF PollOut, host
    <2> QED
      BY <1>5, <2>1, <2>2 DEF PollOut
  <1> QED
    BY <1>1, <1>2, <1>3, <1>4, <1>5

\* write_container_info of update_container_status.
LEMMA UpdateWriteLInv ==
    ASSUME LInv, NEW p \in Procs, UpdateWrite(p)
    PROVE  LInv'
  <1>1. Alone(tgt[p]) => init[tgt[p]] # "running"
    BY DEF UpdateWrite, LInv, TypeOK, EndedIsEnded, Ending
  <1>2. PICK s \in {"STOPPED", "EXITED"} :
           meta' = [meta EXCEPT ![tgt[p]] = WithStatus(info[p], s)]
    BY DEF UpdateWrite
  <1> QED
    BY <1>1, <1>2, WriteLInv DEF UpdateWrite, Statuses

\* A process or a container ends.
LEMMA EndLInv ==
    ASSUME LInv
    PROVE  /\ \A p \in Procs : GiveUp(p) \/ CommandError(p) \/ GuestEnds(p) => LInv'
           /\ \A p \in Procs : Crash(p) \/ Wait(p) => LInv'
           /\ \A c \in Names : InitExits(c) => LInv'
  <1>1. ASSUME NEW p \in Procs, GiveUp(p) \/ CommandError(p) \/ GuestEnds(p)
        PROVE  LInv'
    <2>1. Leave(p) /\ UNCHANGED <<meta, host, faults>>
      BY <1>1 DEF GiveUp, CommandError, GuestEnds, Fails
    <2> QED
      BY <2>1, LeaveLInv DEF host
  <1>2. ASSUME NEW p \in Procs, Crash(p)
        PROVE  LInv'
    <2>1. tgt[p] \in Names /\ init \in [Names -> {"none", "running", "zombie", "gone"}]
      BY DEF LInv, TypeOK
    <2>2. UNCHANGED init \/ (init[tgt[p]] = "zombie" /\ init' = [init EXCEPT ![tgt[p]] = "gone"])
      BY <1>2, <2>1 DEF Crash
    <2> QED
      BY <1>2, <2>1, <2>2, LeaveLInv DEF Crash
  <1>3. ASSUME NEW p \in Procs, Wait(p)
        PROVE  LInv'
    <2>1. tgt[p] \in Names
      BY DEF LInv, TypeOK
    <2>2. CASE Parent(p, tgt[p])
      BY <1>3, <2>1, <2>2, InitEndsLInv DEF Wait, At
    <2>3. CASE ~Parent(p, tgt[p])
      <3>1. /\ pc[p] = "fg" /\ Goto(p, "reread") /\ ~Alone(tgt[p])
            /\ UNCHANGED <<meta, host, frame, faults>>
        BY <1>3, <2>1, <2>3 DEF Wait, At, Parent, LInv, Current, WithInfo, host
      <3>2. Onward(p, "reread")
        BY <3>1 DEF Onward, Places, WithInfo, Joined, Unmapped, Cleaning
      <3> QED
        BY <3>1, <3>2, MoveLInv DEF frame, LInv, TypeOK
    <2> QED
      BY <2>2, <2>3
  <1>4. ASSUME NEW c \in Names, InitExits(c)
        PROVE  LInv'
    BY <1>4, InitEndsLInv DEF InitExits
  <1> QED
    BY <1>1, <1>2, <1>3, <1>4

\* Every step keeps the invariant.
LEMMA NextLInv == LInv /\ [Next]_vars => LInv'
  <1> SUFFICES ASSUME LInv, [Next]_vars PROVE LInv'
    OBVIOUS
  <1>1. CASE UNCHANGED vars
    <2> USE <1>1 DEF vars, host, frame
    <2>1. TypeOK' /\ InfoInOrder' /\ Current' /\ EndedIsEnded' /\ MembersInCgroup'
      BY DEF LInv, TypeOK, InfoInOrder, Current, EndedIsEnded, MembersInCgroup, Alone
    <2>2. OneAddress' /\ Dismantled'
      BY DEF LInv, OneAddress, Records, Dismantled, Alone
    <2>3. ResourcesKept' /\ LeaseKept' /\ RunningIsWhole'
      BY DEF LInv, ResourcesKept, Left, LeaseKept, RunningIsWhole, Whole, Alone
    <2> QED
      BY <2>1, <2>2, <2>3 DEF LInv
  <1>2. ASSUME NEW p \in Procs, Command(p)
        PROVE  LInv'
    BY <1>2, RunLInv, BeginLInv DEF Command
  <1>3. ASSUME NEW p \in Procs, Progress(p)
        PROVE  LInv'
    <2>1. CASE Wait(p) \/ ReadInfo(p) \/ RefreshKeeps(p) \/ RefreshWrites(p) \/ GiveUp(p)
      BY <2>1, EndLInv, ReadLInv, RefreshLInv
    <2>2. CASE Stop(p)
      BY <2>2, StopExecLInv, ReadLInv, UpdateWriteLInv DEF Stop
    <2>3. CASE Remove(p)
      BY <2>3, UnmapPortsLInv, RemoveLInv, RemoveInfoLInv DEF Remove
    <2>4. CASE FindInit(p) \/ JoinCgroup(p) \/ EnterNamespaces(p)
      BY <2>4, StopExecLInv
    <2> QED
      BY <1>3, <2>1, <2>2, <2>3, <2>4 DEF Progress
  <1>4. ASSUME NEW p \in Procs, CommandError(p) \/ GuestEnds(p) \/ Crash(p)
        PROVE  LInv'
    BY <1>4, EndLInv
  <1>5. ASSUME NEW c \in Names, InitExits(c) \/ NetnsGone(c)
        PROVE  LInv'
    BY <1>5, EndLInv, NetnsGoneLInv
  <1> QED
    BY <1>1, <1>2, <1>3, <1>4, <1>5, RebootLInv DEF Next

\* The inductive invariant holds in every reachable state.
THEOREM LifecycleInvariance == Spec => []LInv
  BY InitLInv, NextLInv, PTL DEF Spec

\* Every variable keeps its type, names run again included.
THEOREM LifecycleTyped == Spec => []TypeOK
  <1>1. LInv => TypeOK
    BY DEF LInv
  <1> QED
    BY <1>1, LifecycleInvariance, PTL

\* However often a name is run, a status other than RUNNING means that the init
\* process of its last run has ended, unless that run overtook a command.
THEOREM StatusSoundness == Spec => []StatusIsSound
  <1>1. LInv => StatusIsSound
    BY DEF LInv, EndedIsEnded, StatusIsSound, Alone
  <1> QED
    BY <1>1, LifecycleInvariance, PTL

\* However often a name is run, a running container keeps its root, its
\* interface and its metadata, unless its run overtook a command.
THEOREM RunningKept == Spec => []RunningIsWhole
  <1>1. LInv => RunningIsWhole
    BY DEF LInv
  <1> QED
    BY <1>1, LifecycleInvariance, PTL

\* However often a name is run, the metadata by which rm can be repeated
\* outlives everything else of the container, its processes and its address
\* included, unless a run overtook a command; however many rms, refreshes and
\* stops of however many containers run at the same time.
THEOREM MetadataLast == Spec => []MetadataOutlivesResources
  <1>1. LInv => MetadataOutlivesResources
    <2> SUFFICES ASSUME LInv PROVE MetadataOutlivesResources
      OBVIOUS
    <2>1. \A c \in Names : Members(c) # {} => cg[c]
      BY DEF LInv, MembersInCgroup, Members, Joined
    <2>2. ASSUME overtaken = {}, NEW a \in used
          PROVE  \E c \in Names : meta[c] # None /\ meta[c].ip = a
      BY <2>2 DEF LInv, LeaseKept, Alone
    <2>3. ASSUME NEW c \in Names \ overtaken,
                 \/ work[c] # "absent" \/ cg[c] \/ net[c] # None \/ Members(c) # {}
                 \/ \E a \in Addresses : <<a, c>> \in rules
          PROVE  meta[c] # None
      BY <2>1, <2>3 DEF LInv, ResourcesKept, Left, Alone
    <2> QED
      BY <2>2, <2>3 DEF MetadataOutlivesResources
  <1> QED
    BY <1>1, LifecycleInvariance, PTL
=============================================================================
