------------------------- MODULE ContainerLifecycle -------------------------
(***************************************************************************)
(* The commands on containers that have been started: stop, rm, exec, the  *)
(* lazy status refresh of ps, inspect and stats, and the foreground run    *)
(* that waits for its container.  Each is a CLI process; they share        *)
(* the metadata files, which are replaced atomically but read, modified    *)
(* and written without a lock, and host resources found by name.           *)
(*                                                                         *)
(* docker_run is one step here, with the outcome module ContainerRun       *)
(* establishes for a run that reaches the user's command.                  *)
(***************************************************************************)
EXTENDS Naturals, FiniteSets

CONSTANTS
    Procs,      \* CLI processes
    Names,      \* container names
    Addresses,  \* addresses of the default network
    None,       \* no metadata, no address, no container
    MaxStarts,  \* bound: runs of one name
    MaxPolls,   \* polls of docker_stop before it goes on
    MaxFaults   \* bound: failing clean-up calls and reboots

ASSUME BoundsAssumption == {MaxStarts, MaxPolls, MaxFaults} \subseteq Nat

VARIABLES
    meta,    \* meta[c]: container_info/<c>
    starts,  \* starts[c]: runs of c; the last one's number stands for the
             \* pid and pid_start_time of its init process
    overtaken, \* history: names run again while a command was Committed on them
    init,    \* init[c]: the init process of the last run
    cg,      \* cg[c]: the cgroup exists
    work,    \* work[c]: the workspace
    net,     \* net[c]: the address configured on c's interface
    rules,   \* DNAT rules as <<address, container they were made for>>
    used,    \* addresses marked used in the networks file
    pc,      \* pc[p]: where p is
    cmd,     \* cmd[p]: its command
    tgt,     \* tgt[p]: the container it is about
    info,    \* info[p]: its struct container_info; a foreground run's tells its child
    polls,   \* polls[p]: rounds of the current polling loop
    bad,     \* bad[p]: cleanup_failed
    mbad,    \* mbad[p]: mount_cleanup_failed
    faults   \* clean-up calls that failed, and reboots, so far

host == <<starts, overtaken, init, cg, work, net, rules, used>>
frame == <<cmd, tgt, info, polls, bad, mbad>>
vars == <<meta, host, pc, frame, faults>>

Statuses == {"RUNNING", "STOPPED", "EXITED"}
Infos == [status : Statuses, start : 1 .. MaxStarts, ip : Addresses]

ASSUME NoneAssumption == None \notin Infos
ASSUME AddressAssumption == None \notin Addresses

Cleaning == {"unmount", "unmap", "unlink", "unlease", "rmdir", "rmcgroup", "rmmeta"}
Places == {"idle", "fg", "read", "refresh", "term", "poll", "kill", "killpoll", "reread",
           "rewrite", "join", "fork", "joined", "inside"} \cup Cleaning

\* Where a command has seen how its container is and will write or remove what
\* it finds under the name, without another look.
Committed == {"fg", "refresh", "reread", "rewrite"} \cup Cleaning

TypeOK ==
    /\ meta \in [Names -> Infos \cup {None}]
    /\ starts \in [Names -> 0 .. MaxStarts]
    /\ overtaken \subseteq Names
    /\ init \in [Names -> {"none", "running", "zombie", "gone"}]
    /\ cg \in [Names -> BOOLEAN]
    /\ work \in [Names -> {"absent", "mounted", "unmounted"}]
    /\ net \in [Names -> Addresses \cup {None}]
    /\ rules \subseteq Addresses \X Names
    /\ used \subseteq Addresses
    /\ pc \in [Procs -> Places]
    /\ cmd \in [Procs -> {"none", "run", "refresh", "stop", "rm", "exec"}]
    /\ tgt \in [Procs -> Names]
    /\ info \in [Procs -> Infos \cup {None}]
    /\ polls \in [Procs -> 0 .. MaxPolls]
    /\ bad \in [Procs -> BOOLEAN] /\ mbad \in [Procs -> BOOLEAN]
    /\ faults \in 0 .. MaxFaults

Init ==
    /\ meta = [c \in Names |-> None]
    /\ starts = [c \in Names |-> 0]
    /\ overtaken = {}
    /\ init = [c \in Names |-> "none"]
    /\ cg = [c \in Names |-> FALSE]
    /\ work = [c \in Names |-> "absent"]
    /\ net = [c \in Names |-> None]
    /\ rules = {} /\ used = {}
    /\ pc = [p \in Procs |-> "idle"]
    /\ cmd = [p \in Procs |-> "none"]
    /\ \E c \in Names : tgt = [p \in Procs |-> c]
    /\ info = [p \in Procs |-> None]
    /\ polls = [p \in Procs |-> 0]
    /\ bad = [p \in Procs |-> FALSE] /\ mbad = [p \in Procs |-> FALSE]
    /\ faults = 0

-----------------------------------------------------------------------------
Goto(p, place) == pc' = [pc EXCEPT ![p] = place]

At(p, from, to) == pc[p] = from /\ Goto(p, to)

WithStatus(i, s) == [status |-> s, start |-> i.start, ip |-> i.ip]

\* container_exists.
Exists(c) == cg[c] \/ meta[c] # None \/ work[c] # "absent"

\* /proc/<pid>/stat is there and has the recorded start time; a zombie's is.
Identified(c, i) == i.start = starts[c] /\ init[c] \in {"running", "zombie"}

\* cgroup.procs of c: init, and exec workers, who are not in the container's
\* PID namespace.
Members(c) ==
    (IF init[c] = "running" THEN {c} ELSE {})
        \cup {p \in Procs : tgt[p] = c /\ pc[p] \in {"joined", "inside"}}

\* A command gives up or returns.
Leave(p) ==
    /\ Goto(p, "idle")
    /\ info' = [info EXCEPT ![p] = None]
    /\ polls' = [polls EXCEPT ![p] = 0]
    /\ bad' = [bad EXCEPT ![p] = FALSE]
    /\ mbad' = [mbad EXCEPT ![p] = FALSE]
    /\ cmd' = [cmd EXCEPT ![p] = "none"]
    /\ UNCHANGED tgt

Fails(p, place) == pc[p] = place /\ Leave(p) /\ UNCHANGED <<meta, host, faults>>

-----------------------------------------------------------------------------
\* create_container_info.
NewInfo(c, a) == [status |-> "RUNNING", start |-> starts[c] + 1, ip |-> a]

\* docker_run up to the release of the child, then detached or foreground.
Run(p, c) ==
    /\ pc[p] = "idle"
    /\ ~Exists(c)
    /\ starts[c] < MaxStarts
    /\ \E a \in Addresses \ used, fg \in BOOLEAN :
          /\ meta' = [meta EXCEPT ![c] = NewInfo(c, a)]
          /\ info' = IF fg THEN [info EXCEPT ![p] = NewInfo(c, a)] ELSE info
          /\ net' = [net EXCEPT ![c] = a]
          /\ rules' = rules \cup {<<a, c>>}
          /\ used' = used \cup {a}
          /\ Goto(p, IF fg THEN "fg" ELSE "idle")
          /\ cmd' = [cmd EXCEPT ![p] = IF fg THEN "run" ELSE "none"]
    /\ starts' = [starts EXCEPT ![c] = @ + 1]
    /\ overtaken' = IF \E q \in Procs : tgt[q] = c /\ pc[q] \in Committed
                    THEN overtaken \cup {c} ELSE overtaken
    /\ init' = [init EXCEPT ![c] = "running"]
    /\ cg' = [cg EXCEPT ![c] = TRUE]
    /\ work' = [work EXCEPT ![c] = "mounted"]
    /\ tgt' = [tgt EXCEPT ![p] = c]
    /\ UNCHANGED <<polls, bad, mbad, faults>>

\* The last run of c is p's, in the foreground.
Parent(p, c) == pc[p] = "fg" /\ tgt[p] = c /\ info[p].start = starts[c]

\* docker_run: waitpid returns, at once when the name has been run again since
\* its child ended.
Wait(p) ==
    /\ At(p, "fg", "reread")
    /\ \/ Parent(p, tgt[p]) /\ init[tgt[p]] = "zombie" /\ init' = [init EXCEPT ![tgt[p]] = "gone"]
       \/ ~Parent(p, tgt[p]) /\ UNCHANGED init
    /\ UNCHANGED <<meta, starts, overtaken, cg, work, net, rules, used, frame, faults>>

\* ps, inspect and stats; stop; exec; rm, which does nothing to a
\* container that does not exist.
Begin(p, c, k) ==
    /\ At(p, "idle", "read")
    /\ k = "rm" => Exists(c)
    /\ cmd' = [cmd EXCEPT ![p] = k]
    /\ tgt' = [tgt EXCEPT ![p] = c]
    /\ UNCHANGED <<meta, host, info, polls, bad, mbad, faults>>

\* read_container_info.
ReadInfo(p) ==
    /\ At(p, "read", "refresh")
    /\ meta[tgt[p]] # None
    /\ info' = [info EXCEPT ![p] = meta[tgt[p]]]
    /\ UNCHANGED <<meta, host, cmd, tgt, polls, bad, mbad, faults>>

\* Mutant of AfterRefresh: rm does not look at the status.
AfterRefreshRemoves(k, status) ==
    CASE k = "stop" /\ status = "RUNNING" -> "term"
      [] k = "exec" /\ status = "RUNNING" -> "join"
      [] k = "rm" -> "unmount"
      [] OTHER -> "idle"

\* What the command does with the refreshed status.
AfterRefresh(k, status) ==
    CASE k = "stop" /\ status = "RUNNING" -> "term"
      [] k = "exec" /\ status = "RUNNING" -> "join"
      [] k = "rm" /\ status # "RUNNING" -> "unmount"
      [] OTHER -> "idle"

\* refresh_container_status_if_needed finds nothing to change.
RefreshKeeps(p) ==
    /\ pc[p] = "refresh"
    /\ info[p].status # "RUNNING" \/ Identified(tgt[p], info[p])
    /\ IF AfterRefresh(cmd[p], info[p].status) = "idle"
       THEN Leave(p)
       ELSE Goto(p, AfterRefresh(cmd[p], info[p].status)) /\ UNCHANGED frame
    /\ UNCHANGED <<meta, host, faults>>

\* refresh_container_status_if_needed writes back the info read earlier, as
\* EXITED.
RefreshWrites(p) ==
    /\ pc[p] = "refresh"
    /\ info[p].status = "RUNNING" /\ ~Identified(tgt[p], info[p])
    /\ meta' = [meta EXCEPT ![tgt[p]] = WithStatus(info[p], "EXITED")]
    /\ IF cmd[p] = "rm"
       THEN /\ Goto(p, "unmount")
            /\ info' = [info EXCEPT ![p] = WithStatus(@, "EXITED")]
            /\ UNCHANGED <<cmd, tgt, polls, bad, mbad>>
       ELSE Leave(p)
    /\ UNCHANGED <<host, faults>>

-----------------------------------------------------------------------------
(***************************************************************************)
(* docker_stop.  What a signal does is up to the process that gets it: the *)
(* members of the cgroup may end at any time (InitExits, GuestEnds).       *)
(***************************************************************************)
SigTerm(p) ==
    /\ At(p, "term", "poll")
    /\ UNCHANGED <<meta, host, frame, faults>>

\* Mutant of PollEmpty: stop waits for the recorded process, not for the cgroup.
PollPidGone(p) ==
    /\ pc[p] \in {"poll", "killpoll"}
    /\ init[tgt[p]] # "running" \/ info[p].start # starts[tgt[p]]
    /\ Goto(p, "reread")
    /\ polls' = [polls EXCEPT ![p] = 0]
    /\ UNCHANGED <<meta, host, cmd, tgt, info, bad, mbad, faults>>

\* The polling loops end when the cgroup is empty (or gone) ...
PollEmpty(p) ==
    /\ pc[p] \in {"poll", "killpoll"}
    /\ Members(tgt[p]) = {}
    /\ Goto(p, "reread")
    /\ polls' = [polls EXCEPT ![p] = 0]
    /\ UNCHANGED <<meta, host, cmd, tgt, info, bad, mbad, faults>>

\* Mutant of PollAgain: the loop does not test its limit (the counter wraps).
PollUnlimited(p) ==
    /\ pc[p] \in {"poll", "killpoll"}
    /\ Members(tgt[p]) # {}
    /\ polls' = [polls EXCEPT ![p] = (@ + 1) % (MaxPolls + 2)]
    /\ UNCHANGED <<meta, host, pc, cmd, tgt, info, bad, mbad, faults>>

\* Mutant of PollAgain: the rounds are not counted.
PollUncounted(p) ==
    /\ pc[p] \in {"poll", "killpoll"}
    /\ Members(tgt[p]) # {}
    /\ polls[p] < MaxPolls
    /\ UNCHANGED <<meta, host, pc, frame, faults>>

PollAgain(p) ==
    /\ pc[p] \in {"poll", "killpoll"}
    /\ Members(tgt[p]) # {}
    /\ polls[p] < MaxPolls
    /\ polls' = [polls EXCEPT ![p] = @ + 1]
    /\ UNCHANGED <<meta, host, pc, cmd, tgt, info, bad, mbad, faults>>

\* ... or after the last round: the first loop is followed by SIGKILL, the
\* second by giving up with the status unchanged.
PollOut(p) ==
    /\ Members(tgt[p]) # {}
    /\ polls[p] = MaxPolls
    /\ \/ /\ At(p, "poll", "kill")
          /\ polls' = [polls EXCEPT ![p] = 0]
          /\ UNCHANGED <<cmd, tgt, info, bad, mbad>>
       \/ pc[p] = "killpoll" /\ Leave(p)
    /\ UNCHANGED <<meta, host, faults>>

SigKill(p) ==
    /\ At(p, "kill", "killpoll")
    /\ UNCHANGED <<meta, host, frame, faults>>

\* update_container_status, as STOPPED by stop and as EXITED by a foreground
\* run: read_container_info ...
UpdateRead(p) ==
    /\ At(p, "reread", "rewrite")
    /\ meta[tgt[p]] # None
    /\ info' = [info EXCEPT ![p] = meta[tgt[p]]]
    /\ UNCHANGED <<meta, host, cmd, tgt, polls, bad, mbad, faults>>

\* ... then write_container_info.
UpdateWrite(p) ==
    /\ pc[p] = "rewrite"
    /\ meta' = [meta EXCEPT ![tgt[p]] =
                  WithStatus(info[p], IF cmd[p] = "stop" THEN "STOPPED" ELSE "EXITED")]
    /\ Leave(p)
    /\ UNCHANGED <<host, faults>>

-----------------------------------------------------------------------------
(***************************************************************************)
(* docker_exec.  The worker's steps are p's: the CLI process only waits    *)
(* for it.  p is "inside" until the worker and the command it forked have  *)
(* both ended, also when exec is detached and has returned.                *)
(***************************************************************************)
\* The recorded pid must be in the container's cgroup.
FindInit(p) ==
    /\ At(p, "join", "fork")
    /\ cg[tgt[p]] /\ init[tgt[p]] = "running" /\ info[p].start = starts[tgt[p]]
    /\ UNCHANGED <<meta, host, frame, faults>>

\* The worker writes its pid to cgroup.procs.
JoinCgroup(p) ==
    /\ At(p, "fork", "joined")
    /\ cg[tgt[p]]
    /\ UNCHANGED <<meta, host, frame, faults>>

\* open of /proc/<pid>/ns/*, setns, fork.
EnterNamespaces(p) ==
    /\ At(p, "joined", "inside")
    /\ init[tgt[p]] = "running" /\ info[p].start = starts[tgt[p]]
    /\ UNCHANGED <<meta, host, frame, faults>>

-----------------------------------------------------------------------------
(***************************************************************************)
(* docker_rm: clean_container_runtime.                                     *)
(***************************************************************************)
\* A clean-up call of p fails.
Spoil(p) ==
    /\ faults < MaxFaults
    /\ faults' = faults + 1
    /\ bad' = [bad EXCEPT ![p] = TRUE]

\* umount_volumes and umount; what is not mounted counts as unmounted.
Unmount(p) ==
    /\ At(p, "unmount", "unmap")
    /\ \/ /\ work' = [work EXCEPT ![tgt[p]] = IF @ = "mounted" THEN "unmounted" ELSE @]
          /\ UNCHANGED <<bad, mbad, faults>>
       \/ /\ Spoil(p)
          /\ mbad' = [mbad EXCEPT ![p] = TRUE]
          /\ UNCHANGED work
    /\ UNCHANGED <<meta, starts, overtaken, init, cg, net, rules, used, cmd, tgt, info, polls>>

\* unset_container_port_map || disconnect_container || release_used_ip: a
\* failure skips the rest.
UnmapPorts(p) ==
    /\ \/ /\ At(p, "unmap", "unlink")
          /\ rules' = {x \in rules : x[1] # info[p].ip}
          /\ UNCHANGED <<bad, faults>>
       \/ At(p, "unmap", "rmdir") /\ Spoil(p) /\ UNCHANGED rules
    /\ UNCHANGED <<meta, starts, overtaken, init, cg, work, net, used, cmd, tgt, info, polls, mbad>>

Disconnect(p) ==
    /\ \/ /\ At(p, "unlink", "unlease")
          /\ net' = [net EXCEPT ![tgt[p]] = None]
          /\ UNCHANGED <<bad, faults>>
       \/ At(p, "unlink", "rmdir") /\ Spoil(p) /\ UNCHANGED net
    /\ UNCHANGED <<meta, starts, overtaken, init, cg, work, rules, used, cmd, tgt, info, polls, mbad>>

ReleaseIp(p) ==
    /\ At(p, "unlease", "rmdir")
    /\ \/ used' = used \ {info[p].ip} /\ UNCHANGED <<bad, faults>>
       \/ Spoil(p) /\ UNCHANGED used
    /\ UNCHANGED <<meta, starts, overtaken, init, cg, work, net, rules, cmd, tgt, info, polls, mbad>>

\* remove_dir, unless mount cleanup failed.
RemoveDir(p) ==
    /\ At(p, "rmdir", "rmcgroup")
    /\ \/ /\ mbad[p] \/ work[tgt[p]] = "absent"
          /\ UNCHANGED <<work, bad, faults>>
       \/ /\ ~mbad[p] /\ work[tgt[p]] = "unmounted"
          /\ \/ work' = [work EXCEPT ![tgt[p]] = "absent"] /\ UNCHANGED <<bad, faults>>
             \/ Spoil(p) /\ UNCHANGED work
       \/ /\ ~mbad[p] /\ work[tgt[p]] = "mounted"
          /\ bad' = [bad EXCEPT ![p] = TRUE]
          /\ UNCHANGED <<work, faults>>
    /\ UNCHANGED <<meta, starts, overtaken, init, cg, net, rules, used, cmd, tgt, info, polls, mbad>>

\* remove_cgroup: rmdir fails while the cgroup has members.
RemoveCgroup(p) ==
    /\ At(p, "rmcgroup", "rmmeta")
    /\ \/ /\ Members(tgt[p]) = {}
          /\ cg' = [cg EXCEPT ![tgt[p]] = FALSE]
          /\ UNCHANGED <<bad, faults>>
       \/ Members(tgt[p]) = {} /\ Spoil(p) /\ UNCHANGED cg
       \/ /\ Members(tgt[p]) # {}
          /\ bad' = [bad EXCEPT ![p] = TRUE]
          /\ UNCHANGED <<cg, faults>>
    /\ UNCHANGED <<meta, starts, overtaken, init, work, net, rules, used, cmd, tgt, info, polls, mbad>>

\* Mutant of RemoveInfo: metadata is removed whatever failed.
RemoveInfoAlways(p) ==
    /\ pc[p] = "rmmeta"
    /\ Leave(p)
    /\ meta' = [meta EXCEPT ![tgt[p]] = None]
    /\ UNCHANGED <<host, faults>>

\* remove_status_info, only when nothing failed.
RemoveInfo(p) ==
    /\ pc[p] = "rmmeta"
    /\ Leave(p)
    /\ meta' = IF bad[p] THEN meta ELSE [meta EXCEPT ![tgt[p]] = None]
    /\ UNCHANGED <<host, faults>>

\* The metadata file, the cgroup or the init process a command needs is gone.
GiveUp(p) ==
    \/ meta[tgt[p]] = None /\ (Fails(p, "read") \/ Fails(p, "reread"))
    \/ ~cg[tgt[p]] /\ (Fails(p, "join") \/ Fails(p, "fork"))
    \/ /\ pc[p] \in {"join", "joined"}
       /\ init[tgt[p]] # "running" \/ info[p].start # starts[tgt[p]]
       /\ Fails(p, "join") \/ Fails(p, "joined")

\* A call that changes nothing fails, and with it the command.
CommandError(p) ==
    \E place \in {"read", "refresh", "term", "poll", "kill", "killpoll", "reread",
                  "rewrite", "join", "fork", "joined", "rmmeta"} : Fails(p, place)

-----------------------------------------------------------------------------
\* The init process ends.  A foreground run is its parent and has yet to wait
\* for it; otherwise the host's init has adopted it and reaps it.
InitExits(c) ==
    /\ init[c] = "running"
    /\ init' = [init EXCEPT ![c] =
                  IF \E p \in Procs : Parent(p, c) THEN "zombie" ELSE "gone"]
    /\ UNCHANGED <<meta, starts, overtaken, cg, work, net, rules, used, pc, frame, faults>>

\* The network namespace ends with its last process and takes c's interface
\* with it.
NetnsGone(c) ==
    /\ init[c] \in {"zombie", "gone"}
    /\ ~\E p \in Procs : pc[p] = "inside" /\ tgt[p] = c
    /\ net[c] # None
    /\ net' = [net EXCEPT ![c] = None]
    /\ UNCHANGED <<meta, starts, overtaken, init, cg, work, rules, used, pc, frame, faults>>

\* The command run by exec and its worker have ended.
GuestEnds(p) == Fails(p, "inside")

\* A CLI process, or the worker of an exec, is killed.
Crash(p) ==
    /\ pc[p] # "idle"
    /\ Leave(p)
    /\ init' = [init EXCEPT ![tgt[p]] = IF Parent(p, tgt[p]) /\ @ = "zombie" THEN "gone" ELSE @]
    /\ UNCHANGED <<meta, starts, overtaken, cg, work, net, rules, used, faults>>

\* The host goes down and comes up again.  Processes, mounts, cgroups,
\* interfaces and iptables rules are gone; the runtime directory is not.
Reboot ==
    /\ faults < MaxFaults
    /\ faults' = faults + 1
    /\ init' = [c \in Names |-> IF init[c] = "none" THEN "none" ELSE "gone"]
    /\ cg' = [c \in Names |-> FALSE]
    /\ work' = [c \in Names |-> IF work[c] = "absent" THEN "absent" ELSE "unmounted"]
    /\ net' = [c \in Names |-> None]
    /\ rules' = {}
    /\ pc' = [p \in Procs |-> "idle"]
    /\ info' = [p \in Procs |-> None]
    /\ polls' = [p \in Procs |-> 0]
    /\ bad' = [p \in Procs |-> FALSE] /\ mbad' = [p \in Procs |-> FALSE]
    /\ cmd' = [p \in Procs |-> "none"]
    /\ UNCHANGED <<meta, starts, overtaken, used, tgt>>

Command(p) ==
    \E c \in Names : Run(p, c) \/ \E k \in {"refresh", "stop", "rm", "exec"} : Begin(p, c, k)

Stop(p) ==
    SigTerm(p) \/ PollEmpty(p) \/ PollAgain(p) \/ PollOut(p) \/ SigKill(p)
        \/ UpdateRead(p) \/ UpdateWrite(p)

Remove(p) ==
    Unmount(p) \/ UnmapPorts(p) \/ Disconnect(p) \/ ReleaseIp(p) \/ RemoveDir(p)
        \/ RemoveCgroup(p) \/ RemoveInfo(p)

Progress(p) ==
    \/ Wait(p) \/ ReadInfo(p) \/ RefreshKeeps(p) \/ RefreshWrites(p) \/ GiveUp(p)
    \/ Stop(p) \/ Remove(p) \/ FindInit(p) \/ JoinCgroup(p) \/ EnterNamespaces(p)

Next ==
    \/ \E p \in Procs : Command(p) \/ Progress(p) \/ CommandError(p) \/ GuestEnds(p) \/ Crash(p)
    \/ \E c \in Names : InitExits(c) \/ NetnsGone(c)
    \/ Reboot

Spec == Init /\ [][Next]_vars

\* A process that can run does run; no call need fail.  Nothing makes the user's
\* commands end.
FairSpec == Spec /\ \A p \in Procs : WF_vars(Progress(p))

-----------------------------------------------------------------------------
\* When the metadata says STOPPED or EXITED the container's init process has
\* ended, although stop, the refreshes and a foreground run write it from
\* copies they read at different times, and although the name may have been
\* removed and run again before or while a stop polls or an exec is on its way.
\* Only a run that overtakes a command which is past its last look excuses.
StatusIsSound ==
    \A c \in Names \ overtaken :
        meta[c] # None /\ meta[c].status # "RUNNING" => init[c] # "running"

\* As long as anything of a container is left, a process or its address in the
\* networks file included, the metadata by which rm can be repeated is there,
\* whatever failed, crashed, ran at the same time or survived a reboot, and
\* however often the name is run again, with the same excuse.
MetadataOutlivesResources ==
    /\ \A c \in Names \ overtaken :
          \/ work[c] # "absent" \/ cg[c] \/ net[c] # None \/ Members(c) # {}
          \/ \E a \in Addresses : <<a, c>> \in rules
          => meta[c] # None
    /\ overtaken = {} => \A a \in used : \E c \in Names : meta[c] # None /\ meta[c].ip = a

\* Again and again a process is idle, waits in the foreground for a container of
\* its own or is the worker of an exec whose command lasts: every other command
\* returns, although what runs in the container may ignore every signal and
\* processes may come into its cgroup.
CommandsReturn ==
    \A p \in Procs : []<>(pc[p] \in {"idle", "fg", "inside"})

\* Metadata kept after an incomplete rm can be used to retry it: a container
\* that runs keeps its address marked used, and its port rules, while the rm
\* of another one is retried.
RunningKeepsAddress ==
    \A c \in Names : init[c] = "running" => net[c] \in used /\ <<net[c], c>> \in rules

Whole(c) == work[c] = "mounted" /\ net[c] # None /\ meta[c] # None

\* A container that runs has its root, its interface and its metadata: the rm,
\* refresh, stop or foreground wait of an earlier container of the name, and an
\* rm of its own while another command records its end, take nothing away from
\* it, unless its run overtook them.
RunningIsWhole == \A c \in Names \ overtaken : init[c] = "running" => Whole(c)

\* rm refuses a running container: it is whole whichever commands on an earlier
\* container of the name are still at work.
RmSparesRunning == \A c \in Names : init[c] = "running" => Whole(c)
=============================================================================
