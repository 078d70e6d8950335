# A TLA+ verification of tinydocker

tinydocker has no daemon. Every command is a short-lived root process; what the
commands share are files under the runtime directory and kernel resources
(mounts, cgroups, interfaces, iptables rules) found by name. What goes wrong
goes wrong *between* system calls of different processes, at failing calls, at
processes that die, and at the limits of fixed-size records. That is what these
modules model.

## The system's parts

| Part | State it keeps | Operations | Interacts through | Modules |
|---|---|---|---|---|
| Network state (`docker/network.c`, `core/network_state.c`) | the networks file, `networks.lock`, temporary files | `add_network_info`, `delete_network_info`, `alloc_new_ip`, `release_used_ip`, lock-free readers | called by run, rm, network create/rm | `NetworkRecords`, `Ipam`, `NetworkState` |
| Bridges (`create_network`, `delte_network`, `create_default_bridge`, `init_docker_env`) | bridge interfaces, records, the MASQUERADE rule | create, remove, ensure | networks file, interface names and aliases | `Bridge` |
| Image cache (`create_readonly_layer`, `extract_tar`, `init_runtime_dirs`) | extracted images, temporary directories | hash, extract, publish by rename | directory names | `ImageCache` |
| Container start (`docker_run`, `child_fn`, `workspace.c`, `volumes.c`, `cgroup.c`, `connect_container`) | workspace, overlay and bind mounts, cgroup, address, veth pair, DNAT rules, metadata; the child and the pipe to it | some twenty acquisitions in order, `cleanup_run_failure` | pipe, names, the networks file | `ContainerRun` |
| Lifecycle (`docker_stop`, `docker_rm`, `docker_exec`, status refresh) | metadata file | poll and signal a cgroup, dismantle a container, join its namespaces, rewrite its status | metadata (no lock), cgroup membership, names | `ContainerLifecycle` |
| Command line and metadata text (`cmdparser/`, `main.c`, `core/safety.c`, `core/status_codec.c`) | the arguments; the metadata file | parse, validate, dispatch, write, read back | metadata written by run, read by rm | `Validators`, `StatusCodec`, `Configuration` |
| Helpers (`process.c`, `fs.c`, `utils.c`) | none | fork/exec, recursive removal, mkdir, digest | called everywhere | steps of their callers |

What makes each correct: the networks file must behave as an atomic table and
never lease an address twice; a network must be a bridge *and* a record or
neither; a published image must be complete and never change; a user command
must run only in a complete, confined environment, and a failed start must
leave nothing behind; the recorded status must be true, `rm` must never touch a
running container, and the metadata must outlive whatever it describes and
describe all of it. `PROJECT.json` lists the hazards line by line.

## The modules

### NetworkRecords, Ipam, NetworkState

`NetworkRecords` is the data: a record array as a function from network names
to records (the loader enforces unique names, so order is unobservable), used
addresses as sets, the validity checks of the loader, the candidate range of
`alloc_new_ip`, and the edits.

`Ipam` is what the commands rely on: every operation acts once, atomically,
between its call and its return; a failed one changes nothing; a process may
die at any time.

`NetworkState` is what the code does: `Lock` (flock), `Load` (the whole file),
`WriteTemp` (a temporary file under one of `MaxAttempts` names made from the
pid), `Publish` (rename), `Close` (drops the lock), the error exit of each
step, the lock-free `Read`, and `Crash`, which drops the lock and leaves the
temporary file. `leased` is a history variable: the addresses that are out, in
the callers' view. `Abstract == INSTANCE Ipam` maps a call to its rename (or to
the point where it turns back).

`Permanent` are networks that nobody removes while the system runs. The lease
properties are about those: `network rm` of a network in use forgets its leases
and is allowed by the code.

### Bridge

A network is two things that no transaction joins: a bridge interface, which
the kernel forgets at a reboot, and a record, which outlives it. `Bridge` takes
`create_network`, its three rollbacks, `delte_network`, `delete_owned_bridge`
and `init_docker_env` apart into their calls, and uses `NetworkRecords` for the
file, whose operations are single steps, as `Ipam` promises and `NetworkState`
is shown to keep. An interface is known by its index; `owned` is the alias
`tinydocker-network:<name>`, `addrs` and `up` what `ip` sets. `after` is the
place that called `delete_owned_bridge`. `scars` remembers, for each network,
what excuses it from being whole: a failed deletion, a crash, a reboot, an rm
that overlapped another command, an administrator's interference. The
environment contributes crashes, reboots and bridges an administrator makes
under one of our names, at any instant and also in place of the bridge there
is. The code looks at index and alias twice before it deletes; `Sightless` are
the places between a look and the call based on it, and `blind` remembers the
commands that a foreign bridge caught there, against which the code has no check.

### ImageCache

One process is one `run` up to its read-only layer. A directory is the set of
archives whose files are in it and whether the last extraction was completed.
The digest of a file is its content; a read error in `calculate_sha256` yields
the digest of a part (`Cut`). A process that begins again stands for a new
process with the same PID, which therefore meets its predecessor's temporary
directory. `errno` is what the file system says to a rename onto a directory
with something in it; the code accepts only `EEXIST`.

### ContainerRun

One `docker_run` is a sequence of places (`pc`), each action the call made
there. `layers` is the stack on the mountpoint, each layer with the volumes
bound in it; `cgroup` and `veth` record who made them; `created`, `pending`,
`ip`, `named`, `unclean` are `state.cgroup.created`, `str_ip`, `ip_addr`,
`mountpoint[0]` and `mount_cleanup_failed`. The child is a process of its own:
initialising, blocked on the pipe, running the user's command, dead, reaped. A
setup call may fail at will; undoing calls fail at most `MaxFaults` times. The
runner may be killed, and dies of SIGPIPE unless it inherited an ignored one.
Several runners run *the same* name; runs of different names meet only in the
address table. The allocation is one step, as `Ipam` promises; the image is one
step, which `ImageCache` takes apart.

### ContainerLifecycle

Processes issue run, stop, rm, exec and refresh (ps, inspect, stats) and
then proceed call by call. `info[p]` is the process's copy of the metadata,
possibly stale. `starts` counts the runs of a name and stands for pid and start
time of the init process. `Committed` are the places where a command has seen
how its container is and will write or remove what it finds under the name
without another look: the foreground wait, a refresh's and an update's rewrite,
and all of rm's clean-up. `overtaken` is a history variable: the names that were
run again while some command was there. An exec worker is a cgroup member outside the
container's PID namespace. `docker_run` is one step with the outcome that
`StartedComplete` establishes. A crash ends a command anywhere; a reboot ends
every process and takes mounts, interfaces, rules and cgroups, while workspace,
metadata and the recorded address stay.

### Validators, StatusCodec, Configuration

`Validators` are the pure checks of `core/safety.c` over texts abstracted to
what they look at: length, bytes, line breaks, path components. The CIDR mask
is computed with the width of the type. `StatusCodec` is the metadata text as a
sequence of lines: `create_container_info` with its field sizes and its 32
volumes, the writer, which refuses line breaks, and the strict parser.

`Configuration` follows one command line: `Token` is argp's next token, `Offer`
the parse function (all that stands behind IMAGE belongs to the command),
`EndOfLine` the checks and main's switch. A run then mounts its volumes and
writes the metadata; the file may be damaged; `rm` reads it, parses every
volume again and unmounts backwards. Everything succeeds here that only the
environment could make fail.

## Runs

| Run | Instance | Checks |
|---|---|---|
| `network` | 2 processes, 2 networks (one permanent), a /29, limits of 1 record and 2 addresses, 4 calls, 1 temporary name | `MutualExclusion`, `CopyIsCurrent`, `FileStaysLoadable`, `LeaseIsRecorded`, `NoDoubleLease`, `CallsReturn`, refinement of `Ipam` |
| `bridge` | 2 processes, the default network with its own and another CIDR, 3 commands, 3 interfaces, 1 fault, 1 crash, 1 reboot | `NetworkIsWhole`, `EnvironmentIsReady`, `ForeignSpared` |
| `image_cache` | 2 PIDs, 3 runs, one image file with 4 possible contents, a directory image, 1 fault, 1 crash, 1 replacement | `CacheIsWhole`, `RunGetsItsImage`, `PublishedIsStable`, `FailureHasCause`, `NothingLeftBehind` |
| `run_single` | 1 run, 2 volumes, 2 ports, 3 faults | `StartedComplete`, `RollbackComplete`, `NoRemovalUnderMount`, `MountsAreAccountable`, `OrphanEnds`, `RunReturns` |
| `run_pair` | 2 runs of one name, 1 fault | `StartedConfined`, `AddressesHeld`, `CgroupOwnership` |
| `lifecycle` | 2 processes, 1 name started twice, 1 fault or reboot, any crashes | `StatusIsSound`, `RunningIsWhole`, `MetadataOutlivesResources`, `CommandsReturn` |
| `configuration` | every command, up to 5 tokens, limits of 2 to 4 | `ParsedAsMeant`, `RefusedIffUnfit`, `MetadataReadsBack`, `DamageIsNoticed`, `RmUnmountsAll`, `CidrIsBlock` |
| `run_sigpipe` | 1 run | violates `ReleaseFailureRollsBack` |
| `run_shortname` | 1 run, a name of 4 characters | violates `ValidNameGetsVeth` |
| `lifecycle_retry` | 1 process, 2 names, 2 addresses, 1 fault | violates `RunningKeepsAddress` |
| `lifecycle_reuse` | 2 processes, 1 name started twice | violates `RmSparesRunning` |
| `bridge_reboot` | 1 process, 2 commands, 1 reboot | violates `DefaultEnsured` |

The last five state what a document of the repository says and show that the
code does otherwise; the findings in `PROJECT.json` quote the lines.

What the passing runs say, beyond the names:

- **Networks.** `NetworkIsWhole`: whenever no command works on a name, there is
  an owned bridge, up and with the recorded gateway address, exactly when there
  is a record, however many creates and runs raced and whatever call of theirs
  failed; only a failed deletion, a crash, a reboot, an overlapping rm or an
  administrator who interferes is an excuse. `ForeignSpared`: a bridge that
  somebody else made stays as it is, also when it replaces the network's bridge
  while a create, an rm or a rollback is under way, unless it caught the command
  behind its last look. `EnvironmentIsReady`: what `init_docker_env` read of record, alias and
  rule still holds when it returns. It does not say that the adopted bridge
  already has its address: a run may adopt it one step before its creator sets
  it. Nor does it hold when the creator of an adopted bridge fails and takes it
  away again.
- **Images.** A crash, a failing call, a reused PID or a replaced file never
  publishes a part or a mixture. A run gets its own image unless the file is
  swapped under its hands or a read error shortens the digest. Where rename
  says `ENOTEMPTY`, the loser of a race fails, and of two first runs one may
  fail over a directory that the other just made; `FailureHasCause` states that
  nothing else fails a run of a good image.
- **Containers.** A status other than RUNNING is true, a running container has
  its root, its interface and its metadata, and whatever is left of a container
  has metadata, also when the name is removed and run again while stops poll,
  execs are on their way and rms or refreshes are about to read. What the code
  does not withstand is a run that overtakes a command past its last look:
  `lifecycle_reuse` shows an rm dismantle the next container of the name.
- **Command lines.** Accepted means taken as written; refused means unfit:
  although argp's own errors are ignored, none lets half a command line
  through. Of an environment value with an `=` of its own only the first part
  arrives.
- **Metadata.** Undamaged, it reads back as written; a lost or doubled line is
  noticed, except for the start time, which older versions did not write. `rm`
  unmounts all volumes unless there were more than 32.

**Bounds.** Two processes suffice for every race over the networks file, since
the lock is the only thing they wait for; both limits are reached, and four
calls allow create, allocate, release and allocate again. The smallest network,
a /30, is covered by the theorem `Loadable`. Two processes with three commands
on one network give every pairing of create, run and rm, and a third command
that meets what they left; three interfaces let a bridge be made, replaced and
made again; one fault sets off each rollback, or fails any step of an rm's
deletion, which is the routine the rollbacks use, or the end of a rollback that a
vanished interface set off; a fault within the rollback of another is left to
`Agreement`, which holds for any number of them; different networks share only the record limit. In the cache, the third
run meets what a crashed one left under its PID. Two volumes and ports let a loop fail in its middle; three faults let every kind of
clean-up fail together with another. Two runs of one name give every pairing of
one run's rollback with another's progress. Two lifecycle processes and two starts
give every pair of commands on a name, and every command with the removal and
the next run of its name before, during or after each of its steps; the theorems
hold for any number of processes and starts. The limits of `configuration` are
scaled down (2 recorded volumes for 32, 3 options for 128, 3 address bits for
32) with a representative of every kind of text on each side of its limit.
Symmetry is used in safety runs only, over values no module tells apart.
`MaxCalls`, `MaxCommands`, `MaxLinks`, `MaxRuns`, `MaxChanges`, `MaxCrashes`,
`MaxReboots`, `MaxStarts` and `MaxFaults` are bounds of the instance and appear
in guards; `MaxPolls`, `MaxAttempts` and `MaxCapture` stand for limits of the
code. Deadlock is not checked: the commands of an instance are finite and the
system may stop.

**Fairness.** Weak fairness of each process: a process that can take its next
step is eventually scheduled. In `NetworkState` the failing flock is excluded
from it, so that an error is not the way out of waiting; calls are finite, so a
waiting process is not overtaken for ever, although flock is not fair. In
`ContainerRun` the child is fair until it runs the user's command, which may
last for ever and may ignore every signal; `stop` ends because it gives up. The
same holds of exec's command in `ContainerLifecycle`. `Bridge`, `ImageCache`
and `Configuration` have no loops and wait for nothing, so that nothing is
claimed of their progress.

**Limits of what the lifecycle run shows.** A name in `overtaken` is set aside
in `StatusIsSound`, `RunningIsWhole` and `MetadataOutlivesResources`: there they
are false, as `lifecycle_reuse` shows for rm. A refresh or stop that read the
metadata before an rm removed it writes it back, which no property excludes.
`NoRemovalUnderMount` is about one runner of a name: with two their overlays
stack on one mountpoint and it fails. The repository's README and study guide
concede that there is no lock across lifecycle commands.

## Proofs

TLAPS proves the following for all constants that satisfy the named
assumptions.

`NetworkStateProofs` rests on `IInv`: type correctness, mutual exclusion, the
loaded copy equals the file and the temporary file is its edit
(`CopyIsCurrent`), the file is loadable, leases are recorded, and four facts
that make this inductive: the number of left-over temporary files is below the
limit while one is being written, a permanent network that has a record keeps
it, the reply is unset until the edit, and a release in progress concerns an
address that is no longer leased and that no other release concerns. From it:
`TypeCorrect`, `Exclusion`, `NoLostUpdate`, `Loadable`, `Recorded`,
`NeverLeasedTwice` and `Refinement` (`Spec => ImplementsIpam`). Exclusion alone
gives no lost update only because every writer loads, edits and renames inside
the lock; the release fact is needed because `release_used_ip` carries its
address from before the lock is taken. `Loadable` needs cardinalities: an edit
adds at most one element, and only below the limit.

`ContainerRunProofs` rests on `RInv`: `created` implies ownership of the cgroup;
a runner between cgroup and release owns it; before the clone there is no
child, after the kill no living one; a living child's run owns the cgroup, and
from `cgroup_apply` on, or with the byte in its pipe, the child is inside it; a
user command has its byte; addresses are held in `str_ip` or `ip_addr` only
where the code says. From it, for any number of runs of one name: `RunTyped`,
`Confinement`, `AddressSafety` and `Ownership`. Steps that only move on are one
lemma (`MoveRInv`); every other action has its own.

`SingleRunProofs` adds to `RInv` what is true of the *only* run of a name
(`Runners = {r}`): `SInv(r)`, which says of each resource in which places of
`docker_run` it is there, and behind which place of the rollback it is gone
unless an undoing call failed. `WorkspaceInOrder` (layers, volumes and what
`mount_cleanup_failed` says about them), `AuthorisedLast` (after the byte the
run only waits, so that what was complete then stays),
`CgroupInOrder`, `LeaseInOrder`, `PairInOrder`, `RulesInOrder`,
`MetadataInOrder`. From it: `StartComplete` (a started container has
everything), `FullRollback` (a failed run leaves nothing but what a failing undo
left), `NoHarm` (no directory is removed under a mount) and `AccountableMounts`.
The hypothesis is needed: with two runners the overlays of both stack on one
mountpoint and the conclusion of `NoHarm` is false.

`ContainerLifecycleProofs` rests on `LInv`, whose parts are conditional on
`Alone(c)`, that no run of the name overtook a command. A command has a copy
of the metadata wherever it uses one (`InfoInOrder`); the metadata, and every
copy in use, is of the name's last run (`Current`); whoever says or has seen that the container ended, in the metadata, in a copy of it or by having
passed a check, is right (`EndedIsEnded`); a running container is whole
(`RunningIsWhole`); rules, metadata and copies name one address (`OneAddress`);
an rm in which no call failed has removed what its calls so far are for
(`Dismantled`); processes are in a cgroup that is there (`MembersInCgroup`);
what is left of a container keeps its metadata, and a used address has metadata
that no rm past its release is about to remove (`ResourcesKept`, `LeaseKept`).
`Current` is what makes restarts work: a run needs that nothing of the name is
left, so that whoever was not committed then looks again before it acts. From
it, for any number of processes, names and runs: `LifecycleTyped`,
`StatusSoundness`, `RunningKept` and `MetadataLast`. Without the condition the
last three are false (see the limits above).

`BridgeProofs` rests on `BInv`. A command is responsible for an interface from
making it to finishing, or while it deletes it, and likewise for a record. As
long as nothing excuses the network, at most one command is responsible for each
(`Exclusive`), it knows what it holds (`Held`), what nobody is responsible for
is whole (`Settled`), and what a run found of the default network stands while
no call fails (`DefaultStands`). An index that a
command remembers is that of an interface made before (`Indexed`), and whoever
is past the look at a foreign bridge without our alias is `blind` or remembers
another index (`StrayApart`). From it: `BridgeTyped`, `Agreement` (`NetworkIsWhole`),
`EnvironmentReady` and `ForeignSafety`. Interface and record need separate
holders because one create may be rolling back its record while the next has
already made the bridge again.

`ImageCacheProofs` rests on `CInv`: a process between clearing and publishing
has a temporary directory no other process writes to, filled from one archive
at most and completed before the rename; every published directory was such a
one. From it: `CacheTyped`, `Wholeness`, `RightImage`, `Stability`,
`FailureReason` and `Tidiness`.

`StatusCodecProofs` is about the codec alone, for every record that
`td_write_container_info` accepts and any number of volumes. Induction is
derived as a statement about sets of numbers (`Induction`, `InductionUpTo`, from
the well-foundedness of `<`), which the provers can apply. `Reading` says of any
list of lines what the parser has got when it has passed the first k of them;
the two damaged files are described line by line (`WellFormed`, `Tells`) and the
parser is followed to the line where it refuses, or to the end. From it:
`RoundTrip`, `LossIsNoticed` (only a lost start time passes) and
`DoublingIsNoticed`.

`ConfigurationProofs` rests on `ConfInv`: the type, the parsed arguments have
theirs, and what each stage of a container knows (`Stages`): what is mounted is
what was parsed, the file has the lines of the record or one less or more, what
rm read from it is that record. From it: `ListsFit`, `MetadataFidelity`,
`DamageNoticed` and `UnmountedAll`; the last needs that taking the topmost mount
of each target, in reverse order, is taking off the end of the list
(`TopIsUnmounted`, `AllUnmounted`).

The parser of run and exec adds `ParserInv`: whatever it has read so far, it
stopped at an unknown option before IMAGE (and then knows no IMAGE, which is why
the ignored result of `argp_parse` does no harm), or it exited and what it read
has a fault, or the arguments are what the tokens so far mean and none of them is
at fault (`Reads`); and the verdict at the end of the line was that of the checks.
`OptionTaken` has one case per option, `OfferReads` one for each side of IMAGE.
From it: `Meaning` (`ParsedAsMeant`) and `Refusal` (`RefusedIffUnfit`).

`CidrBlock` (`CidrIsBlock`) is proved for every address width. The provers know
nothing of powers of two or of bits, so the model's `Pow2` doubles from one and
the facts are derived: a power divides every later one, with an even quotient
unless they are the same (`PowerDivides`); the truncated shift is
`Pow2[Width] - Pow2[Width - prefix]` (`MaskIs`), whose bits are 0 below the size
of the block and 1 above (`MaskBits`); a remainder grows by one bit at a time
(`NextBit`). By induction over the bits, the AND clears exactly the remainder by
the size of the block (`Masked`), so that the range starts at a multiple of it
and holds the address (`RangeIsBlock`). `CreateInv` says that what network create
checks are texts of its own command line.

Assumptions: ranges hold at least four addresses (`validate_cidr` admits
prefixes up to 30), limits are naturals; `None`, `NoProc`, `NoRecord`, `NoDir`,
`NoLink` and `NoWord` are none of the things they stand against, nor are an
absent veth pair or metadata record; the networks, and the volumes and ports of
a run, are finitely many; what stands on a command line is an option the parser
knows, one it does not know, or a word, and only stop has an option with a time;
the address of network create fits its width and its prefix is a number that is
not negative, unless they are no address and no number at all; the time of day is
a valid container name.

Only model-checked: the liveness properties (`CallsReturn`, `OrphanEnds`,
`RunReturns`, `CommandsReturn`), which are beyond the prover.

## Not modelled

- What commands print (`ps`, `top`, `inspect`, `stats`, `network ls`), the
  formatters of cgroup statistics and the parser of `/proc/<pid>/stat`, logging:
  text without shared state. The status refresh inside those commands is
  modelled; `top` has none.
- `commit` is one tar command over the mountpoint directory; it changes nothing
  the others see. It checks only that the directory exists.
- Signals forwarded by a foreground run: one that arrives between installing
  the handlers and setting `foreground_child_pid` is swallowed.
- `waitpid` failing in a foreground run (`container.c:672`), which returns -1
  without clean-up, as `docs/code-walkthrough.md:119` says: the child is its own
  and is waited for nowhere else.
- Legacy metadata without a start time, beyond its being accepted.
- The values of cgroup limits, the environment and the log file of a container.
- `src/test.c` is not built.

## Plan

1. Done: the networks file and its abstract table, bridges, image cache,
   container start, lifecycle, command line and metadata; the theorems above.
2. Left: only the liveness properties have no proof. Locks across lifecycle
   commands, if the code gets them, would drop the excuse `overtaken` from
   `ContainerLifecycle` and its proofs.
