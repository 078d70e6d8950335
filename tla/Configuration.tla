--------------------------- MODULE Configuration ----------------------------
(***************************************************************************)
(* What becomes of a command line: parse_docker_cmd takes it token by      *)
(* token (argp with ARGP_IN_ORDER), main dispatches it, docker_run mounts  *)
(* its volumes and writes the metadata, and a later docker_rm reads the    *)
(* metadata back and unmounts what it finds there.                         *)
(*                                                                         *)
(* A token is an option, with its value attached (-nNAME), an option that  *)
(* argp does not know, or a word; its text is one element of argv.  Here   *)
(* everything succeeds that only the environment could make fail;          *)
(* ContainerRun is about that.                                             *)
(***************************************************************************)
EXTENDS StatusCodec

CONSTANTS
    NoWord,        \* no IMAGE or CONTAINER yet
    DefaultName,   \* the time of day as a container name
    OptionMax,     \* DOCKER_RUN_OPTION_CAPACITY
    ArgMax,        \* DOCKER_RUN_ARG_CAPACITY
    CpuMin,        \* 1000
    IntMax,        \* INT_MAX
    TimeMax,       \* 3600
    Tokens         \* bound: Tokens[c][i] is what may stand in place i after command c

ASSUME CapacityAssumption ==
    {OptionMax, ArgMax, RecordedMax, PathMax, VolumeMax, Width} \subseteq Nat \ {0}

Commands == DOMAIN Tokens

Options == {"v", "p", "e", "i", "tty", "d", "c", "m", "t", "n", "unknown", "word"}

\* A text is not the absence of one, a number is a number, an address fits its
\* width, and only stop waits for a time.
ASSUME TokensAssumption ==
    \A c \in Commands :
        /\ Tokens[c] \in Seq(SUBSET UNION ToSet(Tokens[c]))
        /\ \A t \in UNION ToSet(Tokens[c]) :
              /\ t.opt \in Options /\ t.text # NoWord
              /\ t.opt = "e" => t.parts \in Seq(ToSet(t.parts))
              /\ t.opt = "t" => c = "stop"
              /\ c = "network create" =>
                    /\ t.text.address \in {NaN} \cup 0 .. Pow2[Width] - 1
                    /\ t.text.prefix \in {NaN} \cup Nat

ASSUME DefaultNameAssumption == ValidName(DefaultName)

VARIABLES
    pc,       \* where the command, or the container it made, is
    cmd,      \* argv[1]
    argv,     \* what followed it so far
    args,     \* the arguments structure
    mounted,  \* volumes mounted in the container's root, the last one on top
    file,     \* the lines of the metadata file
    damaged,  \* something else than tinydocker changed the file
    info      \* what rm read from it

vars == <<pc, cmd, argv, args, mounted, file, damaged, info>>

Fresh ==
    [volumes |-> <<>>, ports |-> <<>>, env |-> <<>>, detach |-> FALSE, interactive |-> FALSE,
     tty |-> FALSE, cpu |-> NaN, memory |-> NaN, time |-> NaN, name |-> DefaultName, image |-> NoWord,
     argv |-> <<>>, stopped |-> FALSE, error |-> FALSE]

Init ==
    /\ pc = "parse"
    /\ cmd \in Commands
    /\ argv = <<>>
    /\ args = Fresh
    /\ mounted = <<>>
    /\ file = <<>>
    /\ damaged = FALSE
    /\ info = NoInfo

-----------------------------------------------------------------------------
(***************************************************************************)
(* The parse functions.  error is their exit(-1); stopped, that argp gave  *)
(* up at a token it does not know, which argp_parse's caller ignores.      *)
(***************************************************************************)
Failed(a) == [a EXCEPT !.error = TRUE]

\* Mutant of Listed: one more than there is room for.
ListedOneMore(a, field, ok, value) ==
    IF Len(a[field]) > OptionMax \/ ~ok THEN Failed(a)
    ELSE [a EXCEPT ![field] = Append(@, value)]

\* An option that may be given OptionMax times.
Listed(a, field, ok, value) ==
    IF Len(a[field]) >= OptionMax \/ ~ok THEN Failed(a)
    ELSE [a EXCEPT ![field] = Append(@, value)]

Number(a, field, ok, value) == IF ok THEN [a EXCEPT ![field] = value] ELSE Failed(a)

\* parse_key_val_pair: strtok leaves what is not empty between the "=" signs, of
\* which the first two are taken.
KeyValPair(parts) == SubSeq(parts, 1, 2)

\* docker_run_parse_func and docker_exec_parse_func on an option; "t" is stop's
\* -t, "tty" that of exec.
Option(a, t) ==
    CASE t.opt = "v" -> Listed(a, "volumes", ParseVolume(t.volume) # BadVolume, ParseVolume(t.volume))
      [] t.opt = "p" -> Listed(a, "ports", ValidPorts(t.ports), t.ports)
      [] t.opt = "e" -> Listed(a, "env", Len(t.parts) >= 2, KeyValPair(t.parts))
      [] t.opt = "i" -> [a EXCEPT !.interactive = TRUE]
      [] t.opt = "tty" -> [a EXCEPT !.tty = TRUE]
      [] t.opt = "d" -> [a EXCEPT !.detach = TRUE]
      [] t.opt = "c" -> Number(a, "cpu", InRange(t.number, CpuMin, IntMax), t.number)
      [] t.opt = "m" -> Number(a, "memory", InRange(t.number, 1, IntMax), t.number)
      [] t.opt = "t" -> Number(a, "time", InRange(t.number, 0, TimeMax), t.number)
      [] t.opt = "n" -> [a EXCEPT !.name = t.name]
      [] t.opt = "unknown" -> [a EXCEPT !.stopped = TRUE]

\* An element of the command's argv, of which the last is NULL.
Argument(a, t) ==
    IF Len(a.argv) >= ArgMax - 1 THEN Failed(a) ELSE [a EXCEPT !.argv = Append(@, t)]

\* Mutant of Offer: what follows IMAGE is looked at again.
OfferAlways(a, t) ==
    IF t.opt = "word"
    THEN IF a.image = NoWord THEN [a EXCEPT !.image = t.text] ELSE Argument(a, t.text)
    ELSE IF a.image = NoWord THEN Option(a, t) ELSE Argument(Option(a, t), t.text)

\* The first word is IMAGE (CONTAINER); the loop takes all that follows it as
\* it is.  argp offers it once more, and the function returns at once.
Offer(a, t) ==
    IF a.image # NoWord THEN Argument(a, t.text)
    ELSE IF t.opt = "word" THEN [a EXCEPT !.image = t.text]
    ELSE Option(a, t)

\* docker_stop_parse_func: from the first word on, all are names.
OfferStop(a, t) ==
    IF Len(a.argv) > 0 \/ t.opt = "word" THEN [a EXCEPT !.argv = Append(@, t.text)]
    ELSE Option(a, t)

\* argp_parse, one token.
Token(t) ==
    /\ pc = "parse" /\ ~args.error
    /\ Len(argv) < Len(Tokens[cmd]) /\ t \in Tokens[cmd][Len(argv) + 1]
    /\ argv' = Append(argv, t)
    /\ args' = IF args.stopped THEN args
               ELSE CASE cmd = "stop" -> OfferStop(args, t)
                      [] cmd \in {"run", "exec"} -> Offer(args, t)
                      [] OTHER -> [args EXCEPT !.argv = Append(@, t.text)]
    /\ UNCHANGED <<pc, cmd, mounted, file, damaged, info>>

-----------------------------------------------------------------------------
\* Mutant of Accepts: -d and -i together pass.
AcceptsBoth(a) == a.image # NoWord /\ Len(a.argv) >= 1 /\ ValidName(a.name)

\* docker_run_cmd_check and the name.
Accepts(a) ==
    /\ ~(a.detach /\ a.interactive)
    /\ a.image # NoWord /\ Len(a.argv) >= 1
    /\ ValidName(a.name)

AllNames(s) == \A i \in DOMAIN s : ValidName(s[i])

NetworkWellCalled ==
    CASE cmd = "network create" ->
            Len(args.argv) = 2 /\ ValidNetworkName(args.argv[1]) /\ ValidCidr(args.argv[2])
      [] cmd = "network rm" ->
            Len(args.argv) >= 1 /\ \A i \in DOMAIN args.argv : ValidNetworkName(args.argv[i])
      [] OTHER -> cmd = "network ls"

\* The other commands look at argc, and at every name.
WellCalled ==
    CASE cmd = "run" -> Accepts(args)
      [] cmd = "exec" -> args.image # NoWord /\ Len(args.argv) > 0 /\ ValidName(args.image)
      [] cmd = "stop" -> Len(args.argv) > 0 /\ AllNames(args.argv)
      [] cmd = "rm" -> Len(args.argv) >= 1 /\ AllNames(args.argv)
      [] cmd = "commit" -> Len(args.argv) \in 1 .. 2 /\ ValidName(args.argv[1])
      [] cmd \in {"top", "inspect", "stats"} -> Len(args.argv) = 1 /\ ValidName(args.argv[1])
      [] cmd = "ps" -> Len(args.argv) <= 1
      [] OTHER -> NetworkWellCalled

\* The command line ends: exit(-1), or main's switch.
EndOfLine ==
    /\ pc = "parse"
    /\ pc' = IF ~args.error /\ WellCalled THEN "accepted" ELSE "refused"
    /\ UNCHANGED <<cmd, argv, args, mounted, file, info, damaged>>

\* docker_run: mount_volumes, in their order.
MountVolumes ==
    /\ pc = "accepted" /\ cmd = "run"
    /\ pc' = "mounted"
    /\ mounted' = args.volumes
    /\ UNCHANGED <<cmd, argv, args, file, info, damaged>>

\* write_run_metadata; when it fails, cleanup_run_failure unmounts them all.
WriteMetadata ==
    LET made == CreateInfo(args)
        text == IF made = NoInfo THEN NoInfo ELSE WriteInfo(made)
    IN /\ pc = "mounted"
       /\ \/ text # NoInfo /\ pc' = "running" /\ file' = text /\ UNCHANGED mounted
          \/ text = NoInfo /\ pc' = "rolledback" /\ mounted' = <<>> /\ UNCHANGED file
       /\ UNCHANGED <<cmd, argv, args, info, damaged>>

\* The file loses a line, or has one twice.
Damage ==
    /\ pc = "running" /\ ~damaged
    /\ damaged' = TRUE
    /\ \E i \in DOMAIN file : file' = RemoveAt(file, i) \/ file' = InsertAt(file, i, file[i])
    /\ UNCHANGED <<pc, cmd, argv, args, mounted, info>>

\* docker_rm: read_container_info, then every volume is parsed again ...
ReadMetadata ==
    LET read == ParseInfo(file, args.name)
    IN /\ pc = "running"
       /\ info' = read
       /\ pc' = IF read = NoInfo THEN "unreadable"
                ELSE IF \E i \in DOMAIN read.volumes : ParseVolume(read.volumes[i]) = BadVolume
                THEN "corrupt" ELSE "read"
       /\ UNCHANGED <<cmd, argv, args, mounted, file, damaged>>

\* ... and umount_volumes goes through them backwards: each umount takes the
\* topmost mount of its target.
Unmount(s, target) ==
    LET on == {i \in DOMAIN s : s[i].container = target}
    IN IF on = {} THEN s ELSE RemoveAt(s, CHOOSE i \in on : \A j \in on : j <= i)

UnmountAll(volumes, s) ==
    LET n == Len(volumes)
        left[k \in 0 .. n] ==
            IF k = 0 THEN s
            ELSE Unmount(left[k - 1], ParseVolume(volumes[n + 1 - k]).container)
    IN left[n]

\* The root follows, if nothing is mounted in it.
UnmountVolumes ==
    /\ pc = "read"
    /\ mounted' = UnmountAll(info.volumes, mounted)
    /\ pc' = IF mounted' = <<>> THEN "removed" ELSE "busy"
    /\ UNCHANGED <<cmd, argv, args, file, info, damaged>>

Next ==
    \/ \E t \in UNION ToSet(Tokens[cmd]) : Token(t)
    \/ EndOfLine \/ MountVolumes \/ WriteMetadata \/ Damage \/ ReadMetadata \/ UnmountVolumes

Spec == Init /\ [][Next]_vars

-----------------------------------------------------------------------------
\* Every list stays within what was allocated for it, the NULL of the argv
\* included.  (Not stop's: see the hazards.)
TypeOK ==
    /\ cmd \in Commands /\ argv \in Seq(UNION ToSet(Tokens[cmd]))
    /\ pc \in {"parse", "refused", "accepted", "mounted", "rolledback", "running",
              "unreadable", "corrupt", "read", "removed", "busy"}
    /\ damaged \in BOOLEAN
    /\ \A f \in {"volumes", "ports", "env"} : Len(args[f]) <= OptionMax
    /\ cmd \in {"run", "exec"} => Len(args.argv) + 1 <= ArgMax
    /\ info # NoInfo => Len(info.volumes) <= RecordedMax

\* Where IMAGE or CONTAINER stands, and the options before it.
Words(s) == {i \in DOMAIN s : s[i].opt = "word"}
First(s) == CHOOSE i \in Words(s) : \A j \in Words(s) : i <= j
Before(s) == IF Words(s) = {} THEN s ELSE SubSeq(s, 1, First(s) - 1)

Picking(s, opt) ==
    LET picked[i \in 0 .. Len(s)] ==
            IF i = 0 THEN <<>>
            ELSE IF s[i].opt = opt THEN Append(picked[i - 1], s[i]) ELSE picked[i - 1]
    IN picked

Picked(s, opt) == Picking(s, opt)[Len(s)]

Given(opt) == Picked(Before(argv), opt)

\* What the caller means by a run: the options before IMAGE, each list in the
\* order given, the last of the others; IMAGE; and behind it, untouched, a
\* command whose words may look like options.  An accepted command line has
\* been taken that way, whatever stood where.  (Of a value with an "=" of its
\* own only the first part arrives.)
ParsedAsMeant ==
    pc \notin {"parse", "refused"} /\ cmd \in {"run", "exec"} =>
        /\ Words(argv) # {}
        /\ args.image = argv[First(argv)].text
        /\ args.argv = [i \in 1 .. Len(argv) - First(argv) |-> argv[First(argv) + i].text]
        /\ args.volumes = [i \in DOMAIN Given("v") |-> ParseVolume(Given("v")[i].volume)]
        /\ args.ports = [i \in DOMAIN Given("p") |-> Given("p")[i].ports]
        /\ Len(args.env) = Len(Given("e"))
        /\ \A i \in DOMAIN args.env :
              Len(Given("e")[i].parts) = 2 => args.env[i] = Given("e")[i].parts
        /\ args.detach = (Given("d") # <<>>) /\ args.interactive = (Given("i") # <<>>)
        /\ args.tty = (Given("tty") # <<>>)
        /\ args.name = IF Given("n") = <<>> THEN DefaultName ELSE Last(Given("n")).name
        /\ args.cpu = IF Given("c") = <<>> THEN NaN ELSE Last(Given("c")).number
        /\ args.memory = IF Given("m") = <<>> THEN NaN ELSE Last(Given("m")).number

\* Nothing in the command line so far is out of its range or one too many.
Faultless ==
    /\ Words(argv) # {} => Len(argv) - First(argv) < ArgMax
    /\ \A o \in {"v", "p", "e"} : Len(Given(o)) <= OptionMax
    /\ \A t \in ToSet(Given("v")) : ParseVolume(t.volume) # BadVolume
    /\ \A t \in ToSet(Given("p")) : ValidPorts(t.ports)
    /\ \A t \in ToSet(Given("e")) : Len(t.parts) >= 2
    /\ \A t \in ToSet(Given("c")) : InRange(t.number, CpuMin, IntMax)
    /\ \A t \in ToSet(Given("m")) : InRange(t.number, 1, IntMax)

\* A command line fit for docker_run.
Fits ==
    /\ Faultless
    /\ Words(argv) # {} /\ Len(argv) > First(argv)
    /\ Given("unknown") = <<>>
    /\ Given("d") = <<>> \/ Given("i") = <<>>
    /\ Given("n") # <<>> => ValidName(Last(Given("n")).name)

\* A run is refused exactly when its command line is not fit: no option in
\* error is passed over, in whatever place, and argp's own errors, which the
\* code does not look at, never let half a command line through.  Where the
\* parser of run or exec exits half-way, what it has read has a fault.
RefusedIffUnfit ==
    /\ pc # "parse" /\ cmd = "run" => (pc = "refused" <=> ~Fits)
    /\ args.error /\ cmd \in {"run", "exec"} => ~Faultless

\* Metadata that nobody damaged reads back as the record that was written, and
\* each volume in it as the volume that was mounted, its mode included.
MetadataReadsBack ==
    /\ pc \in {"unreadable", "corrupt"} => damaged
    /\ pc = "read" /\ ~damaged =>
          /\ info = CreateInfo(args)
          /\ \A i \in DOMAIN info.volumes : ParseVolume(info.volumes[i]) = args.volumes[i]

\* A lost or doubled line is noticed, so that rm never acts on half a record:
\* only the start time, which older versions did not write, may be missing.
DamageIsNoticed ==
    pc = "read" /\ damaged => [info EXCEPT !.start = TRUE] = CreateInfo(args)

\* rm unmounts every volume of the container, also two on one target, and so
\* its root; unless there were more volumes than the metadata has room for.
RmUnmountsAll == pc = "busy" => Len(args.volumes) > RecordedMax

\* The range of an accepted CIDR is the block of 2^(32-prefix) addresses that
\* the address lies in, for every prefix from 0 to the full width.
CidrIsBlock ==
    pc = "accepted" /\ cmd = "network create" =>
        LET c == args.argv[2]
            range == CidrRange(c.address, c.prefix)
            size == Pow2[Width - c.prefix]
        IN /\ range.min % size = 0 /\ range.max = range.min + size - 1
           /\ c.address \in range.min .. range.max
=============================================================================
