---------------------------- MODULE StatusCodec -----------------------------
(***************************************************************************)
(* The container metadata text: create_container_info, which makes the     *)
(* record of a run, td_write_container_info and td_parse_container_info.   *)
(* The file is a sequence of lines key=value; whatever follows the line    *)
(* volume_cnt is taken for a volume.                                       *)
(***************************************************************************)
EXTENDS Validators, SequencesExt

CONSTANTS
    NoInfo,         \* the call failed
    ImageMax,       \* sizeof info->image - 1
    CommandMax,     \* sizeof info->command - 1
    VolumeMax,      \* sizeof info->volumes[0] - 1
    RecordedMax     \* entries of info->volumes

\* The required fields, in the order they are written.
Header == <<"pid", "pid_start_time", "detach", "container_id", "image", "command",
            "created", "status", "ip_addr", "name">>
Required == (ToSet(Header) \ {"pid_start_time"}) \cup {"volume_cnt"}

\* The command line joined by blanks.
CommandLength(argv) == FoldLeft(LAMBDA n, t : n + t.len, Len(argv) - 1, argv)

\* Mutant of CreateInfo: the last volume is not recorded.
CreateInfoShort(args) ==
    [detach |-> args.detach, image |-> args.image, command |-> args.argv, name |-> args.name,
     volumes |-> [i \in 1 .. Len(args.volumes) - 1 |-> FormatVolume(args.volumes[i])],
     start |-> TRUE]

\* create_container_info.
CreateInfo(args) ==
    LET count == IF Len(args.volumes) > RecordedMax THEN RecordedMax ELSE Len(args.volumes)
        volumes == [i \in 1 .. count |-> FormatVolume(args.volumes[i])]
    IN IF /\ args.image.len <= ImageMax
          /\ CommandLength(args.argv) <= CommandMax
          /\ \A i \in 1 .. count : VolumeLength(volumes[i]) <= VolumeMax
       THEN [detach |-> args.detach, image |-> args.image, command |-> args.argv,
             name |-> args.name, volumes |-> volumes, start |-> TRUE]
       ELSE NoInfo

Line(k, v) == [key |-> k, value |-> v]

Value(info, k) ==
    CASE k = "detach" -> info.detach [] k = "image" -> info.image
      [] k = "command" -> info.command [] k = "name" -> info.name [] OTHER -> k

Whole(info, k) ==
    CASE k = "image" -> info.image.line
      [] k = "command" -> \A i \in DOMAIN info.command : info.command[i].line
      [] OTHER -> TRUE

\* A value with a line break in it makes two lines, the second without a key.
Text(k, v, whole) == IF whole THEN <<Line(k, v)>> ELSE <<Line(k, v), Line("rest", v)>>

Lines(info) ==
    FlattenSeq([i \in DOMAIN Header |->
                   Text(Header[i], Value(info, Header[i]), Whole(info, Header[i]))])
        \o <<Line("volume_cnt", Len(info.volumes))>>
        \o FlattenSeq([i \in DOMAIN info.volumes |->
                          Text("volume", info.volumes[i], info.volumes[i].container.line)])

\* Mutant of WriteInfo: line breaks pass.
WriteAnything(info) == Lines(info)

\* td_write_container_info.
WriteInfo(info) ==
    IF /\ Whole(info, "image") /\ Whole(info, "command") /\ info.name.line
       /\ \A i \in DOMAIN info.volumes : info.volumes[i].container.line
    THEN Lines(info) ELSE NoInfo

-----------------------------------------------------------------------------
Blank == [ok |-> TRUE, seen |-> {}, count |-> 0, volumes |-> <<>>, fields |-> <<>>]

\* One line: a volume after volume_cnt, else parse_key_value.  A volume line
\* before volume_cnt has no key that is known.
ParseLine(s, l) ==
    IF ~s.ok THEN s
    ELSE IF "volume_cnt" \in s.seen
    THEN IF Len(s.volumes) < s.count THEN [s EXCEPT !.volumes = Append(@, l.value)]
         ELSE [s EXCEPT !.ok = FALSE]
    ELSE IF l.key \in (ToSet(Header) \cup {"volume_cnt"}) \ s.seen
    THEN [s EXCEPT !.seen = @ \cup {l.key},
                   !.count = IF l.key = "volume_cnt" THEN l.value ELSE @,
                   !.fields = Append(@, l)]
    ELSE [s EXCEPT !.ok = FALSE]

\* The state after each line.
Progress(lines) ==
    LET state[i \in 0 .. Len(lines)] ==
            IF i = 0 THEN Blank ELSE ParseLine(state[i - 1], lines[i])
    IN state

Parsed(lines) == Progress(lines)[Len(lines)]

Field(s, k) == s.fields[CHOOSE i \in DOMAIN s.fields : s.fields[i].key = k].value

Read(s) ==
    [detach |-> Field(s, "detach"), image |-> Field(s, "image"),
     command |-> Field(s, "command"), name |-> Field(s, "name"), volumes |-> s.volumes,
     start |-> "pid_start_time" \in s.seen]

\* Mutant of ParseInfo: nobody counts the volumes.
ParseInfoUncounted(lines, name) ==
    LET s == Parsed(lines)
    IN IF s.ok /\ Required \subseteq s.seen /\ Field(s, "name") = name THEN Read(s) ELSE NoInfo

\* td_parse_container_info of the file of that name.  An absent start time
\* reads as 0: the metadata of older versions has none.
ParseInfo(lines, name) ==
    LET s == Parsed(lines)
    IN IF /\ s.ok /\ Required \subseteq s.seen /\ Len(s.volumes) = s.count
          /\ Field(s, "name") = name
       THEN Read(s) ELSE NoInfo
=============================================================================
