----------------------------- MODULE Validators -----------------------------
(***************************************************************************)
(* The validators of core/safety.c.  A text is a record of what they look  *)
(* at: its length, whether it is one line, whether all of its bytes are in *)
(* [A-Za-z0-9._-], whether it is "." or "..", and, taken as a path,        *)
(* whether it starts with a slash and which components it has.             *)
(***************************************************************************)
EXTENDS Naturals, Sequences

CONSTANTS
    NaN,          \* text that is no number
    NoPath,       \* the field is not there
    BadVolume,    \* parse_volume_config: ro = -1
    PathMax,      \* TINYDOCKER_MAX_VOLUME_PATH
    NameMax,      \* TINYDOCKER_MAX_CONTAINER_NAME
    NetworkNameMax, \* TINYDOCKER_MAX_NETWORK_NAME
    PortMax,      \* 65535
    Width         \* bits of an address

\* td_validate_name.
ValidName(t) == t.len \in 1 .. NameMax /\ t.plain /\ ~t.dots

ValidNetworkName(t) == t.len \in 1 .. NetworkNameMax /\ t.plain /\ ~t.dots

\* td_parse_long.
InRange(n, min, max) == n # NaN /\ n >= min /\ n <= max

\* td_parse_port_mapping.
ValidPorts(m) == InRange(m.host, 1, PortMax) /\ InRange(m.container, 1, PortMax)

\* has_unsafe_path_component.
Unsafe(path) == \E i \in DOMAIN path.parts : path.parts[i] \in {".", ".."}

\* td_join_rootfs_path: "/" itself is refused.
Joins(path) == path.absolute /\ path.len # 1 /\ ~Unsafe(path)

\* td_parse_volume_spec on host:container[:mode]; a fourth field makes the
\* mode "other".
ParseVolume(spec) ==
    IF /\ spec.host # NoPath /\ spec.host.len \in 1 .. PathMax
       /\ spec.container # NoPath /\ spec.container.len \in 1 .. PathMax
       /\ spec.host.absolute /\ spec.host.line
       /\ Joins(spec.container)
       /\ spec.mode \in {"none", "ro", "rw"}
    THEN [host |-> spec.host, container |-> spec.container, ro |-> spec.mode = "ro"]
    ELSE BadVolume

\* The text create_container_info makes of a volume.
FormatVolume(v) ==
    [host |-> v.host, container |-> v.container, mode |-> IF v.ro THEN "ro" ELSE "rw"]

VolumeLength(spec) == spec.host.len + 1 + spec.container.len + 3

-----------------------------------------------------------------------------
\* The powers of two that a number of that width is made of.
Pow2[n \in 0 .. Width] == IF n = 0 THEN 1 ELSE 2 * Pow2[n - 1]

\* Mutant of Mask: the shift is one bit short.
MaskShort(prefix) == Pow2[Width] - Pow2[Width - prefix + (IF prefix = 0 THEN 0 ELSE 1)]

\* UINT32_MAX << (32 - prefix), and 0 for prefix 0, where the shift by the
\* width of the type would be undefined.
Mask(prefix) ==
    IF prefix = 0 THEN 0
    ELSE ((Pow2[Width] - 1) * Pow2[Width - prefix]) % Pow2[Width]

Bit(n, i) == (n \div Pow2[i]) % 2

\* a & m, bit by bit.
LowAnd(a, m) ==
    LET low[i \in 0 .. Width] ==
            IF i = 0 THEN 0
            ELSE low[i - 1] + Pow2[i - 1] * Bit(a, i - 1) * Bit(m, i - 1)
    IN low

And(a, m) == LowAnd(a, m)[Width]

\* td_parse_ipv4_cidr.
ValidCidr(c) == c.address # NaN /\ InRange(c.prefix, 0, Width)

\* get_cidr_range of td_parse_ipv4_cidr: the network and network | ~mask.
CidrRange(address, prefix) ==
    LET network == And(address, Mask(prefix))
    IN [min |-> network, max |-> network + (Pow2[Width] - 1 - Mask(prefix))]
=============================================================================
