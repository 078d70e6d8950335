-------------------------- MODULE MCConfiguration ---------------------------
(***************************************************************************)
(* An instance of Configuration for TLC.  The limits are scaled down, and  *)
(* every kind of text has a representative on each side of its limit.      *)
(***************************************************************************)
EXTENDS Configuration

Name(id, len) ==
    [id |-> id, len |-> len, line |-> TRUE, plain |-> TRUE, dots |-> FALSE,
     address |-> NaN, prefix |-> NaN]
Odd(id, one, two) == [Name(id, 2) EXCEPT !.line = one, !.plain = two, !.dots = two]
Path(id, len, absolute, parts, line) ==
    [id |-> id, len |-> len, absolute |-> absolute, parts |-> parts, line |-> line]

MCDefaultName == Name("time", 1)

Opt(o) ==
    [opt |-> o, text |-> Name(o, 2), volume |-> NaN, ports |-> NaN, number |-> NaN,
     name |-> NaN, parts |-> <<>>]
Word(t) == [Opt("word") EXCEPT !.text = t]

w == Word(Name("w", 1))
long == Word(Name("long", NameMax + 1))
lines == Word(Odd("lines", FALSE, FALSE))
dots == Word(Odd("dots", TRUE, TRUE))

host == Path("host", 2, TRUE, <<"h">>, TRUE)
far == Path("far", PathMax, TRUE, <<"f">>, TRUE)
a == Path("a", 2, TRUE, <<"a">>, TRUE)
Volume(h, c, mode) ==
    [Opt("v") EXCEPT !.volume = [host |-> h, container |-> c, mode |-> mode]]

\* Two that share a target, two that only the metadata refuses, and one for
\* every way in which a specification can be malformed.
Volumes ==
    {Volume(host, a, "none"), Volume(host, a, "ro"), Volume(far, [far EXCEPT !.id = "b"], "rw"),
     Volume(host, Path("n", 2, TRUE, <<"n">>, FALSE), "rw"),
     Volume(host, NoPath, "none"), Volume(host, a, "other"),
     Volume([host EXCEPT !.absolute = FALSE], a, "rw"),
     Volume([host EXCEPT !.line = FALSE], a, "rw"),
     Volume([far EXCEPT !.len = PathMax + 1], a, "rw"),
     Volume(host, Path("root", 1, TRUE, <<>>, TRUE), "rw"),
     Volume(host, Path("up", 3, TRUE, <<"..">>, TRUE), "rw")}

Flags == {Opt("d"), Opt("i"), Opt("unknown")}
Environment == {[Opt("e") EXCEPT !.parts = x] : x \in {<<"k">>, <<"k", "v">>, <<"k", "v", "w">>}}
Numbers(o, S) == {[Opt(o) EXCEPT !.number = n] : n \in S \cup {NaN}}

RunOptions ==
    Volumes \cup Flags \cup Environment
        \cup {[Opt("n") EXCEPT !.name = x] : x \in {w.text, dots.text}}
        \cup Numbers("c", {CpuMin - 1, CpuMin}) \cup Numbers("m", {0, IntMax, IntMax + 1})
        \cup {[Opt("p") EXCEPT !.ports = [host |-> h, container |-> PortMax]] :
              h \in {0, 1, PortMax + 1}}

\* Behind the second place only what matters there: more volumes, the words, and
\* words that look like options.
MCTokens ==
    [c \in {"run", "exec", "stop", "rm", "network rm", "commit", "top", "inspect", "stats",
            "ps", "network create", "network ls"} |->
        CASE c = "run" ->
              [i \in 1 .. 2 |-> {w, long, lines} \cup RunOptions]
                  \o <<{w, lines, Opt("d"), Opt("unknown")} \cup Volumes,
                       {w, lines, Opt("d"), Volume(host, a, "none"), Volume(host, a, "ro")},
                       {w, lines, Opt("d"), Opt("unknown")}>>
          [] c = "exec" -> [i \in 1 .. 4 |-> {w, dots, Opt("tty")} \cup Flags \cup Environment]
          [] c = "stop" -> [i \in 1 .. 3 |-> {w, lines, Opt("unknown")} \cup Numbers("t", {0, TimeMax, TimeMax + 1})]
          [] c = "network create" ->
              <<{w, long}, {w} \cup {Word([Odd("cidr", TRUE, FALSE) EXCEPT !.address = x, !.prefix = y]) :
                                    x \in 0 .. 2 ^ Width - 1, y \in 0 .. Width + 1}, {w}>>
          [] OTHER -> [i \in 1 .. 3 |-> {w, long, dots}]]
=============================================================================
