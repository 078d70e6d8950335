------------------------- MODULE StatusCodecProofs --------------------------
(***************************************************************************)
(* What the metadata codec computes, for records of any size: what was     *)
(* written reads back, and a file that lost a line or has one twice is     *)
(* refused, unless only the start time is missing.  Both follow the parser *)
(* through the lines by induction.                                         *)
(***************************************************************************)
EXTENDS StatusCodec, SequenceTheorems, WellFoundedInduction, TLAPS

\* A set of numbers has a least element.
LEMMA Least ==
    ASSUME NEW S, S \subseteq Nat, S # {}
    PROVE  \E x \in S : \A y \in S : x <= y
  <1>1. \E x \in S : \A y \in S : ~ (<<y, x>> \in OpToRel(<, Nat))
    BY WFMin, NatLessThanWellFounded
  <1>2. \A x, y \in Nat : <<y, x>> \in OpToRel(<, Nat) <=> y < x
    BY DEF OpToRel
  <1>3. \E x \in S : \A y \in S : ~ (y < x)
    BY <1>1, <1>2, Zenon
  <1> QED
    BY <1>3

\* Induction, in a form that is about a set and not about a predicate.
LEMMA Induction ==
    ASSUME NEW S \in SUBSET Nat, 0 \in S, \A n \in Nat : n \in S => n + 1 \in S
    PROVE  S = Nat
  <1> SUFFICES ASSUME Nat \ S # {} PROVE FALSE
    OBVIOUS
  <1>1. PICK x \in Nat \ S : \A y \in Nat \ S : x <= y
    BY Least
  <1>2. x # 0 /\ x - 1 \in Nat /\ x - 1 \in S
    BY <1>1
  <1> QED
    BY <1>2

\* The same from m up to n.
LEMMA InductionUpTo ==
    ASSUME NEW m \in Nat, NEW n \in Nat, NEW S \in SUBSET (m .. n), m \in S,
           \A i \in m .. n : i # m /\ i - 1 \in S => i \in S
    PROVE  S = m .. n
  <1> DEFINE T == {k \in Nat : m + k <= n => m + k \in S}
  <1>1. 0 \in T
    OBVIOUS
  <1>2. ASSUME NEW k \in Nat, k \in T PROVE k + 1 \in T
    <2> SUFFICES ASSUME m + (k + 1) <= n PROVE m + (k + 1) \in S
      OBVIOUS
    <2>1. m + k \in S /\ m + (k + 1) \in m + 1 .. n /\ (m + (k + 1)) - 1 = m + k
      BY <1>2
    <2> QED
      BY <2>1
  <1> HIDE DEF T
  <1>3. T \in SUBSET Nat
    BY DEF T
  <1>4. T = Nat
    BY <1>1, <1>2, <1>3, Induction
  <1>5. ASSUME NEW i \in m .. n PROVE i \in S
    <2>1. i - m \in Nat /\ m + (i - m) = i /\ i <= n
      OBVIOUS
    <2> QED
      BY <1>4, <2>1 DEF T
  <1> QED
    BY <1>5

-----------------------------------------------------------------------------
\* g is the parser's state after each of the first n lines.
Follows(g, lines, n) ==
    g = [i \in 0 .. n |-> IF i = 0 THEN Blank ELSE ParseLine(g[i - 1], lines[i])]

\* The parser has a state after any number of lines.
LEMMA FollowsExists ==
    ASSUME NEW lines
    PROVE  \A n \in Nat : \E g : Follows(g, lines, n)
  <1> DEFINE S == {n \in Nat : \E g : Follows(g, lines, n)}
  <1>1. 0 \in S
    <2> DEFINE g == [i \in 0 .. 0 |-> Blank]
    <2>1. Follows(g, lines, 0)
      BY DEF Follows
    <2> QED
      BY <2>1
  <1>2. ASSUME NEW n \in Nat, n \in S PROVE n + 1 \in S
    <2>1. PICK g : Follows(g, lines, n)
      BY <1>2
    <2> DEFINE h == [i \in 0 .. n + 1 |->
                        IF i = n + 1 THEN ParseLine(g[n], lines[n + 1]) ELSE g[i]]
    <2>2. \A i \in 0 .. n : g[i] = IF i = 0 THEN Blank ELSE ParseLine(g[i - 1], lines[i])
      BY <2>1 DEF Follows
    <2>3. \A i \in 0 .. n + 1 :
             h[i] = IF i = 0 THEN Blank ELSE ParseLine(h[i - 1], lines[i])
      BY <2>2
    <2>4. Follows(h, lines, n + 1)
      <3> HIDE DEF h
      <3>1. h = [i \in 0 .. n + 1 |-> h[i]]
        BY DEF h
      <3> QED
        BY <2>3, <3>1 DEF Follows
    <2> QED
      BY <2>4
  <1> HIDE DEF S
  <1>3. S \in SUBSET Nat
    BY DEF S
  <1>4. S = Nat
    BY <1>1, <1>2, <1>3, Induction
  <1> QED
    BY <1>4 DEF S

\* A step is taken for every line, and each sees the state before it.
LEMMA ProgressSteps ==
    ASSUME NEW lines, Len(lines) \in Nat
    PROVE  /\ Progress(lines)[0] = Blank
           /\ \A i \in 1 .. Len(lines) :
                 Progress(lines)[i] = ParseLine(Progress(lines)[i - 1], lines[i])
  <1>1. \E g : g = [i \in 0 .. Len(lines) |->
                       IF i = 0 THEN Blank ELSE ParseLine(g[i - 1], lines[i])]
    BY FollowsExists DEF Follows
  <1>2. Progress(lines) = [i \in 0 .. Len(lines) |->
            IF i = 0 THEN Blank ELSE ParseLine(Progress(lines)[i - 1], lines[i])]
    BY <1>1, Zenon DEF Progress
  <1> QED
    BY <1>2

-----------------------------------------------------------------------------
\* g is what FlattenSeq makes of the first i sequences of s, for i up to n.
Flattens(g, s, n) == g = [i \in 1 .. n |-> IF i = 1 THEN s[i] ELSE g[i - 1] \o s[i]]

\* Joining a prefix with the next element makes the next prefix.
LEMMA PrefixGrows ==
    ASSUME NEW n \in Nat, NEW S, NEW x \in [1 .. n -> S], NEW i \in 1 .. n - 1
    PROVE  [j \in 1 .. i |-> x[j]] \o <<x[i + 1]>> = [j \in 1 .. i + 1 |-> x[j]]
  OBVIOUS

\* Texts of one line each make as many lines as there are texts.
LEMMA FlattenLines ==
    ASSUME NEW n \in Nat, NEW S, NEW x \in [1 .. n -> S]
    PROVE  FlattenSeq([i \in 1 .. n |-> <<x[i]>>]) = x
  <1> DEFINE s == [i \in 1 .. n |-> <<x[i]>>]
             P == [i \in 1 .. n |-> [j \in 1 .. i |-> x[j]]]
  <1>1. Len(s) = n
    OBVIOUS
  <1>2. CASE n = 0
    <2>1. FlattenSeq(s) = s
      BY <1>1, <1>2 DEF FlattenSeq
    <2>2. s = x
      BY <1>2
    <2> QED
      BY <2>1, <2>2
  <1>3. CASE n > 0
    <2>1. P[1] = s[1] /\ P[n] = x
      BY <1>3
    <2>2. \A i \in 1 .. n - 1 : P[i] \o s[i + 1] = P[i + 1]
      <3> TAKE i \in 1 .. n - 1
      <3>1. P[i] = [j \in 1 .. i |-> x[j]] /\ P[i + 1] = [j \in 1 .. i + 1 |-> x[j]]
        OBVIOUS
      <3>2. s[i + 1] = <<x[i + 1]>>
        OBVIOUS
      <3> HIDE DEF P, s
      <3> QED
        BY <3>1, <3>2, PrefixGrows
    <2>3. P = [i \in 1 .. n |-> P[i]]
      OBVIOUS
    <2>4. FlattenSeq(s) = (CHOOSE g : g = [i \in 1 .. n |->
                              IF i = 1 THEN s[i] ELSE g[i - 1] \o s[i]])[n]
      <3> HIDE DEF s
      <3>1. Len(s) # 0
        BY <1>1, <1>3
      <3> QED
        BY <1>1, <3>1, Zenon DEF FlattenSeq
    <2> HIDE DEF s, P
    <2>5. Flattens(P, s, n)
      <3>1. \A i \in 1 .. n : P[i] = IF i = 1 THEN s[i] ELSE P[i - 1] \o s[i]
        <4> TAKE i \in 1 .. n
        <4>1. CASE i = 1
          BY <4>1, <2>1
        <4>2. CASE i # 1
          <5>1. i - 1 \in 1 .. n - 1 /\ (i - 1) + 1 = i
            BY <4>2
          <5>2. P[i - 1] \o s[(i - 1) + 1] = P[(i - 1) + 1]
            BY <2>2, <5>1
          <5> QED
            BY <5>1, <5>2, <4>2
        <4> QED
          BY <4>1, <4>2
      <3> QED
        BY <2>3, <3>1 DEF Flattens
    <2>6. ASSUME NEW g, Flattens(g, s, n) PROVE g[n] = x
      <3> DEFINE I == {k \in Nat : k + 1 \in 1 .. n => g[k + 1] = P[k + 1]}
      <3>1. g[1] = s[1] /\ \A i \in 2 .. n : g[i] = g[i - 1] \o s[i]
        <4>1. \A i \in 1 .. n : g[i] = IF i = 1 THEN s[i] ELSE g[i - 1] \o s[i]
          BY <2>6, Zenon DEF Flattens
        <4>2. 1 \in 1 .. n /\ \A i \in 2 .. n : i \in 1 .. n /\ i # 1
          BY <1>3
        <4> QED
          BY <4>1, <4>2, Zenon
      <3>2. 0 \in I
        BY <2>1, <3>1
      <3>3. ASSUME NEW k \in Nat, k \in I PROVE k + 1 \in I
        <4> SUFFICES ASSUME k + 2 \in 1 .. n PROVE g[k + 2] = P[k + 2]
          OBVIOUS
        <4>1. g[k + 1] = P[k + 1] /\ k + 1 \in 1 .. n - 1 /\ k + 2 \in 2 .. n
          BY <3>3
        <4>2. (k + 1) + 1 = k + 2 /\ (k + 2) - 1 = k + 1
          OBVIOUS
        <4>3. g[k + 2] = g[(k + 2) - 1] \o s[k + 2]
          BY <4>1, <3>1
        <4>4. P[k + 1] \o s[(k + 1) + 1] = P[(k + 1) + 1]
          BY <4>1, <2>2
        <4> QED
          BY <4>1, <4>2, <4>3, <4>4
      <3> HIDE DEF I
      <3>4. I \in SUBSET Nat
        BY DEF I
      <3>5. n - 1 \in I
        BY <1>3, <3>2, <3>3, <3>4, Induction
      <3> QED
        BY <1>3, <2>1, <3>5 DEF I
    <2>7. \E g : g = [i \in 1 .. n |-> IF i = 1 THEN s[i] ELSE g[i - 1] \o s[i]]
      BY <2>5 DEF Flattens
    <2> DEFINE f == CHOOSE g : g = [i \in 1 .. n |->
                              IF i = 1 THEN s[i] ELSE g[i - 1] \o s[i]]
    <2>8. f = [i \in 1 .. n |-> IF i = 1 THEN s[i] ELSE f[i - 1] \o s[i]]
      BY <2>7, Zenon
    <2>9. FlattenSeq(s) = f[n]
      BY <2>4, Zenon
    <2> HIDE DEF f
    <2>10. f[n] = x
      BY <2>6, <2>8 DEF Flattens
    <2> QED
      BY <2>9, <2>10 DEF s
  <1> QED
    BY <1>2, <1>3
-----------------------------------------------------------------------------
Keys == ToSet(Header) \cup {"volume_cnt"}

\* The states of the parser on some lines.
States(lines) ==
    [ok : BOOLEAN, seen : SUBSET Keys, count : {0} \cup {lines[i].value : i \in DOMAIN lines},
     volumes : Seq({lines[i].value : i \in DOMAIN lines}), fields : Seq({lines[i] : i \in DOMAIN lines})]

\* A line leads from a state to a state.
LEMMA ParseLineTyped ==
    ASSUME NEW lines, NEW s \in States(lines), NEW i \in DOMAIN lines
    PROVE  ParseLine(s, lines[i]) \in States(lines)
  <1> DEFINE l == lines[i]
             V == {lines[j].value : j \in DOMAIN lines}
             L == {lines[j] : j \in DOMAIN lines}
  <1>1. l.value \in V /\ l \in L
    OBVIOUS
  <1>2. Append(s.volumes, l.value) \in Seq(V) /\ Append(s.fields, l) \in Seq(L)
    BY <1>1 DEF States
  <1> HIDE DEF l
  <1>3. ASSUME l.key \in Keys PROVE s.seen \cup {l.key} \in SUBSET Keys
    BY <1>3 DEF States
  <1> QED
    BY <1>1, <1>2, <1>3 DEF ParseLine, States, Keys, l

\* The parser is always in one of them.
LEMMA ProgressTyped ==
    ASSUME NEW lines, Len(lines) \in Nat, DOMAIN lines = 1 .. Len(lines)
    PROVE  \A i \in 0 .. Len(lines) : Progress(lines)[i] \in States(lines)
  <1> DEFINE S == {i \in 0 .. Len(lines) : Progress(lines)[i] \in States(lines)}
  <1>1. Blank \in States(lines)
    BY DEF Blank, States
  <1>2. 0 \in S
    BY <1>1, ProgressSteps
  <1>3. ASSUME NEW i \in 0 .. Len(lines), i # 0, i - 1 \in S PROVE i \in S
    BY <1>3, ProgressSteps, ParseLineTyped
  <1> HIDE DEF S
  <1>4. S \in SUBSET (0 .. Len(lines))
    BY DEF S
  <1>5. S = 0 .. Len(lines)
    BY <1>2, <1>3, <1>4, InductionUpTo
  <1> QED
    BY <1>5 DEF S

\* A parser that has refused a line has refused the file.
LEMMA RefusalIsFinal ==
    ASSUME NEW lines, Len(lines) \in Nat, NEW m \in 0 .. Len(lines), ~Progress(lines)[m].ok
    PROVE  ~Parsed(lines).ok
  <1> DEFINE S == {i \in m .. Len(lines) : ~Progress(lines)[i].ok}
  <1>1. m \in S
    OBVIOUS
  <1>2. ASSUME NEW i \in m .. Len(lines), i # m, i - 1 \in S PROVE i \in S
    <2>1. Progress(lines)[i] = ParseLine(Progress(lines)[i - 1], lines[i])
      BY <1>2, ProgressSteps
    <2>2. ParseLine(Progress(lines)[i - 1], lines[i]) = Progress(lines)[i - 1]
      BY <1>2 DEF ParseLine
    <2> QED
      BY <1>2, <2>1, <2>2
  <1> HIDE DEF S
  <1>3. S \in SUBSET (m .. Len(lines))
    BY DEF S
  <1>4. S = m .. Len(lines)
    BY <1>1, <1>2, <1>3, InductionUpTo
  <1> QED
    BY <1>4 DEF S, Parsed

\* What has been seen stood in some line.
LEMMA SeenStood ==
    ASSUME NEW lines, Len(lines) \in Nat, DOMAIN lines = 1 .. Len(lines)
    PROVE  \A i \in 0 .. Len(lines) :
              Progress(lines)[i].seen \subseteq {lines[j].key : j \in 1 .. i}
  <1> DEFINE S == {i \in 0 .. Len(lines) :
                      Progress(lines)[i].seen \subseteq {lines[j].key : j \in 1 .. i}}
  <1>1. 0 \in S
    BY ProgressSteps DEF Blank
  <1>2. ASSUME NEW i \in 0 .. Len(lines), i # 0, i - 1 \in S PROVE i \in S
    <2>1. Progress(lines)[i] = ParseLine(Progress(lines)[i - 1], lines[i])
      BY <1>2, ProgressSteps
    <2>2. Progress(lines)[i - 1] \in States(lines)
      BY <1>2, ProgressTyped
    <2>3. ParseLine(Progress(lines)[i - 1], lines[i]).seen
             \subseteq Progress(lines)[i - 1].seen \cup {lines[i].key}
      BY <2>2 DEF ParseLine, States
    <2>4. {lines[j].key : j \in 1 .. i - 1} \cup {lines[i].key} \subseteq {lines[j].key : j \in 1 .. i}
      BY <1>2
    <2> QED
      BY <1>2, <2>1, <2>3, <2>4
  <1> HIDE DEF S
  <1>3. S \in SUBSET (0 .. Len(lines))
    BY DEF S
  <1>4. S = 0 .. Len(lines)
    BY <1>1, <1>2, <1>3, InductionUpTo
  <1> QED
    BY <1>4 DEF S

-----------------------------------------------------------------------------
\* A prefix grows by the next element.
LEMMA PrefixAppend ==
    ASSUME NEW x, NEW i \in Nat, i # 0
    PROVE  Append([j \in 1 .. i - 1 |-> x[j]], x[i]) = [j \in 1 .. i |-> x[j]]
  <1> DEFINE S == {x[j] : j \in 1 .. i}
             p == [j \in 1 .. i - 1 |-> x[j]]
  <1>1. p \in Seq(S) /\ Len(p) = i - 1 /\ x[i] \in S
    OBVIOUS
  <1>2. [j \in 1 .. i |-> x[j]] \in Seq(S)
    OBVIOUS
  <1> QED
    BY <1>1, <1>2

\* A state that has refused nothing.
State(seen, count, volumes, fields) ==
    [ok |-> TRUE, seen |-> seen, count |-> count, volumes |-> volumes, fields |-> fields]

\* A field that is known and new is taken.
LEMMA FieldTaken ==
    ASSUME NEW seen, NEW count, NEW volumes, NEW fields, NEW l, "volume_cnt" \notin seen,
           l.key \in Keys \ seen
    PROVE  /\ l.key # "volume_cnt" =>
                 ParseLine(State(seen, count, volumes, fields), l)
                    = State(seen \cup {l.key}, count, volumes, Append(fields, l))
           /\ l.key = "volume_cnt" =>
                 ParseLine(State(seen, count, volumes, fields), l)
                    = State(seen \cup {l.key}, l.value, volumes, Append(fields, l))
  BY DEF ParseLine, State, Keys

\* A volume that was announced is taken, and no other.
LEMMA VolumeTaken ==
    ASSUME NEW seen, NEW count, NEW volumes, NEW fields, NEW l, "volume_cnt" \in seen
    PROVE  /\ Len(volumes) < count => ParseLine(State(seen, count, volumes, fields), l)
                                         = State(seen, count, Append(volumes, l.value), fields)
           /\ ~(Len(volumes) < count) => ~ParseLine(State(seen, count, volumes, fields), l).ok
  BY DEF ParseLine, State

\* h lines with different keys, the number of volumes, and m volumes.
WellFormed(lines, h, m) ==
    /\ Len(lines) = h + 1 + m /\ DOMAIN lines = 1 .. Len(lines)
    /\ \A i \in 1 .. h : lines[i].key \in ToSet(Header)
    /\ \A i, j \in 1 .. h : lines[i].key = lines[j].key => i = j
    /\ lines[h + 1].key = "volume_cnt" /\ lines[h + 1].value \in Nat

\* That depends on the volumes only in their number.
LEMMA SameHeader ==
    ASSUME NEW lines, NEW other, NEW h \in Nat, NEW m \in Nat, NEW k \in Nat,
           WellFormed(lines, h, m), Len(other) = h + 1 + k, DOMAIN other = 1 .. Len(other),
           \A j \in 1 .. h + 1 : other[j] = lines[j]
    PROVE  WellFormed(other, h, k)
  <1>1. \A j \in 1 .. h : j \in 1 .. h + 1
    OBVIOUS
  <1>2. \A i \in 1 .. h : other[i].key \in ToSet(Header)
    BY <1>1 DEF WellFormed
  <1>3. \A i, j \in 1 .. h : other[i].key = other[j].key => i = j
    BY <1>1 DEF WellFormed
  <1>4. other[h + 1].key = "volume_cnt" /\ other[h + 1].value \in Nat
    BY DEF WellFormed
  <1> QED
    BY <1>2, <1>3, <1>4 DEF WellFormed

KeysUpTo(lines, i) == {lines[j].key : j \in 1 .. i}
NoVolumes == <<>>
Upto(lines, i) == [j \in 1 .. i |-> lines[j]]

\* The header's fields, and no others, are taken.
LEMMA HeaderIsRead ==
    ASSUME NEW lines, NEW h \in Nat, NEW m \in Nat, WellFormed(lines, h, m)
    PROVE  \A i \in 0 .. h : Progress(lines)[i] = State(KeysUpTo(lines, i), 0, NoVolumes, Upto(lines, i))
  <1> DEFINE S == {i \in 0 .. h :
                      Progress(lines)[i] = State(KeysUpTo(lines, i), 0, NoVolumes, Upto(lines, i))}
  <1>1. "volume_cnt" \notin ToSet(Header)
    BY DEF ToSet, Header
  <1>2. Len(lines) \in Nat /\ h <= Len(lines)
    BY DEF WellFormed
  <1>3. 0 \in S
    <2>1. KeysUpTo(lines, 0) = {} /\ Upto(lines, 0) = <<>>
      BY DEF KeysUpTo, Upto
    <2>2. State(KeysUpTo(lines, 0), 0, NoVolumes, Upto(lines, 0)) = Blank
      BY <2>1 DEF State, Blank, NoVolumes
    <2> QED
      BY <1>2, <2>2, ProgressSteps
  <1>4. ASSUME NEW i \in 0 .. h, i # 0, i - 1 \in S PROVE i \in S
    <2> DEFINE seen == KeysUpTo(lines, i - 1)
    <2>1. i \in 1 .. Len(lines) /\ i \in 1 .. h /\ i - 1 \in 0 .. h
      BY <1>2, <1>4
    <2>2. Progress(lines)[i] = ParseLine(State(seen, 0, NoVolumes, Upto(lines, i - 1)), lines[i])
      BY <1>2, <1>4, <2>1, ProgressSteps
    <2>3. "volume_cnt" \notin seen
      BY <1>1, <2>1 DEF WellFormed, KeysUpTo
    <2>4. lines[i].key \in Keys \ seen /\ lines[i].key # "volume_cnt"
      BY <1>1, <2>1 DEF WellFormed, KeysUpTo, Keys
    <2>5. seen \cup {lines[i].key} = KeysUpTo(lines, i)
      BY <2>1 DEF KeysUpTo
    <2>6. Append(Upto(lines, i - 1), lines[i]) = Upto(lines, i)
      BY <2>1, PrefixAppend DEF Upto
    <2> HIDE DEF seen
    <2>7. ParseLine(State(seen, 0, NoVolumes, Upto(lines, i - 1)), lines[i])
             = State(KeysUpTo(lines, i), 0, NoVolumes, Upto(lines, i))
      <3>1. ParseLine(State(seen, 0, NoVolumes, Upto(lines, i - 1)), lines[i])
               = State(seen \cup {lines[i].key}, 0, NoVolumes, Append(Upto(lines, i - 1), lines[i]))
        BY <2>3, <2>4, FieldTaken
      <3> QED
        BY <3>1, <2>5, <2>6
    <2> QED
      BY <2>2, <2>7
  <1> HIDE DEF S
  <1>5. S \in SUBSET (0 .. h)
    BY DEF S
  <1>6. S = 0 .. h
    BY <1>3, <1>4, <1>5, InductionUpTo
  <1> QED
    BY <1>6 DEF S

\* Then the number, and up to that number of volumes.
LEMMA VolumesAreRead ==
    ASSUME NEW lines, NEW h \in Nat, NEW m \in Nat, WellFormed(lines, h, m)
    PROVE  \A i \in 0 .. m : i <= lines[h + 1].value =>
              Progress(lines)[h + 1 + i]
                 = State(KeysUpTo(lines, h + 1), lines[h + 1].value,
                         [j \in 1 .. i |-> lines[h + 1 + j].value], Upto(lines, h + 1))
  <1> DEFINE n == lines[h + 1].value
             keys == KeysUpTo(lines, h + 1)
             v == [j \in 1 .. m |-> lines[h + 1 + j].value]
             S == {i \in 0 .. m : i <= n => Progress(lines)[h + 1 + i]
                                               = State(keys, n, [j \in 1 .. i |-> v[j]], Upto(lines, h + 1))}
  <1>1. "volume_cnt" \notin ToSet(Header)
    BY DEF ToSet, Header
  <1>2. Len(lines) \in Nat /\ Len(lines) = h + 1 + m /\ n \in Nat
    BY DEF WellFormed
  <1>3. 0 \in S
    <2>1. Progress(lines)[h] = State(KeysUpTo(lines, h), 0, NoVolumes, Upto(lines, h))
      BY HeaderIsRead
    <2>2. Progress(lines)[h + 1] = ParseLine(Progress(lines)[h], lines[h + 1])
      <3>1. h + 1 \in 1 .. Len(lines) /\ (h + 1) - 1 = h
        BY <1>2
      <3>2. Progress(lines)[h + 1] = ParseLine(Progress(lines)[(h + 1) - 1], lines[h + 1])
        BY <1>2, <3>1, ProgressSteps
      <3> QED
        BY <3>1, <3>2
    <2>3. "volume_cnt" \notin KeysUpTo(lines, h)
      BY <1>1 DEF WellFormed, KeysUpTo
    <2>4. lines[h + 1].key = "volume_cnt" /\ "volume_cnt" \in Keys
      BY DEF WellFormed, Keys
    <2>5. KeysUpTo(lines, h) \cup {lines[h + 1].key} = keys
      BY DEF KeysUpTo
    <2>6. Append(Upto(lines, h), lines[h + 1]) = Upto(lines, h + 1)
      <3>1. (h + 1) - 1 = h /\ h + 1 \in Nat /\ h + 1 # 0
        OBVIOUS
      <3>2. Append(Upto(lines, (h + 1) - 1), lines[h + 1]) = Upto(lines, h + 1)
        BY <3>1, PrefixAppend DEF Upto
      <3> QED
        BY <3>1, <3>2
    <2> HIDE DEF n, keys
    <2>7. ParseLine(State(KeysUpTo(lines, h), 0, NoVolumes, Upto(lines, h)), lines[h + 1])
             = State(keys, lines[h + 1].value, NoVolumes, Upto(lines, h + 1))
      <3>1. lines[h + 1].key \in Keys \ KeysUpTo(lines, h)
        BY <2>3, <2>4
      <3>2. ParseLine(State(KeysUpTo(lines, h), 0, NoVolumes, Upto(lines, h)), lines[h + 1])
               = State(KeysUpTo(lines, h) \cup {lines[h + 1].key}, lines[h + 1].value, NoVolumes,
                       Append(Upto(lines, h), lines[h + 1]))
        BY <2>3, <2>4, <3>1, FieldTaken
      <3> QED
        BY <3>2, <2>5, <2>6
    <2>8. [j \in 1 .. 0 |-> v[j]] = NoVolumes /\ h + 1 + 0 = h + 1
      BY DEF NoVolumes
    <2> QED
      BY <2>1, <2>2, <2>7, <2>8 DEF n
  <1>4. ASSUME NEW i \in 0 .. m, i # 0, i - 1 \in S PROVE i \in S
    <2> SUFFICES ASSUME i <= n
                 PROVE  Progress(lines)[h + 1 + i]
                           = State(keys, n, [j \in 1 .. i |-> v[j]], Upto(lines, h + 1))
      OBVIOUS
    <2> DEFINE before == [j \in 1 .. i - 1 |-> v[j]]
    <2>1. i - 1 \in 0 .. m /\ i - 1 <= n /\ i \in Nat /\ i \in 1 .. m
      BY <1>2, <1>4
    <2>2. Progress(lines)[h + 1 + (i - 1)] = State(keys, n, before, Upto(lines, h + 1))
      BY <1>4, <2>1
    <2>3. Progress(lines)[h + 1 + i] = ParseLine(Progress(lines)[h + 1 + (i - 1)], lines[h + 1 + i])
      <3>1. h + 1 + i \in 1 .. Len(lines) /\ (h + 1 + i) - 1 = h + 1 + (i - 1)
        BY <1>2, <2>1
      <3>2. Progress(lines)[h + 1 + i] = ParseLine(Progress(lines)[(h + 1 + i) - 1], lines[h + 1 + i])
        BY <1>2, <3>1, ProgressSteps
      <3> QED
        BY <3>1, <3>2
    <2>4. "volume_cnt" \in keys
      BY DEF WellFormed, KeysUpTo
    <2>5. Len(before) = i - 1
      BY <2>1
    <2>6. v[i] = lines[h + 1 + i].value
      BY <2>1
    <2>7. Append(before, v[i]) = [j \in 1 .. i |-> v[j]]
      <3> HIDE DEF v
      <3> QED
        BY <2>1, <1>4, PrefixAppend
    <2> HIDE DEF before, v, keys
    <2>8. Len(before) < n
      BY <1>2, <2>1, <2>5
    <2>9. ParseLine(State(keys, n, before, Upto(lines, h + 1)), lines[h + 1 + i])
             = State(keys, n, Append(before, v[i]), Upto(lines, h + 1))
      BY <2>4, <2>6, <2>8, VolumeTaken
    <2> QED
      BY <2>2, <2>3, <2>7, <2>9
  <1>5. S \in SUBSET (0 .. m)
    OBVIOUS
  <1>6. S = 0 .. m
    <2> HIDE DEF S
    <2> QED
      BY <1>3, <1>4, <1>5, InductionUpTo
  <1> SUFFICES ASSUME NEW i \in 0 .. m, i <= n
               PROVE  Progress(lines)[h + 1 + i]
                         = State(keys, n, [j \in 1 .. i |-> lines[h + 1 + j].value], Upto(lines, h + 1))
    OBVIOUS
  <1>7. Progress(lines)[h + 1 + i] = State(keys, n, [j \in 1 .. i |-> v[j]], Upto(lines, h + 1))
    BY <1>6
  <1>8. [j \in 1 .. i |-> v[j]] = [j \in 1 .. i |-> lines[h + 1 + j].value]
    OBVIOUS
  <1> QED
    BY <1>7, <1>8

\* A file with the volumes it announces, or fewer, is read to its end.
LEMMA FileIsRead ==
    ASSUME NEW lines, NEW h \in Nat, NEW m \in Nat, WellFormed(lines, h, m),
           m <= lines[h + 1].value
    PROVE  Parsed(lines) = State(KeysUpTo(lines, h + 1), lines[h + 1].value,
                                 [j \in 1 .. m |-> lines[h + 1 + j].value], Upto(lines, h + 1))
  <1>1. Len(lines) = h + 1 + m /\ m \in 0 .. m
    BY DEF WellFormed
  <1> QED
    BY <1>1, VolumesAreRead DEF Parsed

\* One with more is refused.
LEMMA SurplusIsRefused ==
    ASSUME NEW lines, NEW h \in Nat, NEW m \in Nat, WellFormed(lines, h, m),
           lines[h + 1].value < m
    PROVE  ~Parsed(lines).ok
  <1> DEFINE n == lines[h + 1].value
             v == [j \in 1 .. n |-> lines[h + 1 + j].value]
  <1>1. Len(lines) \in Nat /\ Len(lines) = h + 1 + m /\ n \in Nat
    BY DEF WellFormed
  <1>2. Progress(lines)[h + 1 + n] = State(KeysUpTo(lines, h + 1), n, v, Upto(lines, h + 1))
    <2>1. n \in 0 .. m /\ n <= n
      BY <1>1
    <2>2. \A i \in 0 .. m : i <= n =>
              Progress(lines)[h + 1 + i]
                 = State(KeysUpTo(lines, h + 1), n,
                         [j \in 1 .. i |-> lines[h + 1 + j].value], Upto(lines, h + 1))
      BY VolumesAreRead, Zenon
    <2> HIDE DEF n
    <2> QED
      BY <2>1, <2>2, Zenon DEF v
  <1>3. h + 1 + n + 1 \in 1 .. Len(lines) /\ (h + 1 + n + 1) - 1 = h + 1 + n
    BY <1>1
  <1>4. Progress(lines)[h + 1 + n + 1] = ParseLine(Progress(lines)[h + 1 + n], lines[h + 1 + n + 1])
    <2>1. Progress(lines)[h + 1 + n + 1]
             = ParseLine(Progress(lines)[(h + 1 + n + 1) - 1], lines[h + 1 + n + 1])
      BY <1>1, <1>3, ProgressSteps
    <2> QED
      BY <1>3, <2>1
  <1>5. "volume_cnt" \in KeysUpTo(lines, h + 1)
    BY DEF WellFormed, KeysUpTo
  <1>6. Len(v) = n
    BY <1>1
  <1> HIDE DEF v
  <1>7. ~Progress(lines)[h + 1 + n + 1].ok
    <2>1. ~(Len(v) < n)
      BY <1>1, <1>6
    <2> HIDE DEF n
    <2> QED
      BY <1>2, <1>4, <1>5, <2>1, VolumeTaken
  <1>8. h + 1 + n + 1 \in 0 .. Len(lines)
    BY <1>3
  <1> QED
    BY <1>1, <1>7, <1>8, RefusalIsFinal

\* A field is found under its key.
LEMMA FieldIsFound ==
    ASSUME NEW lines, NEW h \in Nat, NEW m \in Nat, WellFormed(lines, h, m),
           NEW s, s.fields = Upto(lines, h + 1), NEW i \in 1 .. h
    PROVE  Field(s, lines[i].key) = lines[i].value
  <1>1. "volume_cnt" \notin ToSet(Header)
    BY DEF ToSet, Header
  <1>2. \A j \in 1 .. h + 1 : lines[j].key = lines[i].key => j = i
    BY <1>1 DEF WellFormed
  <1>3. DOMAIN s.fields = 1 .. h + 1 /\ \A j \in 1 .. h + 1 : s.fields[j] = lines[j]
    BY DEF Upto
  <1> DEFINE k == CHOOSE j \in DOMAIN s.fields : s.fields[j].key = lines[i].key
  <1>4. k \in DOMAIN s.fields /\ s.fields[k].key = lines[i].key
    BY <1>3
  <1>5. Field(s, lines[i].key) = s.fields[k].value
    BY Zenon DEF Field
  <1> HIDE DEF k
  <1>6. k = i
    BY <1>2, <1>3, <1>4
  <1> QED
    BY <1>3, <1>5, <1>6

-----------------------------------------------------------------------------
\* The keys of the header are different and none is volume_cnt or volume.
LEMMA HeaderFacts ==
    /\ DOMAIN Header = 1 .. 10 /\ Len(Header) = 10
    /\ \A i, j \in 1 .. 10 : Header[i] = Header[j] => i = j
    /\ \A i \in 1 .. 10 : Header[i] \in ToSet(Header)
    /\ Header[2] = "pid_start_time" /\ Header[3] = "detach" /\ Header[5] = "image"
    /\ Header[6] = "command" /\ Header[10] = "name"
    /\ Keys = {Header[i] : i \in 1 .. 10} \cup {"volume_cnt"}
    /\ "volume_cnt" \notin {Header[i] : i \in 1 .. 10} /\ "volume" \notin Keys
  <1>1. DOMAIN Header = 1 .. 10 /\ Len(Header) = 10
    BY DEF Header
  <1>2. \A i, j \in 1 .. 10 : Header[i] = Header[j] => i = j
    BY DEF Header
  <1>3. ToSet(Header) = {Header[i] : i \in 1 .. 10}
    BY <1>1 DEF ToSet
  <1>4. Header[2] = "pid_start_time" /\ Header[3] = "detach" /\ Header[5] = "image"
        /\ Header[6] = "command" /\ Header[10] = "name"
    BY DEF Header
  <1>5. \A i \in 1 .. 10 : Header[i] # "volume_cnt" /\ Header[i] # "volume"
    BY DEF Header
  <1> QED
    BY <1>1, <1>2, <1>3, <1>4, <1>5 DEF Keys

\* Two sequences with an element between them.
Join(x, c, y) == x \o <<c>> \o y

\* Where their elements are.
LEMMA Joined ==
    ASSUME NEW S, NEW x \in Seq(S), NEW c \in S, NEW y \in Seq(S)
    PROVE  /\ Join(x, c, y) \in Seq(S) /\ Len(Join(x, c, y)) = Len(x) + 1 + Len(y)
           /\ \A i \in 1 .. Len(x) : Join(x, c, y)[i] = x[i]
           /\ Join(x, c, y)[Len(x) + 1] = c
           /\ \A i \in 1 .. Len(y) : Join(x, c, y)[Len(x) + 1 + i] = y[i]
  <1> DEFINE d == <<c>>
             w == x \o d
             z == w \o y
  <1>1. d \in Seq(S) /\ Len(d) = 1 /\ d[1] = c
    OBVIOUS
  <1> HIDE DEF d
  <1>2. /\ w \in Seq(S) /\ Len(w) = Len(x) + 1
        /\ \A i \in 1 .. Len(x) + 1 : w[i] = IF i <= Len(x) THEN x[i] ELSE d[i - Len(x)]
    <2>1. /\ w \in Seq(S) /\ Len(w) = Len(x) + Len(d)
          /\ \A i \in 1 .. Len(x) + Len(d) : w[i] = IF i <= Len(x) THEN x[i] ELSE d[i - Len(x)]
      <3>1. d \in Seq(S)
        BY <1>1
      <3> QED
        BY <3>1, ConcatProperties, Zenon
    <2> HIDE DEF w
    <2> QED
      BY <1>1, <2>1
  <1> HIDE DEF w
  <1>3. /\ z \in Seq(S) /\ Len(z) = Len(x) + 1 + Len(y)
        /\ \A i \in 1 .. Len(x) + 1 + Len(y) :
              z[i] = IF i <= Len(x) + 1 THEN w[i] ELSE y[i - (Len(x) + 1)]
    <2>1. /\ z \in Seq(S) /\ Len(z) = Len(w) + Len(y)
          /\ \A i \in 1 .. Len(w) + Len(y) : z[i] = IF i <= Len(w) THEN w[i] ELSE y[i - Len(w)]
      <3>1. w \in Seq(S)
        BY <1>2
      <3> QED
        BY <3>1, ConcatProperties, Zenon
    <2> HIDE DEF z
    <2> QED
      BY <1>2, <2>1
  <1> HIDE DEF z
  <1>4. Len(x) \in Nat /\ Len(y) \in Nat
    OBVIOUS
  <1>5. \A i \in 1 .. Len(x) : z[i] = x[i]
    BY <1>2, <1>3, <1>4
  <1>6. z[Len(x) + 1] = c
    BY <1>1, <1>2, <1>3, <1>4
  <1>7. \A i \in 1 .. Len(y) : z[Len(x) + 1 + i] = y[i]
    <2> TAKE i \in 1 .. Len(y)
    <2>1. Len(x) + 1 + i \in 1 .. Len(x) + 1 + Len(y) /\ ~(Len(x) + 1 + i <= Len(x) + 1)
          /\ (Len(x) + 1 + i) - (Len(x) + 1) = i
      BY <1>4
    <2> QED
      BY <1>3, <2>1
  <1> QED
    BY <1>3, <1>5, <1>6, <1>7, Zenon DEF Join, z, w, d

\* A record as create_container_info makes it, with any number of volumes.
IsRecord(info) ==
    /\ info = [detach |-> info.detach, image |-> info.image, command |-> info.command,
               name |-> info.name, volumes |-> info.volumes, start |-> TRUE]
    /\ Len(info.volumes) \in Nat
    /\ info.volumes = [i \in 1 .. Len(info.volumes) |-> info.volumes[i]]

\* td_write_container_info accepts it.
OneLine(info) ==
    /\ Whole(info, "image") /\ Whole(info, "command") /\ info.name.line
    /\ \A i \in DOMAIN info.volumes : info.volumes[i].container.line

HeaderLine(info, i) == Line(Header[i], Value(info, Header[i]))

\* The lines that are written.
LEMMA LinesShape ==
    ASSUME NEW info, IsRecord(info), OneLine(info)
    PROVE  LET n == Len(info.volumes)
           IN /\ Len(Lines(info)) = 11 + n /\ DOMAIN Lines(info) = 1 .. 11 + n
              /\ \A i \in 1 .. 10 : Lines(info)[i] = HeaderLine(info, i)
              /\ Lines(info)[11] = Line("volume_cnt", n)
              /\ \A i \in 1 .. n : Lines(info)[11 + i] = Line("volume", info.volumes[i])
              /\ \E S : Lines(info) \in Seq(S)
  <1> DEFINE n == Len(info.volumes)
             x == [i \in 1 .. 10 |-> HeaderLine(info, i)]
             X == {x[i] : i \in 1 .. 10}
             y == [i \in 1 .. n |-> Line("volume", info.volumes[i])]
             Y == {y[i] : i \in 1 .. n}
             c == Line("volume_cnt", n)
             S == X \cup Y \cup {c}
  <1>1. n \in Nat
    BY DEF IsRecord
  <1>2. \A k : Whole(info, k) = TRUE
    BY DEF OneLine, Whole
  <1>3. FlattenSeq([i \in DOMAIN Header |->
                   Text(Header[i], Value(info, Header[i]), Whole(info, Header[i]))]) = x
    <2>1. \A i \in 1 .. 10 : Text(Header[i], Value(info, Header[i]), Whole(info, Header[i])) = <<x[i]>>
      BY <1>2 DEF Text, HeaderLine
    <2>2. [i \in DOMAIN Header |->
                   Text(Header[i], Value(info, Header[i]), Whole(info, Header[i]))]
             = [i \in 1 .. 10 |-> <<x[i]>>]
      <3> HIDE DEF x
      <3> QED
        BY <2>1, HeaderFacts
    <2>3. x \in [1 .. 10 -> X] /\ 10 \in Nat
      OBVIOUS
    <2> HIDE DEF x, X
    <2>4. FlattenSeq([i \in 1 .. 10 |-> <<x[i]>>]) = x
      BY <2>3, FlattenLines
    <2> QED
      BY <2>2, <2>4
  <1>4. FlattenSeq([i \in DOMAIN info.volumes |->
                          Text("volume", info.volumes[i], info.volumes[i].container.line)]) = y
    <2>1. \A i \in 1 .. n : Text("volume", info.volumes[i], info.volumes[i].container.line) = <<y[i]>>
      BY DEF Text, OneLine, IsRecord
    <2>2. [i \in DOMAIN info.volumes |->
                          Text("volume", info.volumes[i], info.volumes[i].container.line)]
             = [i \in 1 .. n |-> <<y[i]>>]
      <3> HIDE DEF y
      <3> QED
        BY <2>1 DEF IsRecord
    <2>3. y \in [1 .. n -> Y]
      OBVIOUS
    <2> HIDE DEF y, Y
    <2>4. FlattenSeq([i \in 1 .. n |-> <<y[i]>>]) = y
      BY <1>1, <2>3, FlattenLines
    <2> QED
      BY <2>2, <2>4
  <1>5. Lines(info) = x \o <<c>> \o y
    BY <1>3, <1>4 DEF Lines
  <1>6. /\ x \in Seq(S) /\ Len(x) = 10 /\ \A i \in 1 .. 10 : x[i] = HeaderLine(info, i)
        /\ y \in Seq(S) /\ Len(y) = n /\ \A i \in 1 .. n : y[i] = Line("volume", info.volumes[i])
        /\ c \in S /\ c = Line("volume_cnt", n) /\ Lines(info) = Join(x, c, y)
    BY <1>1, <1>5 DEF Join
  <1> HIDE DEF x, y, S, c, n
  <1>7. PICK T, p, q, d :
           /\ p \in Seq(T) /\ Len(p) = 10 /\ \A i \in 1 .. 10 : p[i] = HeaderLine(info, i)
           /\ q \in Seq(T) /\ Len(q) = n /\ \A i \in 1 .. n : q[i] = Line("volume", info.volumes[i])
           /\ d \in T /\ d = Line("volume_cnt", n) /\ Lines(info) = Join(p, d, q)
    BY <1>6, Zenon
  <1>8. p \in Seq(T) /\ q \in Seq(T) /\ d \in T
    BY <1>7
  <1>9. /\ Join(p, d, q) \in Seq(T) /\ Len(Join(p, d, q)) = Len(p) + 1 + Len(q)
        /\ \A i \in 1 .. Len(p) : Join(p, d, q)[i] = p[i]
        /\ Join(p, d, q)[Len(p) + 1] = d
        /\ \A i \in 1 .. Len(q) : Join(p, d, q)[Len(p) + 1 + i] = q[i]
    <2>1. Join(p, d, q) \in Seq(T)
      BY <1>8, Joined
    <2>2. Len(Join(p, d, q)) = Len(p) + 1 + Len(q)
      BY <1>8, Joined
    <2>3. \A i \in 1 .. Len(p) : Join(p, d, q)[i] = p[i]
      BY <1>8, Joined
    <2>4. Join(p, d, q)[Len(p) + 1] = d
      BY <1>8, Joined
    <2>5. \A i \in 1 .. Len(q) : Join(p, d, q)[Len(p) + 1 + i] = q[i]
      BY <1>8, Joined
    <2> QED
      BY <2>1, <2>2, <2>3, <2>4, <2>5
  <1>10. DOMAIN Join(p, d, q) = 1 .. Len(Join(p, d, q))
    BY <1>9
  <1>11. /\ Len(Lines(info)) = 11 + n /\ DOMAIN Lines(info) = 1 .. 11 + n
         /\ \A i \in 1 .. 10 : Lines(info)[i] = HeaderLine(info, i)
         /\ Lines(info)[11] = Line("volume_cnt", n)
    BY <1>1, <1>7, <1>9, <1>10
  <1>12. \A i \in 1 .. n : Lines(info)[11 + i] = Line("volume", info.volumes[i])
    <2> TAKE i \in 1 .. n
    <2>1. Len(p) + 1 + i = 11 + i /\ i \in 1 .. Len(q)
      BY <1>1, <1>7
    <2>2. Join(p, d, q)[Len(p) + 1 + i] = q[i]
      BY <1>9, <2>1
    <2>3. q[i] = Line("volume", info.volumes[i]) /\ Lines(info) = Join(p, d, q)
      BY <1>7
    <2> QED
      BY <2>1, <2>2, <2>3
  <1>13. Lines(info) \in Seq(T)
    BY <1>7, <1>9
  <1> QED
    BY <1>11, <1>12, <1>13, Zenon DEF n

-----------------------------------------------------------------------------
\* The fields that make the record.
Told == {"detach", "image", "command", "name"}

\* The file has the required fields, the values of info and its volumes.
Tells(lines, h, info) ==
    /\ WellFormed(lines, h, Len(info.volumes)) /\ lines[h + 1].value = Len(info.volumes)
    /\ \A j \in 1 .. Len(info.volumes) : lines[h + 1 + j].value = info.volumes[j]
    /\ \A k \in Told : \E i \in 1 .. h : lines[i].key = k /\ lines[i].value = Value(info, k)
    /\ Required \subseteq KeysUpTo(lines, h + 1)

\* Then it reads as info, whether or not it has a start time.
LEMMA Reading ==
    ASSUME NEW info, IsRecord(info), NEW lines, NEW h \in Nat, Tells(lines, h, info)
    PROVE  ParseInfo(lines, info.name)
              = [info EXCEPT !.start = "pid_start_time" \in KeysUpTo(lines, h + 1)]
  <1> DEFINE n == Len(info.volumes)
             v == [j \in 1 .. n |-> lines[h + 1 + j].value]
             s == State(KeysUpTo(lines, h + 1), n, v, Upto(lines, h + 1))
  <1>1. n \in Nat
    BY DEF IsRecord
  <1>2. Parsed(lines) = s
    <2>1. lines[h + 1].value = n /\ n <= lines[h + 1].value /\ WellFormed(lines, h, n)
      BY <1>1 DEF Tells
    <2>2. Parsed(lines) = State(KeysUpTo(lines, h + 1), lines[h + 1].value, v, Upto(lines, h + 1))
      BY <1>1, <2>1, FileIsRead
    <2> QED
      BY <2>1, <2>2
  <1>3. v = info.volumes
    <2>1. info.volumes = [j \in 1 .. n |-> info.volumes[j]]
      BY DEF IsRecord
    <2>2. \A j \in 1 .. n : lines[h + 1 + j].value = info.volumes[j]
      BY DEF Tells
    <2> QED
      BY <2>1, <2>2
  <1>4. /\ s.ok /\ s.seen = KeysUpTo(lines, h + 1) /\ s.count = n
        /\ s.volumes = info.volumes /\ s.fields = Upto(lines, h + 1)
    BY <1>3 DEF State
  <1> HIDE DEF s
  <1>5. \A k \in Told : Field(s, k) = Value(info, k)
    <2> TAKE k \in Told
    <2>1. PICK i \in 1 .. h : lines[i].key = k /\ lines[i].value = Value(info, k)
      BY DEF Tells
    <2>2. Field(s, lines[i].key) = lines[i].value
      BY <1>1, <1>4, FieldIsFound DEF Tells
    <2> QED
      BY <2>1, <2>2
  <1>6. /\ Field(s, "detach") = info.detach /\ Field(s, "image") = info.image
        /\ Field(s, "command") = info.command /\ Field(s, "name") = info.name
    BY <1>5 DEF Told, Value
  <1>7. ParseInfo(lines, info.name) = Read(s)
    BY <1>2, <1>4, <1>6 DEF ParseInfo, Tells
  <1>8. Read(s) = [detach |-> info.detach, image |-> info.image, command |-> info.command,
                   name |-> info.name, volumes |-> info.volumes,
                   start |-> "pid_start_time" \in KeysUpTo(lines, h + 1)]
    BY <1>4, <1>6 DEF Read
  <1>9. info = [detach |-> info.detach, image |-> info.image, command |-> info.command,
                name |-> info.name, volumes |-> info.volumes, start |-> TRUE]
    BY DEF IsRecord
  <1>10. [info EXCEPT !.start = "pid_start_time" \in KeysUpTo(lines, h + 1)]
            = [detach |-> info.detach, image |-> info.image, command |-> info.command,
               name |-> info.name, volumes |-> info.volumes,
               start |-> "pid_start_time" \in KeysUpTo(lines, h + 1)]
    <2> DEFINE b == "pid_start_time" \in KeysUpTo(lines, h + 1)
    <2> HIDE DEF b
    <2>1. [info EXCEPT !.start = b]
            = [detach |-> info.detach, image |-> info.image, command |-> info.command,
               name |-> info.name, volumes |-> info.volumes, start |-> b]
      BY <1>9
    <2> QED
      BY <2>1 DEF b
  <1> QED
    BY <1>7, <1>8, <1>10

\* What is written is a file of ten fields, the number of volumes, and the volumes.
LEMMA WrittenWellFormed ==
    ASSUME NEW info, IsRecord(info), OneLine(info)
    PROVE  /\ WellFormed(Lines(info), 10, Len(info.volumes))
           /\ \A i \in 1 .. 10 : Lines(info)[i].key = Header[i]
                                 /\ Lines(info)[i].value = Value(info, Header[i])
           /\ Lines(info)[11].value = Len(info.volumes)
           /\ \A j \in 1 .. Len(info.volumes) :
                 /\ Lines(info)[11 + j].key = "volume"
                 /\ Lines(info)[11 + j].value = info.volumes[j]
  <1> DEFINE n == Len(info.volumes)
             L == Lines(info)
  <1>1. n \in Nat
    BY DEF IsRecord
  <1>2. /\ Len(L) = 11 + n /\ DOMAIN L = 1 .. 11 + n
        /\ \A i \in 1 .. 10 : L[i] = HeaderLine(info, i)
        /\ L[11] = Line("volume_cnt", n)
        /\ \A i \in 1 .. n : L[11 + i] = Line("volume", info.volumes[i])
    BY LinesShape
  <1> HIDE DEF L, n
  <1>3. /\ \A i \in 1 .. 10 : L[i].key = Header[i] /\ L[i].value = Value(info, Header[i])
        /\ L[11].key = "volume_cnt" /\ L[11].value = n
        /\ \A j \in 1 .. n : L[11 + j].key = "volume" /\ L[11 + j].value = info.volumes[j]
    <2>1. \A k, v : Line(k, v).key = k /\ Line(k, v).value = v
      BY DEF Line
    <2> QED
      BY <1>2, <2>1 DEF HeaderLine
  <1>4. WellFormed(L, 10, n)
    <2>1. Len(L) = 10 + 1 + n /\ DOMAIN L = 1 .. Len(L)
      BY <1>1, <1>2
    <2>2. \A i \in 1 .. 10 : L[i].key \in ToSet(Header)
      BY <1>3, HeaderFacts
    <2>3. \A i, j \in 1 .. 10 : L[i].key = L[j].key => i = j
      BY <1>3, HeaderFacts
    <2>4. L[10 + 1].key = "volume_cnt" /\ L[10 + 1].value \in Nat
      BY <1>1, <1>3
    <2> QED
      BY <2>1, <2>2, <2>3, <2>4 DEF WellFormed
  <1> QED
    BY <1>3, <1>4 DEF L, n

\* The keys of what is written.
LEMMA WrittenKeys ==
    ASSUME NEW info, IsRecord(info), OneLine(info)
    PROVE  KeysUpTo(Lines(info), 11) = Keys
  <1> DEFINE L == Lines(info)
  <1>1. \A i \in 1 .. 10 : L[i].key = Header[i]
    BY WrittenWellFormed
  <1>2. L[11].key = "volume_cnt"
    BY WrittenWellFormed DEF WellFormed
  <1> HIDE DEF L
  <1>3. KeysUpTo(L, 11) = {L[i].key : i \in 1 .. 10} \cup {L[11].key}
    BY DEF KeysUpTo
  <1>4. {L[i].key : i \in 1 .. 10} = {Header[i] : i \in 1 .. 10}
    BY <1>1
  <1> QED
    BY <1>2, <1>3, <1>4, HeaderFacts DEF L

\* The fields that are required are keys.
LEMMA RequiredKeys == Required \subseteq Keys /\ Told \subseteq Required /\ Required = Keys \ {"pid_start_time"}
  BY DEF Required, Keys, Told, Header, ToSet

\* A record that td_write_container_info accepts reads back as it was.
THEOREM RoundTrip ==
    ASSUME NEW info, IsRecord(info), OneLine(info)
    PROVE  ParseInfo(Lines(info), info.name) = info
  <1> DEFINE L == Lines(info)
             n == Len(info.volumes)
  <1>1. WellFormed(L, 10, n) /\ L[10 + 1].value = n
    BY WrittenWellFormed
  <1>2. \A j \in 1 .. n : L[10 + 1 + j].value = info.volumes[j]
    BY WrittenWellFormed
  <1>3. \A k \in Told : \E i \in 1 .. 10 : L[i].key = k /\ L[i].value = Value(info, k)
    <2>1. \A k \in Told : k = Header[3] \/ k = Header[5] \/ k = Header[6] \/ k = Header[10]
      BY HeaderFacts DEF Told
    <2>2. \A i \in 1 .. 10 : L[i].key = Header[i] /\ L[i].value = Value(info, Header[i])
      BY WrittenWellFormed
    <2> HIDE DEF L
    <2> QED
      BY <2>1, <2>2
  <1>4. KeysUpTo(L, 10 + 1) = Keys
    BY WrittenKeys
  <1>5. "pid_start_time" \in Keys
    BY HeaderFacts
  <1> HIDE DEF L
  <1>6. ParseInfo(L, info.name) = [info EXCEPT !.start = "pid_start_time" \in KeysUpTo(L, 10 + 1)]
    <2>1. Tells(L, 10, info)
      BY <1>1, <1>2, <1>3, <1>4, RequiredKeys DEF Tells
    <2> QED
      BY <2>1, Reading
  <1>7. [info EXCEPT !.start = TRUE] = info
    <2>1. info = [detach |-> info.detach, image |-> info.image, command |-> info.command,
                  name |-> info.name, volumes |-> info.volumes, start |-> TRUE]
      BY DEF IsRecord
    <2> QED
      BY <2>1
  <1> QED
    BY <1>4, <1>5, <1>6, <1>7 DEF L

-----------------------------------------------------------------------------
\* Where the elements of a sequence are after one of them was removed.
LEMMA Removed ==
    ASSUME NEW S, NEW s \in Seq(S), NEW i \in 1 .. Len(s)
    PROVE  /\ RemoveAt(s, i) \in Seq(S) /\ Len(RemoveAt(s, i)) = Len(s) - 1
           /\ \A j \in 1 .. Len(s) - 1 : RemoveAt(s, i)[j] = IF j < i THEN s[j] ELSE s[j + 1]
  <1> DEFINE a == SubSeq(s, 1, i - 1)
             b == SubSeq(s, i + 1, Len(s))
  <1>1. Len(s) \in Nat /\ i \in Nat
    OBVIOUS
  <1>2. a \in Seq(S) /\ Len(a) = i - 1 /\ \A j \in 1 .. i - 1 : a[j] = s[j]
    OBVIOUS
  <1>3. b \in Seq(S) /\ Len(b) = Len(s) - i /\ \A j \in 1 .. Len(s) - i : b[j] = s[i + j]
    OBVIOUS
  <1>4. RemoveAt(s, i) = a \o b
    BY DEF RemoveAt
  <1> HIDE DEF a, b
  <1>5. a \o b \in Seq(S) /\ Len(a \o b) = Len(a) + Len(b)
    <2>1. a \in Seq(S) /\ b \in Seq(S)
      BY <1>2, <1>3
    <2> QED
      BY <2>1, ConcatProperties
  <1>6. \A j \in 1 .. Len(a) + Len(b) : (a \o b)[j] = IF j <= Len(a) THEN a[j] ELSE b[j - Len(a)]
    BY <1>2, <1>3
  <1>7. ASSUME NEW j \in 1 .. Len(s) - 1
        PROVE  (a \o b)[j] = IF j < i THEN s[j] ELSE s[j + 1]
    <2>1. CASE j < i
      BY <1>1, <1>2, <1>3, <1>6, <2>1
    <2>2. CASE ~(j < i)
      <3>1. j - (i - 1) \in 1 .. Len(s) - i /\ i + (j - (i - 1)) = j + 1 /\ ~(j <= i - 1)
        BY <1>1, <2>2
      <3>2. b[j - (i - 1)] = s[j + 1]
        BY <1>3, <3>1
      <3> QED
        BY <1>1, <1>2, <1>3, <1>6, <2>2, <3>1, <3>2
    <2> QED
      BY <2>1, <2>2
  <1> QED
    BY <1>1, <1>2, <1>3, <1>4, <1>5, <1>7

\* And after one of them was doubled.
LEMMA Doubled ==
    ASSUME NEW S, NEW s \in Seq(S), NEW i \in 1 .. Len(s)
    PROVE  /\ InsertAt(s, i, s[i]) \in Seq(S) /\ Len(InsertAt(s, i, s[i])) = Len(s) + 1
           /\ \A j \in 1 .. Len(s) + 1 :
                 InsertAt(s, i, s[i])[j] = IF j <= i THEN s[j] ELSE s[j - 1]
  <1> DEFINE a == SubSeq(s, 1, i - 1)
             b == SubSeq(s, i, Len(s))
             e == s[i]
  <1>1. Len(s) \in Nat /\ i \in Nat /\ e \in S
    OBVIOUS
  <1>2. a \in Seq(S) /\ Len(a) = i - 1 /\ \A j \in 1 .. i - 1 : a[j] = s[j]
    OBVIOUS
  <1>3. b \in Seq(S) /\ Len(b) = Len(s) - i + 1 /\ \A j \in 1 .. Len(s) - i + 1 : b[j] = s[i - 1 + j]
    OBVIOUS
  <1>4. InsertAt(s, i, e) = Join(a, e, b)
    BY DEF InsertAt, Join
  <1>0. a \in Seq(S) /\ b \in Seq(S) /\ e \in S
    BY <1>1, <1>2, <1>3
  <1> HIDE DEF a, b, e
  <1>5. Join(a, e, b) \in Seq(S)
    BY <1>0, Joined
  <1>6. Len(Join(a, e, b)) = Len(s) + 1
    <2>1. Len(Join(a, e, b)) = Len(a) + 1 + Len(b)
      BY <1>0, Joined
    <2> QED
      BY <1>1, <1>2, <1>3, <2>1
  <1>7. \A j \in 1 .. Len(a) : Join(a, e, b)[j] = a[j]
    BY <1>0, Joined
  <1>8. Join(a, e, b)[Len(a) + 1] = e
    BY <1>0, Joined
  <1>9. \A j \in 1 .. Len(b) : Join(a, e, b)[Len(a) + 1 + j] = b[j]
    BY <1>0, Joined
  <1>10. ASSUME NEW j \in 1 .. Len(s) + 1
         PROVE  Join(a, e, b)[j] = IF j <= i THEN s[j] ELSE s[j - 1]
    <2>1. CASE j < i
      BY <1>1, <1>2, <1>7, <2>1
    <2>2. CASE j = i
      BY <1>1, <1>2, <1>8, <2>2 DEF e
    <2>3. CASE j > i
      <3>1. j - i \in 1 .. Len(b) /\ Len(a) + 1 + (j - i) = j /\ i - 1 + (j - i) = j - 1
        BY <1>1, <1>2, <1>3, <2>3
      <3>2. Join(a, e, b)[Len(a) + 1 + (j - i)] = b[j - i]
        BY <1>9, <3>1
      <3>3. b[j - i] = s[i - 1 + (j - i)]
        BY <1>3, <3>1
      <3> QED
        BY <1>1, <2>3, <3>1, <3>2, <3>3
    <2> QED
      BY <1>1, <2>1, <2>2, <2>3
  <1> QED
    BY <1>4, <1>5, <1>6, <1>10 DEF e

\* A file without one of the required fields is refused.
LEMMA MissingIsRefused ==
    ASSUME NEW lines, Len(lines) \in Nat, DOMAIN lines = 1 .. Len(lines), NEW name,
           NEW k \in Required, \A j \in 1 .. Len(lines) : lines[j].key # k
    PROVE  ParseInfo(lines, name) = NoInfo
  <1>1. Parsed(lines).seen \subseteq {lines[j].key : j \in 1 .. Len(lines)}
    BY SeenStood DEF Parsed
  <1>2. ~(Required \subseteq Parsed(lines).seen)
    BY <1>1
  <1> QED
    BY <1>2 DEF ParseInfo

\* So is one with a field of the header twice.
LEMMA RepeatedIsRefused ==
    ASSUME NEW lines, Len(lines) \in Nat, DOMAIN lines = 1 .. Len(lines), NEW name,
           NEW i \in 1 .. Len(lines) - 1, lines[i + 1].key = lines[i].key,
           \A j \in 1 .. i : lines[j].key # "volume_cnt"
    PROVE  ParseInfo(lines, name) = NoInfo
  <1> DEFINE P == Progress(lines)
  <1>1. P[i] = ParseLine(P[i - 1], lines[i]) /\ P[i - 1] \in States(lines)
    BY ProgressSteps, ProgressTyped
  <1>2. P[i + 1] = ParseLine(P[i], lines[i + 1]) /\ P[i] \in States(lines)
    <2>1. i + 1 \in 1 .. Len(lines) /\ (i + 1) - 1 = i
      OBVIOUS
    <2>2. P[i + 1] = ParseLine(P[(i + 1) - 1], lines[i + 1])
      BY <2>1, ProgressSteps
    <2>3. P[i] \in States(lines)
      BY ProgressTyped
    <2> QED
      BY <2>1, <2>2, <2>3
  <1>3. "volume_cnt" \notin P[i].seen /\ "volume_cnt" \notin P[i - 1].seen
    <2>1. P[i].seen \subseteq {lines[j].key : j \in 1 .. i}
      BY SeenStood
    <2>2. P[i - 1].seen \subseteq {lines[j].key : j \in 1 .. i - 1}
      BY SeenStood
    <2> HIDE DEF P
    <2> QED
      BY <2>1, <2>2
  <1> HIDE DEF P
  <1>4. P[i].ok => lines[i].key \in P[i].seen
    BY <1>1, <1>3 DEF ParseLine, States
  <1>5. ~P[i + 1].ok
    BY <1>2, <1>3, <1>4 DEF ParseLine, States
  <1>6. ~Parsed(lines).ok
    BY <1>5, RefusalIsFinal DEF P
  <1> QED
    BY <1>6 DEF ParseInfo

\* The file of info after its line i was lost: refused, or only the start time
\* is missing.
THEOREM LossIsNoticed ==
    ASSUME NEW info, IsRecord(info), OneLine(info), NEW i \in DOMAIN Lines(info)
    PROVE  LET read == ParseInfo(RemoveAt(Lines(info), i), info.name)
           IN read = NoInfo \/ read = [info EXCEPT !.start = FALSE]
  <1> DEFINE L == Lines(info)
             n == Len(info.volumes)
             D == RemoveAt(L, i)
  <1>1. /\ WellFormed(L, 10, n)
        /\ \A j \in 1 .. 10 : L[j].key = Header[j] /\ L[j].value = Value(info, Header[j])
        /\ L[11].value = n
        /\ \A j \in 1 .. n : L[11 + j].key = "volume" /\ L[11 + j].value = info.volumes[j]
    BY WrittenWellFormed
  <1>2. PICK S : L \in Seq(S)
    BY LinesShape
  <1>3. n \in Nat
    BY DEF IsRecord
  <1>4. Len(L) = 11 + n /\ i \in 1 .. 11 + n /\ i \in 1 .. Len(L) /\ L[11].key = "volume_cnt"
    BY <1>1, <1>3 DEF WellFormed
  <1> HIDE DEF L, n
  <1>5. /\ D \in Seq(S) /\ Len(D) = Len(L) - 1
        /\ \A j \in 1 .. Len(L) - 1 : D[j] = IF j < i THEN L[j] ELSE L[j + 1]
    BY <1>2, <1>4, Removed
  <1> HIDE DEF D
  <1>6. /\ Len(D) = 10 + n /\ Len(D) \in Nat /\ DOMAIN D = 1 .. Len(D)
        /\ \A j \in 1 .. 10 + n : D[j] = IF j < i THEN L[j] ELSE L[j + 1]
    BY <1>3, <1>4, <1>5
  <1>7. CASE i \in 1 .. 11 /\ i # 2
    <2> DEFINE k == L[i].key
    <2>1. k \in Required
      BY <1>1, <1>4, <1>7, HeaderFacts, RequiredKeys
    <2>2. \A j \in 1 .. 11 + n : j # i => L[j].key # k
      <3> SUFFICES ASSUME NEW j \in 1 .. 11 + n, j # i PROVE L[j].key # L[i].key
        OBVIOUS
      <3>1. CASE j \in 1 .. 11
        <4>1. \A l \in 1 .. 10 : L[l].key = Header[l] /\ L[l].key # "volume_cnt"
          BY <1>1, HeaderFacts
        <4>2. CASE i = 11
          BY <1>4, <3>1, <4>1, <4>2
        <4>3. CASE j = 11
          BY <1>4, <1>7, <4>1, <4>3
        <4>4. CASE i # 11 /\ j # 11
          <5>1. i \in 1 .. 10 /\ j \in 1 .. 10
            BY <1>7, <3>1, <4>4
          <5> QED
            BY <4>1, <5>1, HeaderFacts
        <4> QED
          BY <4>2, <4>3, <4>4
      <3>2. CASE j \notin 1 .. 11
        <4>1. j - 11 \in 1 .. n /\ 11 + (j - 11) = j
          BY <1>3, <3>2
        <4>2. L[j].key = "volume"
          BY <1>1, <4>1
        <4> QED
          BY <2>1, <4>2, HeaderFacts, RequiredKeys
      <3> QED
        BY <3>1, <3>2
    <2>3. \A j \in 1 .. Len(D) : D[j].key # k
      BY <1>3, <1>4, <1>6, <2>2
    <2> HIDE DEF k
    <2> QED
      BY <1>6, <2>1, <2>3, MissingIsRefused DEF D, L
  <1>8. CASE i = 2
    <2>1. /\ D[1] = L[1] /\ \A j \in 2 .. 10 + n : D[j] = L[j + 1]
      BY <1>3, <1>6, <1>8
    <2>2. WellFormed(D, 9, n)
      <3>1. Len(D) = 9 + 1 + n /\ DOMAIN D = 1 .. Len(D)
        BY <1>3, <1>6
      <3>2. D[1].key = Header[1] /\ \A j \in 2 .. 9 : D[j].key = Header[j + 1]
        BY <1>1, <1>3, <2>1
      <3>3. \A j \in 1 .. 9 : D[j].key \in ToSet(Header)
        BY <3>2, HeaderFacts
      <3>4. \A j, l \in 1 .. 9 : D[j].key = D[l].key => j = l
        BY <3>2, HeaderFacts
      <3>5. D[9 + 1].key = "volume_cnt" /\ D[9 + 1].value \in Nat
        BY <1>1, <1>3, <1>4, <2>1
      <3> QED
        BY <3>1, <3>3, <3>4, <3>5 DEF WellFormed
    <2>3. D[9 + 1].value = n /\ \A j \in 1 .. n : D[9 + 1 + j].value = info.volumes[j]
      <3>1. D[9 + 1] = L[11]
        BY <1>3, <2>1
      <3>2. \A j \in 1 .. n : D[9 + 1 + j] = L[11 + j]
        <4> TAKE j \in 1 .. n
        <4>1. 9 + 1 + j \in 2 .. 10 + n /\ 9 + 1 + j + 1 = 11 + j
          BY <1>3
        <4> QED
          BY <2>1, <4>1
      <3> QED
        BY <1>1, <3>1, <3>2
    <2>4. D[2] = L[3] /\ D[4] = L[5] /\ D[5] = L[6] /\ D[9] = L[10]
      BY <1>3, <2>1
    <2>5. \A k \in Told : \E j \in 1 .. 9 : D[j].key = k /\ D[j].value = Value(info, k)
      <3>1. \A k \in Told : k = Header[3] \/ k = Header[5] \/ k = Header[6] \/ k = Header[10]
        BY HeaderFacts DEF Told
      <3> QED
        BY <1>1, <2>4, <3>1
    <2>6. KeysUpTo(D, 9 + 1) = Keys \ {"pid_start_time"}
      <3>1. KeysUpTo(L, 11) = Keys
        BY WrittenKeys DEF L
      <3>2. \A j \in 1 .. 11 : j # 2 => L[j].key # "pid_start_time"
        BY <1>1, <1>4, HeaderFacts
      <3>3. L[2].key = "pid_start_time"
        BY <1>1, HeaderFacts
      <3>4. ASSUME NEW k \in KeysUpTo(D, 9 + 1) PROVE k \in Keys \ {"pid_start_time"}
        <4>1. PICK j \in 1 .. 10 : k = D[j].key
          BY <3>4 DEF KeysUpTo
        <4>2. \E l \in 1 .. 11 : l # 2 /\ D[j] = L[l]
          <5>1. CASE j = 1
            BY <2>1, <5>1
          <5>2. CASE j # 1
            BY <1>3, <2>1, <5>2
          <5> QED
            BY <5>1, <5>2
        <4> QED
          BY <3>1, <3>2, <4>1, <4>2 DEF KeysUpTo
      <3>5. ASSUME NEW k \in Keys \ {"pid_start_time"} PROVE k \in KeysUpTo(D, 9 + 1)
        <4>1. PICK l \in 1 .. 11 : k = L[l].key
          BY <3>1, <3>5 DEF KeysUpTo
        <4>2. l # 2
          BY <3>3, <3>5, <4>1
        <4>3. \E j \in 1 .. 10 : D[j] = L[l]
          <5>1. CASE l = 1
            BY <2>1, <5>1
          <5>2. CASE l # 1
            <6>1. l - 1 \in 2 .. 10 + n /\ (l - 1) + 1 = l /\ l - 1 \in 1 .. 10
              BY <1>3, <4>2, <5>2
            <6> QED
              BY <2>1, <6>1
          <5> QED
            BY <5>1, <5>2
        <4> QED
          BY <4>1, <4>3 DEF KeysUpTo
      <3> QED
        BY <3>4, <3>5
    <2>7. Tells(D, 9, info)
      BY <2>2, <2>3, <2>5, <2>6, RequiredKeys DEF Tells, n
    <2>8. ParseInfo(D, info.name) = [info EXCEPT !.start = "pid_start_time" \in KeysUpTo(D, 9 + 1)]
      BY <2>7, Reading
    <2>9. ("pid_start_time" \in KeysUpTo(D, 9 + 1)) = FALSE
      BY <2>6
    <2> QED
      BY <2>8, <2>9 DEF D, L
  <1>9. CASE i \in 12 .. 11 + n
    <2>1. n - 1 \in Nat /\ \A j \in 1 .. 11 : D[j] = L[j]
      BY <1>3, <1>6, <1>9
    <2>2. WellFormed(D, 10, n - 1)
      <3> DEFINE m == n - 1
      <3>1. Len(D) = 10 + 1 + m /\ m \in Nat /\ DOMAIN D = 1 .. Len(D)
        BY <1>3, <1>6, <2>1
      <3>2. \A j \in 1 .. 10 + 1 : D[j] = L[j]
        BY <2>1
      <3>3. WellFormed(L, 10, n) /\ 10 \in Nat
        BY <1>1
      <3> HIDE DEF m
      <3>4. WellFormed(D, 10, m)
        BY <1>3, <3>1, <3>2, <3>3, SameHeader
      <3> QED
        BY <3>4 DEF m
    <2>3. D[10 + 1].value = n /\ n - 1 <= D[10 + 1].value
      BY <1>1, <1>3, <2>1
    <2> DEFINE v == [j \in 1 .. n - 1 |-> D[10 + 1 + j].value]
               s == State(KeysUpTo(D, 10 + 1), n, v, Upto(D, 10 + 1))
    <2>4. Parsed(D) = s
      <3>1. Parsed(D) = State(KeysUpTo(D, 10 + 1), D[10 + 1].value, v, Upto(D, 10 + 1))
        BY <2>1, <2>2, <2>3, FileIsRead
      <3> QED
        BY <2>3, <3>1
    <2>5. Len(v) = n - 1
      BY <2>1
    <2>6. s.volumes = v /\ s.count = n
      BY DEF State
    <2> HIDE DEF v, s
    <2>7. Len(s.volumes) # s.count
      BY <1>3, <2>5, <2>6
    <2>8. ParseInfo(D, info.name) = NoInfo
      BY <2>4, <2>7 DEF ParseInfo
    <2> QED
      BY <2>8 DEF D, L
  <1> QED
    BY <1>3, <1>4, <1>7, <1>8, <1>9

\* The file of info with its line i twice is refused.
THEOREM DoublingIsNoticed ==
    ASSUME NEW info, IsRecord(info), OneLine(info), NEW i \in DOMAIN Lines(info)
    PROVE  ParseInfo(InsertAt(Lines(info), i, Lines(info)[i]), info.name) = NoInfo
  <1> DEFINE L == Lines(info)
             n == Len(info.volumes)
             D == InsertAt(L, i, L[i])
  <1>1. /\ WellFormed(L, 10, n)
        /\ \A j \in 1 .. 10 : L[j].key = Header[j]
        /\ L[11].value = n
    BY WrittenWellFormed
  <1>2. PICK S : L \in Seq(S)
    BY LinesShape
  <1>3. n \in Nat
    BY DEF IsRecord
  <1>4. Len(L) = 11 + n /\ i \in 1 .. 11 + n /\ i \in 1 .. Len(L)
    BY <1>1, <1>3 DEF WellFormed
  <1> HIDE DEF L, n
  <1>5. /\ D \in Seq(S) /\ Len(D) = Len(L) + 1
        /\ \A j \in 1 .. Len(L) + 1 : D[j] = IF j <= i THEN L[j] ELSE L[j - 1]
    BY <1>2, <1>4, Doubled
  <1> HIDE DEF D
  <1>6. /\ Len(D) = 12 + n /\ Len(D) \in Nat /\ DOMAIN D = 1 .. Len(D)
        /\ \A j \in 1 .. 12 + n : D[j] = IF j <= i THEN L[j] ELSE L[j - 1]
    BY <1>3, <1>4, <1>5
  <1>7. CASE i \in 1 .. 10
    <2>1. D[i + 1].key = D[i].key
      BY <1>3, <1>6, <1>7
    <2>2. \A j \in 1 .. i : D[j].key # "volume_cnt"
      <3>1. \A j \in 1 .. i : j \in 1 .. 10 /\ D[j] = L[j]
        BY <1>3, <1>6, <1>7
      <3> QED
        BY <1>1, <3>1, HeaderFacts
    <2>3. i \in 1 .. Len(D) - 1
      BY <1>3, <1>6, <1>7
    <2> QED
      BY <1>6, <2>1, <2>2, <2>3, RepeatedIsRefused DEF D, L
  <1>8. CASE i \in 11 .. 11 + n
    <2>1. \A j \in 1 .. 11 : D[j] = L[j]
      BY <1>3, <1>6, <1>8
    <2>2. WellFormed(D, 10, n + 1)
      <3> DEFINE m == n + 1
      <3>1. Len(D) = 10 + 1 + m /\ m \in Nat /\ DOMAIN D = 1 .. Len(D)
        BY <1>3, <1>6, <2>1
      <3>2. \A j \in 1 .. 10 + 1 : D[j] = L[j]
        BY <2>1
      <3>3. WellFormed(L, 10, n) /\ 10 \in Nat
        BY <1>1
      <3> HIDE DEF m
      <3>4. WellFormed(D, 10, m)
        BY <1>3, <3>1, <3>2, <3>3, SameHeader
      <3> QED
        BY <3>4 DEF m
    <2>3. D[10 + 1].value < n + 1 /\ n + 1 \in Nat
      BY <1>1, <1>3, <2>1
    <2>4. ~Parsed(D).ok
      BY <2>2, <2>3, SurplusIsRefused
    <2>5. ParseInfo(D, info.name) = NoInfo
      BY <2>4 DEF ParseInfo
    <2> QED
      BY <2>5 DEF D, L
  <1> QED
    BY <1>3, <1>4, <1>7, <1>8
=============================================================================
