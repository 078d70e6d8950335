------------------------ MODULE ConfigurationProofs -------------------------
(***************************************************************************)
(* The path of a command line, for any tokens and any limits: the lists    *)
(* stay within what was allocated for them, the parser of run and exec     *)
(* takes what the caller means and refuses the rest, the metadata of a run *)
(* tells what was mounted, also to an rm that finds the file damaged, and  *)
(* rm unmounts all of it.                                                  *)
(***************************************************************************)
EXTENDS Configuration, StatusCodecProofs

AllTokens == UNION {UNION ToSet(Tokens[c]) : c \in Commands}

\* What may stand in the arguments structure.
Volumes == {ParseVolume(t.volume) : t \in AllTokens} \ {BadVolume}
Texts == {t.text : t \in AllTokens}
Numbers == {NaN} \cup {t.number : t \in AllTokens}

Arguments ==
    [volumes : Seq(Volumes), ports : Seq({t.ports : t \in AllTokens}),
     env : Seq({KeyValPair(t.parts) : t \in AllTokens}),
     detach : BOOLEAN, interactive : BOOLEAN, tty : BOOLEAN,
     cpu : Numbers, memory : Numbers, time : Numbers,
     name : {DefaultName} \cup {t.name : t \in AllTokens}, image : {NoWord} \cup Texts,
     argv : Seq(Texts), stopped : BOOLEAN, error : BOOLEAN]

\* The lists of options have room.
Fitting(a) ==
    Len(a.volumes) <= OptionMax /\ Len(a.ports) <= OptionMax /\ Len(a.env) <= OptionMax

\* What an option does to the arguments, and what it leaves alone.
LEMMA OptionTyped ==
    ASSUME NEW a \in Arguments, Fitting(a), NEW t \in AllTokens, t.opt \in Options \ {"word"}
    PROVE  /\ Option(a, t) \in Arguments /\ Fitting(Option(a, t))
           /\ Option(a, t).argv = a.argv /\ Option(a, t).image = a.image
  <1> USE CapacityAssumption
  <1>0. Len(a.volumes) \in Nat /\ Len(a.ports) \in Nat /\ Len(a.env) \in Nat
    BY DEF Arguments
  <1>1. /\ Failed(a) \in Arguments /\ Fitting(Failed(a))
        /\ Failed(a).argv = a.argv /\ Failed(a).image = a.image
    BY DEF Failed, Arguments, Fitting
  <1>2. CASE t.opt = "v"
    <2> DEFINE S == Volumes
               v == ParseVolume(t.volume)
               w == Append(a.volumes, v)
    <2>1. Option(a, t) = Listed(a, "volumes", ParseVolume(t.volume) # BadVolume, v)
      BY <1>2 DEF Option
    <2>2. CASE Len(a.volumes) >= OptionMax \/ ~(ParseVolume(t.volume) # BadVolume)
      <3>1. Option(a, t) = Failed(a)
        BY <2>1, <2>2 DEF Listed
      <3> QED
        BY <1>1, <3>1
    <2>3. CASE Len(a.volumes) < OptionMax /\ ParseVolume(t.volume) # BadVolume
      <3>1. v \in S
        BY <2>3 DEF Volumes
      <3> HIDE DEF v
      <3>2. w \in Seq(S) /\ Len(w) <= OptionMax
        BY <1>0, <2>3, <3>1 DEF Arguments
      <3>3. Option(a, t) = [a EXCEPT !.volumes = w]
        <4>1. ~(Len(a.volumes) >= OptionMax \/ ~(ParseVolume(t.volume) # BadVolume))
          BY <1>0, <2>3
        <4> QED
          BY <2>1, <4>1 DEF Listed
      <3> HIDE DEF w
      <3> QED
        BY <3>2, <3>3 DEF Arguments, Fitting
    <2> QED
      BY <1>0, <2>2, <2>3
  <1>3. CASE t.opt = "p"
    <2> DEFINE S == {u.ports : u \in AllTokens}
               v == t.ports
               w == Append(a.ports, v)
    <2>1. Option(a, t) = Listed(a, "ports", ValidPorts(t.ports), v)
      BY <1>3 DEF Option
    <2>2. CASE Len(a.ports) >= OptionMax \/ ~(ValidPorts(t.ports))
      <3>1. Option(a, t) = Failed(a)
        BY <2>1, <2>2 DEF Listed
      <3> QED
        BY <1>1, <3>1
    <2>3. CASE Len(a.ports) < OptionMax /\ ValidPorts(t.ports)
      <3>1. v \in S
        OBVIOUS
      <3> HIDE DEF v
      <3>2. w \in Seq(S) /\ Len(w) <= OptionMax
        BY <1>0, <2>3, <3>1 DEF Arguments
      <3>3. Option(a, t) = [a EXCEPT !.ports = w]
        <4>1. ~(Len(a.ports) >= OptionMax \/ ~(ValidPorts(t.ports)))
          BY <1>0, <2>3
        <4> QED
          BY <2>1, <4>1 DEF Listed
      <3> HIDE DEF w
      <3> QED
        BY <3>2, <3>3 DEF Arguments, Fitting
    <2> QED
      BY <1>0, <2>2, <2>3
  <1>4. CASE t.opt = "e"
    <2> DEFINE S == {KeyValPair(u.parts) : u \in AllTokens}
               v == KeyValPair(t.parts)
               w == Append(a.env, v)
    <2>1. Option(a, t) = Listed(a, "env", Len(t.parts) >= 2, v)
      BY <1>4 DEF Option
    <2>2. CASE Len(a.env) >= OptionMax \/ ~(Len(t.parts) >= 2)
      <3>1. Option(a, t) = Failed(a)
        BY <2>1, <2>2 DEF Listed
      <3> QED
        BY <1>1, <3>1
    <2>3. CASE Len(a.env) < OptionMax /\ Len(t.parts) >= 2
      <3>1. v \in S
        OBVIOUS
      <3> HIDE DEF v
      <3>2. w \in Seq(S) /\ Len(w) <= OptionMax
        BY <1>0, <2>3, <3>1 DEF Arguments
      <3>3. Option(a, t) = [a EXCEPT !.env = w]
        <4>1. ~(Len(a.env) >= OptionMax \/ ~(Len(t.parts) >= 2))
          BY <1>0, <2>3
        <4> QED
          BY <2>1, <4>1 DEF Listed
      <3> HIDE DEF w
      <3> QED
        BY <3>2, <3>3 DEF Arguments, Fitting
    <2> QED
      BY <1>0, <2>2, <2>3
  <1>5. CASE t.opt \in {"i", "tty", "d", "unknown"}
    BY <1>5 DEF Option, Arguments, Fitting
  <1>6. CASE t.opt \in {"c", "m", "t"}
    <2>1. t.number \in Numbers
      BY DEF Numbers
    <2> QED
      BY <1>6, <2>1 DEF Option, Number, Failed, Arguments, Fitting
  <1>7. CASE t.opt = "n"
    BY <1>7 DEF Option, Arguments, Fitting
  <1> QED
    BY <1>2, <1>3, <1>4, <1>5, <1>6, <1>7 DEF Options

\* A word, a name or an argument changes only the texts.
LEMMA OfferTyped ==
    ASSUME NEW a \in Arguments, Fitting(a), NEW t \in AllTokens, t.opt \in Options
    PROVE  /\ Offer(a, t) \in Arguments /\ Fitting(Offer(a, t))
           /\ OfferStop(a, t) \in Arguments /\ Fitting(OfferStop(a, t))
           /\ [a EXCEPT !.argv = Append(@, t.text)] \in Arguments
           /\ Fitting([a EXCEPT !.argv = Append(@, t.text)])
           /\ Len(a.argv) + 1 <= ArgMax => Len(Offer(a, t).argv) + 1 <= ArgMax
  <1> DEFINE w == Append(a.argv, t.text)
             b == [a EXCEPT !.argv = w]
  <1>1. t.text \in Texts
    BY DEF Texts
  <1>2. w \in Seq(Texts) /\ Len(w) = Len(a.argv) + 1 /\ Len(a.argv) \in Nat
    BY <1>1 DEF Arguments
  <1> HIDE DEF w
  <1>3. b \in Arguments /\ Fitting(b) /\ b.argv = w
    BY <1>2 DEF Arguments, Fitting
  <1>4. t.opt # "word" =>
           /\ Option(a, t) \in Arguments /\ Fitting(Option(a, t))
           /\ Option(a, t).argv = a.argv
    BY OptionTyped
  <1>5. Failed(a) \in Arguments /\ Fitting(Failed(a)) /\ Failed(a).argv = a.argv
    BY DEF Failed, Arguments, Fitting
  <1>6. [a EXCEPT !.image = t.text] \in Arguments /\ Fitting([a EXCEPT !.image = t.text])
        /\ [a EXCEPT !.image = t.text].argv = a.argv
    BY <1>1 DEF Arguments, Fitting
  <1>7. Argument(a, t.text) = IF Len(a.argv) >= ArgMax - 1 THEN Failed(a) ELSE b
    BY DEF Argument, w
  <1>8. OfferStop(a, t) = b \/ (t.opt # "word" /\ OfferStop(a, t) = Option(a, t))
    BY DEF OfferStop, w
  <1>9. \/ Offer(a, t) = Argument(a, t.text) \/ Offer(a, t) = [a EXCEPT !.image = t.text]
        \/ t.opt # "word" /\ Offer(a, t) = Option(a, t)
    BY DEF Offer
  <1>10. Offer(a, t) \in Arguments /\ Fitting(Offer(a, t))
    BY <1>3, <1>4, <1>5, <1>6, <1>7, <1>9
  <1>11. Len(a.argv) + 1 <= ArgMax => Len(Offer(a, t).argv) + 1 <= ArgMax
    <2>1. ArgMax \in Nat
      BY CapacityAssumption
    <2>2. Offer(a, t).argv = a.argv \/ (Offer(a, t).argv = w /\ ~(Len(a.argv) >= ArgMax - 1))
      <3> HIDE DEF b
      <3> QED
        BY <1>3, <1>4, <1>5, <1>6, <1>7, <1>9
    <2> QED
      BY <1>2, <2>1, <2>2
  <1>12. OfferStop(a, t) \in Arguments /\ Fitting(OfferStop(a, t))
    BY <1>3, <1>4, <1>8
  <1>13. [a EXCEPT !.argv = Append(@, t.text)] = b
    BY DEF w
  <1> QED
    BY <1>3, <1>10, <1>11, <1>12, <1>13

-----------------------------------------------------------------------------
\* A volume that was accepted reads back from its text, its mode included.
LEMMA VolumeReadsBack ==
    ASSUME NEW v \in Volumes
    PROVE  ParseVolume(FormatVolume(v)) = v /\ v # BadVolume
  <1>1. PICK t \in AllTokens : v = ParseVolume(t.volume) /\ v # BadVolume
    BY DEF Volumes
  <1> DEFINE h == t.volume.host
             c == t.volume.container
             r == t.volume.mode = "ro"
             f == FormatVolume(v)
  <1>2. /\ h # NoPath /\ h.len \in 1 .. PathMax /\ c # NoPath /\ c.len \in 1 .. PathMax
        /\ h.absolute /\ h.line /\ Joins(c)
        /\ v = [host |-> h, container |-> c, ro |-> r]
    BY <1>1 DEF ParseVolume
  <1> HIDE DEF h, c, r
  <1>3. v.host = h /\ v.container = c /\ v.ro = r
    BY <1>2
  <1>4. f = [host |-> h, container |-> c, mode |-> IF r THEN "ro" ELSE "rw"]
    BY <1>3 DEF FormatVolume
  <1>5. f.host = h /\ f.container = c /\ f.mode = IF r THEN "ro" ELSE "rw"
    BY <1>4
  <1> HIDE DEF f
  <1>6. f.mode \in {"none", "ro", "rw"} /\ (f.mode = "ro") = r
    BY <1>5 DEF r
  <1>7. ParseVolume(f) = [host |-> f.host, container |-> f.container, ro |-> f.mode = "ro"]
    BY <1>2, <1>5, <1>6 DEF ParseVolume
  <1> QED
    BY <1>1, <1>2, <1>5, <1>6, <1>7 DEF f

\* The record of a run: its volumes, up to the number there is room for.
LEMMA RecordOfRun ==
    ASSUME NEW a \in Arguments, CreateInfo(a) # NoInfo
    PROVE  LET made == CreateInfo(a)
           IN /\ IsRecord(made) /\ made.name = a.name
              /\ Len(made.volumes) <= RecordedMax /\ Len(made.volumes) <= Len(a.volumes)
              /\ Len(a.volumes) <= RecordedMax => Len(made.volumes) = Len(a.volumes)
              /\ \A i \in 1 .. Len(made.volumes) :
                    ParseVolume(made.volumes[i]) = a.volumes[i] /\ a.volumes[i] # BadVolume
  <1> DEFINE count == IF Len(a.volumes) > RecordedMax THEN RecordedMax ELSE Len(a.volumes)
             volumes == [i \in 1 .. count |-> FormatVolume(a.volumes[i])]
             made == [detach |-> a.detach, image |-> a.image, command |-> a.argv,
                      name |-> a.name, volumes |-> volumes, start |-> TRUE]
  <1>1. CreateInfo(a) = made
    BY DEF CreateInfo
  <1>2. Len(a.volumes) \in Nat /\ a.volumes \in Seq(Volumes)
    BY DEF Arguments
  <1>3. /\ count \in Nat /\ count <= RecordedMax /\ count <= Len(a.volumes)
        /\ Len(a.volumes) <= RecordedMax => count = Len(a.volumes)
    BY <1>2, CapacityAssumption
  <1> HIDE DEF count
  <1>4. Len(volumes) = count /\ volumes = [i \in 1 .. count |-> volumes[i]]
    BY <1>3
  <1>5. \A i \in 1 .. count : ParseVolume(volumes[i]) = a.volumes[i] /\ a.volumes[i] # BadVolume
    <2> TAKE i \in 1 .. count
    <2>1. a.volumes[i] \in Volumes
      BY <1>2, <1>3
    <2>2. volumes[i] = FormatVolume(a.volumes[i])
      OBVIOUS
    <2> QED
      BY <2>1, <2>2, VolumeReadsBack
  <1> HIDE DEF volumes
  <1>6. made = [detach |-> made.detach, image |-> made.image, command |-> made.command,
                name |-> made.name, volumes |-> made.volumes, start |-> TRUE]
        /\ made.volumes = volumes /\ made.name = a.name
    OBVIOUS
  <1> HIDE DEF made
  <1>7. IsRecord(made)
    BY <1>3, <1>4, <1>6 DEF IsRecord
  <1> QED
    BY <1>1, <1>3, <1>4, <1>5, <1>6, <1>7

-----------------------------------------------------------------------------
\* An umount of the target of the topmost mount takes that mount.
LEMMA TopIsUnmounted ==
    ASSUME NEW S, NEW s \in Seq(S), NEW k \in 1 .. Len(s)
    PROVE  Unmount([i \in 1 .. k |-> s[i]], s[k].container) = [i \in 1 .. k - 1 |-> s[i]]
  <1> DEFINE p == [i \in 1 .. k |-> s[i]]
             q == [i \in 1 .. k - 1 |-> s[i]]
             on == {i \in DOMAIN p : p[i].container = s[k].container}
             top == CHOOSE i \in on : \A j \in on : j <= i
  <1>1. p \in Seq(S) /\ Len(p) = k /\ k \in 1 .. Len(p) /\ k \in Nat
    OBVIOUS
  <1>2. k \in on /\ \A j \in on : j <= k
    OBVIOUS
  <1>3. on \subseteq Nat
    OBVIOUS
  <1>4. Unmount(p, s[k].container) = RemoveAt(p, top)
    <2>1. on # {}
      BY <1>2
    <2> QED
      BY <2>1, Zenon DEF Unmount
  <1> HIDE DEF on
  <1>5. top \in on /\ \A j \in on : j <= top
    BY <1>2
  <1> HIDE DEF top
  <1>6. top = k
    BY <1>1, <1>2, <1>3, <1>5
  <1> HIDE DEF p
  <1>7. /\ RemoveAt(p, k) \in Seq(S) /\ Len(RemoveAt(p, k)) = Len(p) - 1
        /\ \A j \in 1 .. Len(p) - 1 : RemoveAt(p, k)[j] = IF j < k THEN p[j] ELSE p[j + 1]
    BY <1>1, Removed
  <1>8. q \in Seq(S) /\ Len(q) = k - 1 /\ \A j \in 1 .. k - 1 : q[j] = p[j]
    BY <1>1 DEF p
  <1>9. \A j \in 1 .. k - 1 : RemoveAt(p, k)[j] = q[j]
    BY <1>1, <1>7, <1>8
  <1> HIDE DEF q
  <1>10. RemoveAt(p, k) = q
    BY <1>1, <1>7, <1>8, <1>9, SeqEqual
  <1> QED
    BY <1>4, <1>6, <1>10 DEF p, q

\* g is what is left after each of the first n umounts.
Leaves(g, volumes, s, n) ==
    g = [k \in 0 .. n |->
            IF k = 0 THEN s ELSE Unmount(g[k - 1], ParseVolume(volumes[n + 1 - k]).container)]

\* umount_volumes with the volumes that are mounted leaves nothing.
LEMMA AllUnmounted ==
    ASSUME NEW S, NEW s \in Seq(S), NEW volumes, Len(volumes) = Len(s),
           \A i \in 1 .. Len(s) : ParseVolume(volumes[i]) = s[i]
    PROVE  UnmountAll(volumes, s) = <<>>
  <1> DEFINE n == Len(s)
             P == [k \in 0 .. n |-> [i \in 1 .. n - k |-> s[i]]]
             f == CHOOSE g : g = [k \in 0 .. n |->
                     IF k = 0 THEN s
                     ELSE Unmount(g[k - 1], ParseVolume(volumes[n + 1 - k]).container)]
  <1>1. n \in Nat
    OBVIOUS
  <1>2. UnmountAll(volumes, s) = f[n]
    BY Zenon DEF UnmountAll
  <1>3. P[0] = s /\ P[n] = <<>>
    <2>1. P[0] = [i \in 1 .. n |-> s[i]]
      BY <1>1
    <2>2. [i \in 1 .. n |-> s[i]] = s
      OBVIOUS
    <2>3. P[n] = [i \in 1 .. 0 |-> s[i]]
      BY <1>1
    <2> QED
      BY <2>1, <2>2, <2>3
  <1>4. \A k \in 1 .. n : P[k] = Unmount(P[k - 1], ParseVolume(volumes[n + 1 - k]).container)
    <2> TAKE k \in 1 .. n
    <2> DEFINE j == n + 1 - k
    <2>1. j \in 1 .. n /\ n - (k - 1) = j /\ n - k = j - 1 /\ k - 1 \in 0 .. n /\ k \in 0 .. n
      BY <1>1
    <2>2. P[k] = [i \in 1 .. n - k |-> s[i]] /\ P[k - 1] = [i \in 1 .. n - (k - 1) |-> s[i]]
      BY <2>1
    <2> HIDE DEF j, P
    <2>3. Unmount([i \in 1 .. j |-> s[i]], s[j].container) = [i \in 1 .. j - 1 |-> s[i]]
      BY <2>1, TopIsUnmounted
    <2>4. ParseVolume(volumes[j]) = s[j]
      BY <2>1
    <2> QED
      BY <2>1, <2>2, <2>3, <2>4 DEF j
  <1>5. P = [k \in 0 .. n |-> P[k]]
    OBVIOUS
  <1> HIDE DEF P
  <1>6. Leaves(P, volumes, s, n)
    <2>1. \A k \in 0 .. n : P[k] = IF k = 0 THEN s ELSE Unmount(P[k - 1], ParseVolume(volumes[n + 1 - k]).container)
      BY <1>1, <1>3, <1>4
    <2> QED
      BY <1>5, <2>1 DEF Leaves
  <1>7. Leaves(f, volumes, s, n)
    <2>1. \E g : g = [k \in 0 .. n |->
             IF k = 0 THEN s ELSE Unmount(g[k - 1], ParseVolume(volumes[n + 1 - k]).container)]
      BY <1>6 DEF Leaves
    <2> QED
      BY <2>1, Zenon DEF Leaves
  <1> HIDE DEF f
  <1>8. f[0] = s /\ \A k \in 1 .. n : f[k] = Unmount(f[k - 1], ParseVolume(volumes[n + 1 - k]).container)
    <2>1. \A k \in 0 .. n : f[k] = IF k = 0 THEN s ELSE Unmount(f[k - 1], ParseVolume(volumes[n + 1 - k]).container)
      BY <1>7, Zenon DEF Leaves
    <2>2. 0 \in 0 .. n /\ \A k \in 1 .. n : k \in 0 .. n /\ k # 0
      BY <1>1
    <2> QED
      BY <2>1, <2>2, Zenon
  <1> DEFINE I == {k \in 0 .. n : f[k] = P[k]}
  <1>9. 0 \in I
    BY <1>1, <1>3, <1>8
  <1>10. ASSUME NEW k \in 0 .. n, k # 0, k - 1 \in I PROVE k \in I
    <2>1. k \in 1 .. n /\ f[k - 1] = P[k - 1]
      BY <1>1, <1>10
    <2>2. f[k] = Unmount(f[k - 1], ParseVolume(volumes[n + 1 - k]).container)
      BY <1>8, <2>1
    <2>3. P[k] = Unmount(P[k - 1], ParseVolume(volumes[n + 1 - k]).container)
      BY <1>4, <2>1
    <2> QED
      BY <2>1, <2>2, <2>3
  <1>11. I \in SUBSET (0 .. n)
    OBVIOUS
  <1> HIDE DEF I
  <1>12. I = 0 .. n
    BY <1>1, <1>9, <1>10, <1>11, InductionUpTo
  <1> QED
    BY <1>1, <1>2, <1>3, <1>12 DEF I

-----------------------------------------------------------------------------
Made == CreateInfo(args)

\* The file is what was written, or that with a line lost or twice.
FileTells ==
    /\ Made # NoInfo /\ OneLine(Made)
    /\ ~damaged => file = Lines(Made)
    /\ damaged => \E i \in DOMAIN Lines(Made) :
          file = RemoveAt(Lines(Made), i) \/ file = InsertAt(Lines(Made), i, Lines(Made)[i])

\* What rm read is the record; only the start time may be missing.
ReadRight ==
    /\ Made # NoInfo
    /\ info = Made \/ (damaged /\ info = [Made EXCEPT !.start = FALSE])

\* How far the container has come.
Stages ==
    /\ pc \in {"parse", "refused", "accepted", "mounted", "rolledback"} => ~damaged
    /\ pc \notin {"read", "removed", "busy"} => info = NoInfo
    /\ pc \in {"mounted", "running", "read"} => mounted = args.volumes
    /\ pc = "running" => FileTells
    /\ pc = "unreadable" => damaged
    /\ pc # "corrupt"
    /\ pc \in {"read", "removed", "busy"} => ReadRight
    /\ pc = "busy" => Len(args.volumes) > RecordedMax

ConfInv == TypeOK /\ args \in Arguments /\ Stages

\* The lists of the type invariant are those of Fitting.
LEMMA TypeOKFits == TypeOK => Fitting(args)
  BY DEF TypeOK, Fitting

\* Before the first token the invariant holds.
LEMMA InitConfInv == Init => ConfInv
  <1> SUFFICES ASSUME Init PROVE ConfInv
    OBVIOUS
  <1>1. args \in Arguments
    <2>1. args = Fresh
      BY DEF Init
    <2>2. /\ <<>> \in Seq(Volumes)
          /\ <<>> \in Seq({t.ports : t \in AllTokens})
          /\ <<>> \in Seq({KeyValPair(t.parts) : t \in AllTokens})
          /\ <<>> \in Seq(Texts)
      OBVIOUS
    <2>3. NaN \in Numbers
      BY DEF Numbers
    <2>4. DefaultName \in {DefaultName} \cup {t.name : t \in AllTokens}
      OBVIOUS
    <2> QED
      BY <2>1, <2>2, <2>3, <2>4 DEF Fresh, Arguments
  <1>2. TypeOK
    <2>1. args = Fresh
      BY DEF Init
    <2>2. args.volumes = <<>> /\ args.ports = <<>> /\ args.env = <<>> /\ args.argv = <<>>
      BY <2>1 DEF Fresh
    <2>3. \A f \in {"volumes", "ports", "env"} : Len(args[f]) <= OptionMax
      BY <2>2, CapacityAssumption
    <2>4. Len(args.argv) + 1 <= ArgMax
      BY <2>2, CapacityAssumption
    <2>5. argv \in Seq(UNION ToSet(Tokens[cmd]))
      BY DEF Init
    <2> QED
      BY <2>3, <2>4, <2>5 DEF Init, TypeOK
  <1>3. Stages
    BY DEF Init, Stages
  <1> QED
    BY <1>1, <1>2, <1>3 DEF ConfInv

\* A token keeps the lists within their room.
LEMMA TokenConfInv ==
    ASSUME ConfInv, NEW t \in UNION ToSet(Tokens[cmd]), Token(t)
    PROVE  ConfInv'
  <1>1. /\ t \in AllTokens /\ t.opt \in Options
    <2>1. cmd \in Commands
      BY DEF ConfInv, TypeOK
    <2> QED
      BY <2>1, TokensAssumption DEF AllTokens
  <1>2. args \in Arguments /\ Fitting(args)
    BY TypeOKFits DEF ConfInv
  <1>3. \/ args' = args /\ args.stopped
        \/ cmd = "stop" /\ args' = OfferStop(args, t)
        \/ cmd \in {"run", "exec"} /\ args' = Offer(args, t)
        \/ cmd \notin {"run", "exec"} /\ args' = [args EXCEPT !.argv = Append(@, t.text)]
    BY DEF Token
  <1>4. args' \in Arguments /\ Fitting(args')
    BY <1>1, <1>2, <1>3, OfferTyped
  <1>5. cmd \in {"run", "exec"} => Len(args'.argv) + 1 <= ArgMax
    <2> SUFFICES ASSUME cmd \in {"run", "exec"} PROVE Len(args'.argv) + 1 <= ArgMax
      OBVIOUS
    <2>1. Len(args.argv) + 1 <= ArgMax
      BY DEF ConfInv, TypeOK
    <2>2. args' = args \/ args' = Offer(args, t)
      BY <1>3
    <2> QED
      BY <1>1, <1>2, <2>1, <2>2, OfferTyped
  <1>6. TypeOK'
    <2>1. argv' \in Seq(UNION ToSet(Tokens[cmd])) /\ cmd' = cmd /\ pc' = pc /\ damaged' = damaged /\ info' = info
      BY DEF ConfInv, TypeOK, Token
    <2>2. \A f \in {"volumes", "ports", "env"} : Len(args'[f]) <= OptionMax
      BY <1>4 DEF Fitting
    <2> QED
      BY <1>5, <2>1, <2>2 DEF ConfInv, TypeOK
  <1>7. Stages'
    BY DEF ConfInv, Stages, Token
  <1> QED
    BY <1>4, <1>6, <1>7 DEF ConfInv

\* The end of the line and the mounts.
LEMMA EarlyConfInv ==
    ASSUME ConfInv, EndOfLine \/ MountVolumes
    PROVE  ConfInv'
  <1>1. TypeOK' /\ args' \in Arguments
    BY DEF ConfInv, TypeOK, EndOfLine, MountVolumes
  <1>2. CASE EndOfLine
    <2>1. Stages'
      BY <1>2 DEF ConfInv, Stages, EndOfLine
    <2> QED
      BY <1>1, <2>1 DEF ConfInv
  <1>3. CASE MountVolumes
    <2>1. Stages'
      BY <1>3 DEF ConfInv, Stages, MountVolumes
    <2> QED
      BY <1>1, <2>1 DEF ConfInv
  <1> QED
    BY <1>2, <1>3

\* The metadata is written, or the run rolled back.
LEMMA WriteConfInv ==
    ASSUME ConfInv, WriteMetadata
    PROVE  ConfInv'
  <1>1. TypeOK' /\ args' \in Arguments /\ args' = args /\ info' = info /\ damaged' = damaged
    BY DEF ConfInv, TypeOK, WriteMetadata
  <1>2. pc = "mounted" /\ ~damaged /\ info = NoInfo /\ mounted = args.volumes
    BY DEF ConfInv, Stages, WriteMetadata
  <1>3. Made' = Made
    BY <1>1 DEF Made
  <1>4. \/ /\ pc' = "running" /\ Made # NoInfo /\ WriteInfo(Made) # NoInfo /\ file' = WriteInfo(Made)
           /\ mounted' = mounted
        \/ pc' = "rolledback"
    BY DEF WriteMetadata, Made
  <1>5. WriteInfo(Made) # NoInfo => OneLine(Made) /\ WriteInfo(Made) = Lines(Made)
    BY DEF WriteInfo, OneLine
  <1>6. pc' = "running" => FileTells'
    BY <1>1, <1>2, <1>3, <1>4, <1>5 DEF FileTells
  <1>7. Stages'
    BY <1>1, <1>2, <1>4, <1>6 DEF Stages
  <1> QED
    BY <1>1, <1>7 DEF ConfInv

\* The file is damaged.
LEMMA DamageConfInv ==
    ASSUME ConfInv, Damage
    PROVE  ConfInv'
  <1>1. TypeOK' /\ args' \in Arguments /\ args' = args /\ info' = info /\ damaged' /\ pc' = pc
        /\ mounted' = mounted
    BY DEF ConfInv, TypeOK, Damage
  <1>2. pc = "running" /\ FileTells /\ file = Lines(Made)
    BY DEF ConfInv, Stages, FileTells, Damage
  <1>3. Made' = Made
    BY <1>1 DEF Made
  <1>4. FileTells'
    BY <1>1, <1>2, <1>3 DEF FileTells, Damage
  <1>5. Stages'
    BY <1>1, <1>2, <1>4 DEF ConfInv, Stages
  <1> QED
    BY <1>1, <1>5 DEF ConfInv

\* rm reads the record, or nothing when the file is damaged.
LEMMA ReadConfInv ==
    ASSUME ConfInv, ReadMetadata
    PROVE  ConfInv'
  <1> DEFINE read == ParseInfo(file, args.name)
  <1>1. /\ args' = args /\ damaged' = damaged /\ mounted' = mounted /\ cmd' = cmd /\ argv' = argv
        /\ pc = "running" /\ info' = read /\ args \in Arguments
    BY DEF ReadMetadata, ConfInv
  <1>2. FileTells /\ mounted = args.volumes
    BY <1>1 DEF ConfInv, Stages
  <1>3. /\ IsRecord(Made) /\ Made.name = args.name
        /\ Len(Made.volumes) <= RecordedMax
        /\ \A i \in 1 .. Len(Made.volumes) :
              ParseVolume(Made.volumes[i]) = args.volumes[i] /\ args.volumes[i] # BadVolume
    BY <1>1, <1>2, RecordOfRun DEF FileTells, Made
  <1>4. ~damaged => read = Made
    BY <1>2, <1>3, RoundTrip DEF FileTells
  <1>5. damaged => read = NoInfo \/ read = [Made EXCEPT !.start = FALSE]
    BY <1>2, <1>3, LossIsNoticed, DoublingIsNoticed DEF FileTells
  <1>6. read = NoInfo \/ (read.volumes = Made.volumes /\ DOMAIN Made.volumes = 1 .. Len(Made.volumes))
    <2>1. [Made EXCEPT !.start = FALSE].volumes = Made.volumes
      <3>1. Made = [detach |-> Made.detach, image |-> Made.image, command |-> Made.command,
                    name |-> Made.name, volumes |-> Made.volumes, start |-> TRUE]
        BY <1>3 DEF IsRecord
      <3> QED
        BY <3>1
    <2>2. DOMAIN Made.volumes = 1 .. Len(Made.volumes)
      BY <1>3 DEF IsRecord
    <2> QED
      BY <1>4, <1>5, <2>1, <2>2
  <1>7. Made' = Made /\ Made # NoInfo
    BY <1>1, <1>2 DEF Made, FileTells
  <1> HIDE DEF read
  <1>8. \/ read = NoInfo /\ pc' = "unreadable" /\ damaged
        \/ read # NoInfo /\ pc' = "read"
    <2>1. CASE read = NoInfo
      BY <1>4, <1>7, <2>1 DEF ReadMetadata, read
    <2>2. CASE read # NoInfo
      <3>1. \A i \in DOMAIN read.volumes : ParseVolume(read.volumes[i]) # BadVolume
        BY <1>3, <1>6, <2>2
      <3> QED
        BY <2>2, <3>1 DEF ReadMetadata, read
    <2> QED
      BY <2>1, <2>2
  <1>9. pc' = "read" => ReadRight'
    BY <1>1, <1>4, <1>5, <1>7, <1>8 DEF ReadRight
  <1>10. Stages'
    BY <1>1, <1>2, <1>8, <1>9 DEF Stages
  <1>11. TypeOK'
    <2>1. info' # NoInfo => Len(info'.volumes) <= RecordedMax
      BY <1>1, <1>3, <1>6
    <2> QED
      BY <1>1, <1>8, <2>1 DEF ConfInv, TypeOK
  <1> QED
    BY <1>1, <1>10, <1>11 DEF ConfInv

\* rm unmounts.
LEMMA UnmountConfInv ==
    ASSUME ConfInv, UnmountVolumes
    PROVE  ConfInv'
  <1>1. /\ args' = args /\ damaged' = damaged /\ cmd' = cmd /\ argv' = argv /\ info' = info
        /\ pc = "read" /\ args \in Arguments /\ mounted' = UnmountAll(info.volumes, mounted)
        /\ pc' = IF mounted' = <<>> THEN "removed" ELSE "busy"
    BY DEF UnmountVolumes, ConfInv
  <1>2. ReadRight /\ mounted = args.volumes
    BY <1>1 DEF ConfInv, Stages
  <1>3. /\ IsRecord(Made)
        /\ Len(args.volumes) <= RecordedMax => Len(Made.volumes) = Len(args.volumes)
        /\ \A i \in 1 .. Len(Made.volumes) : ParseVolume(Made.volumes[i]) = args.volumes[i]
    BY <1>1, <1>2, RecordOfRun DEF ReadRight, Made
  <1>4. info.volumes = Made.volumes
    <2>1. [Made EXCEPT !.start = FALSE].volumes = Made.volumes
      <3>1. Made = [detach |-> Made.detach, image |-> Made.image, command |-> Made.command,
                    name |-> Made.name, volumes |-> Made.volumes, start |-> TRUE]
        BY <1>3 DEF IsRecord
      <3> QED
        BY <3>1
    <2> QED
      BY <1>2, <2>1 DEF ReadRight
  <1>5. Len(args.volumes) <= RecordedMax => mounted' = <<>>
    <2> SUFFICES ASSUME Len(args.volumes) <= RecordedMax PROVE mounted' = <<>>
      OBVIOUS
    <2>1. args.volumes \in Seq(Volumes) /\ Len(info.volumes) = Len(args.volumes)
      BY <1>1, <1>3, <1>4 DEF Arguments
    <2>2. \A i \in 1 .. Len(args.volumes) : ParseVolume(info.volumes[i]) = args.volumes[i]
      BY <1>3, <1>4, <2>1
    <2>3. UnmountAll(info.volumes, args.volumes) = <<>>
      BY <2>1, <2>2, AllUnmounted
    <2> QED
      BY <1>1, <1>2, <2>3
  <1>6. pc' \in {"removed", "busy"} /\ (pc' = "busy" => Len(args.volumes) > RecordedMax)
    <2>1. Len(args.volumes) \in Nat /\ RecordedMax \in Nat
      BY <1>1, CapacityAssumption DEF Arguments
    <2> QED
      BY <1>1, <1>5, <2>1
  <1>7. ReadRight'
    BY <1>1, <1>2 DEF ReadRight, Made
  <1>8. Stages'
    BY <1>1, <1>6, <1>7 DEF Stages
  <1>9. TypeOK'
    BY <1>1, <1>6 DEF ConfInv, TypeOK
  <1> QED
    BY <1>1, <1>8, <1>9 DEF ConfInv

\* Every step keeps the invariant.
LEMMA NextConfInv == ConfInv /\ [Next]_vars => ConfInv'
  <1> SUFFICES ASSUME ConfInv, [Next]_vars PROVE ConfInv'
    OBVIOUS
  <1>1. ASSUME NEW t \in UNION ToSet(Tokens[cmd]), Token(t) PROVE ConfInv'
    BY <1>1, TokenConfInv
  <1>2. CASE EndOfLine \/ MountVolumes
    BY <1>2, EarlyConfInv
  <1>3. CASE WriteMetadata
    BY <1>3, WriteConfInv
  <1>4. CASE Damage
    BY <1>4, DamageConfInv
  <1>5. CASE ReadMetadata
    BY <1>5, ReadConfInv
  <1>6. CASE UnmountVolumes
    BY <1>6, UnmountConfInv
  <1>7. CASE UNCHANGED vars
    BY <1>7 DEF vars, ConfInv, TypeOK, Stages, FileTells, ReadRight, Made
  <1> QED
    BY <1>1, <1>2, <1>3, <1>4, <1>5, <1>6, <1>7 DEF Next

\* The invariant holds throughout.
LEMMA ConfInvariance == Spec => []ConfInv
  BY InitConfInv, NextConfInv, PTL DEF Spec

-----------------------------------------------------------------------------
\* No list of options, arguments or recorded volumes outgrows what the code
\* allocated for it (docker_run_parse_func, create_container_info,
\* td_parse_container_info), whatever the command line and the file.
THEOREM ListsFit == Spec => []TypeOK
  <1>1. ConfInv => TypeOK
    BY DEF ConfInv
  <1> QED
    BY <1>1, ConfInvariance, PTL

\* Metadata that nobody damaged reads back as the record that was written, and
\* its volumes as those that were mounted.
THEOREM MetadataFidelity == Spec => []MetadataReadsBack
  <1>1. ConfInv => MetadataReadsBack
    <2> SUFFICES ASSUME ConfInv PROVE MetadataReadsBack
      OBVIOUS
    <2>1. pc \in {"unreadable", "corrupt"} => damaged
      BY DEF ConfInv, Stages
    <2>2. ASSUME pc = "read", ~damaged
          PROVE  /\ info = CreateInfo(args)
                 /\ \A i \in DOMAIN info.volumes : ParseVolume(info.volumes[i]) = args.volumes[i]
      <3>1. info = Made /\ Made # NoInfo /\ args \in Arguments
        BY <2>2 DEF ConfInv, Stages, ReadRight
      <3>2. /\ IsRecord(Made)
            /\ \A i \in 1 .. Len(Made.volumes) : ParseVolume(Made.volumes[i]) = args.volumes[i]
        BY <3>1, RecordOfRun DEF Made
      <3>3. DOMAIN Made.volumes = 1 .. Len(Made.volumes)
        BY <3>2 DEF IsRecord
      <3> QED
        BY <3>1, <3>2, <3>3 DEF Made
    <2> QED
      BY <2>1, <2>2 DEF MetadataReadsBack
  <1> QED
    BY <1>1, ConfInvariance, PTL

\* A file that lost a line or has one twice is refused by rm, or reads as the
\* record that was written but for its start time.
THEOREM DamageNoticed == Spec => []DamageIsNoticed
  <1>1. ConfInv => DamageIsNoticed
    <2> SUFFICES ASSUME ConfInv, pc = "read", damaged
                 PROVE  [info EXCEPT !.start = TRUE] = CreateInfo(args)
      BY DEF DamageIsNoticed
    <2>1. ReadRight /\ args \in Arguments
      BY DEF ConfInv, Stages
    <2>2. IsRecord(Made)
      BY <2>1, RecordOfRun DEF ReadRight, Made
    <2>3. Made = [detach |-> Made.detach, image |-> Made.image, command |-> Made.command,
                  name |-> Made.name, volumes |-> Made.volumes, start |-> TRUE]
      BY <2>2 DEF IsRecord
    <2>4. [Made EXCEPT !.start = TRUE] = Made
      BY <2>3
    <2>5. /\ Made = [x \in DOMAIN Made |-> Made[x]] /\ "start" \in DOMAIN Made
          /\ Made.start = TRUE
      BY <2>3
    <2>6. [[Made EXCEPT !.start = FALSE] EXCEPT !.start = TRUE] = Made
      BY <2>5
    <2> QED
      BY <2>1, <2>4, <2>6 DEF ReadRight, Made
  <1> QED
    BY <1>1, ConfInvariance, PTL

\* rm leaves no volume of a container mounted, however often a target was used,
\* unless there were more of them than the metadata has room for.
THEOREM UnmountedAll == Spec => []RmUnmountsAll
  <1>1. ConfInv => RmUnmountsAll
    BY DEF ConfInv, Stages, RmUnmountsAll
  <1> QED
    BY <1>1, ConfInvariance, PTL

-----------------------------------------------------------------------------
(***************************************************************************)
(* The parser of run and exec against what the caller means.               *)
(***************************************************************************)
\* g is what is picked of the first i elements of s, for i up to n.
Picks(g, s, opt, n) ==
    g = [i \in 0 .. n |->
            IF i = 0 THEN <<>>
            ELSE IF s[i].opt = opt THEN Append(g[i - 1], s[i]) ELSE g[i - 1]]

\* There is such a function for every n.
LEMMA PicksExists ==
    ASSUME NEW s, NEW opt
    PROVE  \A n \in Nat : \E g : Picks(g, s, opt, n)
  <1> DEFINE S == {n \in Nat : \E g : Picks(g, s, opt, n)}
  <1>1. 0 \in S
    <2> DEFINE g == [i \in 0 .. 0 |-> <<>>]
    <2>1. Picks(g, s, opt, 0)
      BY DEF Picks
    <2> QED
      BY <2>1
  <1>2. ASSUME NEW n \in Nat, n \in S PROVE n + 1 \in S
    <2>1. PICK g : Picks(g, s, opt, n)
      BY <1>2
    <2> DEFINE next == IF s[n + 1].opt = opt THEN Append(g[n], s[n + 1]) ELSE g[n]
               h == [i \in 0 .. n + 1 |-> IF i = n + 1 THEN next ELSE g[i]]
    <2>2. \A i \in 0 .. n :
             g[i] = IF i = 0 THEN <<>>
                    ELSE IF s[i].opt = opt THEN Append(g[i - 1], s[i]) ELSE g[i - 1]
      BY <2>1 DEF Picks
    <2>3. \A i \in 0 .. n + 1 :
             h[i] = IF i = 0 THEN <<>>
                    ELSE IF s[i].opt = opt THEN Append(h[i - 1], s[i]) ELSE h[i - 1]
      <3> TAKE i \in 0 .. n + 1
      <3>1. CASE i = n + 1
        <4>1. n + 1 # 0 /\ (n + 1) - 1 = n /\ n \in 0 .. n + 1 /\ n # n + 1 /\ n + 1 \in 0 .. n + 1
          OBVIOUS
        <4>2. h[n + 1] = next /\ h[n] = g[n]
          BY <4>1
        <4> HIDE DEF h
        <4> QED
          BY <3>1, <4>1, <4>2
      <3>2. CASE i # n + 1
        <4>1. i \in 0 .. n /\ (i # 0 => i - 1 \in 0 .. n + 1 /\ i - 1 # n + 1)
          BY <3>2
        <4>2. h[i] = g[i] /\ (i # 0 => h[i - 1] = g[i - 1])
          BY <3>2, <4>1
        <4> HIDE DEF h
        <4> QED
          BY <2>2, <4>1, <4>2
      <3> QED
        BY <3>1, <3>2
    <2>4. Picks(h, s, opt, n + 1)
      <3> HIDE DEF h
      <3>1. h = [i \in 0 .. n + 1 |-> h[i]]
        BY DEF h
      <3> QED
        BY <2>3, <3>1 DEF Picks
    <2> QED
      BY <2>4
  <1> HIDE DEF S
  <1>3. S \in SUBSET Nat
    BY DEF S
  <1>4. S = Nat
    BY <1>1, <1>2, <1>3, Induction
  <1> QED
    BY <1>4 DEF S

\* Picking, one element at a time.
LEMMA PickingSteps ==
    ASSUME NEW s, NEW opt, Len(s) \in Nat
    PROVE  /\ Picking(s, opt)[0] = <<>>
           /\ \A i \in 1 .. Len(s) :
                 Picking(s, opt)[i] = IF s[i].opt = opt THEN Append(Picking(s, opt)[i - 1], s[i])
                                      ELSE Picking(s, opt)[i - 1]
  <1>1. \E g : g = [i \in 0 .. Len(s) |->
                       IF i = 0 THEN <<>>
                       ELSE IF s[i].opt = opt THEN Append(g[i - 1], s[i]) ELSE g[i - 1]]
    <2>1. \E g : Picks(g, s, opt, Len(s))
      BY PicksExists
    <2> QED
      BY <2>1, Zenon DEF Picks
  <1>2. Picking(s, opt) = [i \in 0 .. Len(s) |->
            IF i = 0 THEN <<>>
            ELSE IF s[i].opt = opt THEN Append(Picking(s, opt)[i - 1], s[i])
                 ELSE Picking(s, opt)[i - 1]]
    BY <1>1, Zenon DEF Picking
  <1> DEFINE f == Picking(s, opt)
  <1>3. \A i \in 0 .. Len(s) :
           f[i] = IF i = 0 THEN <<>>
                  ELSE IF s[i].opt = opt THEN Append(f[i - 1], s[i]) ELSE f[i - 1]
    BY <1>2, Zenon
  <1> HIDE DEF f
  <1>4. f[0] = <<>>
    BY <1>3
  <1>5. \A i \in 1 .. Len(s) : f[i] = IF s[i].opt = opt THEN Append(f[i - 1], s[i]) ELSE f[i - 1]
    BY <1>3
  <1> QED
    BY <1>4, <1>5 DEF f

\* What is picked is a sequence of elements of s with that option.
LEMMA PickedTyped ==
    ASSUME NEW S, NEW s \in Seq(S), NEW opt
    PROVE  /\ Picked(s, opt) \in Seq({x \in S : x.opt = opt})
           /\ Picked(s, opt) \in Seq(S)
  <1> DEFINE n == Len(s)
             R == {x \in S : x.opt = opt}
             T == {i \in 0 .. n : Picking(s, opt)[i] \in Seq(R)}
  <1>1. n \in Nat /\ \A i \in 1 .. n : s[i] \in S
    OBVIOUS
  <1>2. 0 \in T
    <2>1. Picking(s, opt)[0] = <<>>
      BY <1>1, PickingSteps
    <2>2. <<>> \in Seq(R) /\ 0 \in 0 .. n
      BY <1>1
    <2> QED
      BY <2>1, <2>2
  <1>3. ASSUME NEW i \in 0 .. n, i # 0, i - 1 \in T PROVE i \in T
    <2>1. i \in 1 .. n /\ Picking(s, opt)[i - 1] \in Seq(R) /\ s[i] \in S
      BY <1>1, <1>3
    <2>2. Picking(s, opt)[i] = IF s[i].opt = opt THEN Append(Picking(s, opt)[i - 1], s[i])
                               ELSE Picking(s, opt)[i - 1]
      BY <1>1, <2>1, PickingSteps
    <2>3. s[i].opt = opt => s[i] \in R
      BY <2>1
    <2> HIDE DEF R
    <2>4. Picking(s, opt)[i] \in Seq(R)
      BY <2>1, <2>2, <2>3
    <2> QED
      BY <2>4
  <1> HIDE DEF T
  <1>4. T \in SUBSET (0 .. n)
    BY DEF T
  <1>5. T = 0 .. n
    BY <1>1, <1>2, <1>3, <1>4, InductionUpTo
  <1>6. Picked(s, opt) \in Seq(R)
    BY <1>1, <1>5 DEF T, Picked
  <1>7. R \subseteq S
    OBVIOUS
  <1> HIDE DEF R
  <1>8. Picked(s, opt) \in Seq(S)
    BY <1>6, <1>7
  <1> QED
    BY <1>6, <1>8 DEF R

\* One more element.
LEMMA PickedOneMore ==
    ASSUME NEW S, NEW s \in Seq(S), NEW t \in S, NEW opt
    PROVE  Picked(Append(s, t), opt)
              = IF t.opt = opt THEN Append(Picked(s, opt), t) ELSE Picked(s, opt)
  <1> DEFINE n == Len(s)
             u == Append(s, t)
             T == {i \in 0 .. n : Picking(u, opt)[i] = Picking(s, opt)[i]}
  <1>1. /\ n \in Nat /\ Len(u) = n + 1 /\ Len(u) \in Nat /\ u[n + 1] = t
        /\ \A i \in 1 .. n : u[i] = s[i]
    OBVIOUS
  <1> HIDE DEF u
  <1>2. /\ Picking(u, opt)[0] = <<>>
        /\ \A i \in 1 .. n + 1 :
              Picking(u, opt)[i] = IF u[i].opt = opt THEN Append(Picking(u, opt)[i - 1], u[i])
                                   ELSE Picking(u, opt)[i - 1]
    BY <1>1, PickingSteps
  <1>3. /\ Picking(s, opt)[0] = <<>>
        /\ \A i \in 1 .. n :
              Picking(s, opt)[i] = IF s[i].opt = opt THEN Append(Picking(s, opt)[i - 1], s[i])
                                   ELSE Picking(s, opt)[i - 1]
    BY <1>1, PickingSteps
  <1>4. 0 \in T
    BY <1>1, <1>2, <1>3
  <1>5. ASSUME NEW i \in 0 .. n, i # 0, i - 1 \in T PROVE i \in T
    <2>1. i \in 1 .. n /\ i \in 1 .. n + 1 /\ u[i] = s[i]
          /\ Picking(u, opt)[i - 1] = Picking(s, opt)[i - 1]
      BY <1>1, <1>5
    <2>2. Picking(u, opt)[i] = Picking(s, opt)[i]
      BY <1>2, <1>3, <2>1
    <2> QED
      BY <2>2
  <1> HIDE DEF T
  <1>6. T \in SUBSET (0 .. n)
    BY DEF T
  <1>7. T = 0 .. n
    BY <1>1, <1>4, <1>5, <1>6, InductionUpTo
  <1>8. Picking(u, opt)[n] = Picking(s, opt)[n]
    BY <1>1, <1>7 DEF T
  <1>9. Picking(u, opt)[n + 1] = IF t.opt = opt THEN Append(Picking(u, opt)[n], t)
                                 ELSE Picking(u, opt)[n]
    <2>1. n + 1 \in 1 .. n + 1 /\ (n + 1) - 1 = n
      BY <1>1
    <2> QED
      BY <1>1, <1>2, <2>1
  <1> QED
    BY <1>1, <1>8, <1>9 DEF Picked, u

\* Nothing is picked of nothing.
LEMMA PickedOfNothing == ASSUME NEW opt PROVE Picked(<<>>, opt) = <<>>
  BY PickingSteps DEF Picked

\* The first word, if there is one.
LEMMA FirstWord ==
    ASSUME NEW S, NEW s \in Seq(S), Words(s) # {}
    PROVE  /\ First(s) \in Words(s) /\ First(s) \in 1 .. Len(s)
           /\ \A j \in Words(s) : First(s) <= j
  <1>1. Words(s) \subseteq Nat /\ Words(s) \subseteq 1 .. Len(s)
    BY DEF Words
  <1>2. \E i \in Words(s) : \A j \in Words(s) : i <= j
    BY <1>1, Least
  <1>3. First(s) \in Words(s) /\ \A j \in Words(s) : First(s) <= j
    BY <1>2, Zenon DEF First
  <1> QED
    BY <1>1, <1>3

\* What one more token changes: before the first word, at it and behind it.
LEMMA WordsOneMore ==
    ASSUME NEW S, NEW s \in Seq(S), NEW t \in S
    PROVE  LET u == Append(s, t)
           IN /\ Words(s) = {} /\ t.opt # "word" => Words(u) = {} /\ Before(u) = u
              /\ Words(s) = {} /\ t.opt = "word" =>
                    Words(u) # {} /\ First(u) = Len(s) + 1 /\ Before(u) = s
              /\ Words(s) # {} => Words(u) # {} /\ First(u) = First(s) /\ Before(u) = Before(s)
  <1> DEFINE n == Len(s)
             u == Append(s, t)
  <1>1. /\ n \in Nat /\ Len(u) = n + 1 /\ u[n + 1] = t /\ DOMAIN u = 1 .. n + 1
        /\ \A i \in 1 .. n : u[i] = s[i]
        /\ u \in Seq(S) /\ DOMAIN s = 1 .. n
    OBVIOUS
  <1>2. \A m \in 0 .. n : SubSeq(u, 1, m) = SubSeq(s, 1, m)
    OBVIOUS
  <1>3. SubSeq(s, 1, n) = s
    OBVIOUS
  <1> HIDE DEF u
  <1>4. Words(u) = Words(s) \cup (IF t.opt = "word" THEN {n + 1} ELSE {})
    BY <1>1 DEF Words
  <1>5. ASSUME Words(s) = {}, t.opt # "word" PROVE Words(u) = {} /\ Before(u) = u
    BY <1>4, <1>5 DEF Before
  <1>6. ASSUME Words(s) = {}, t.opt = "word"
        PROVE  Words(u) # {} /\ First(u) = n + 1 /\ Before(u) = s
    <2>1. Words(u) = {n + 1}
      BY <1>4, <1>6
    <2>2. First(u) = n + 1
      <3>1. First(u) \in Words(u)
        BY <1>1, <2>1, FirstWord
      <3> QED
        BY <2>1, <3>1
    <2>3. (n + 1) - 1 = n /\ n \in 0 .. n
      BY <1>1
    <2> QED
      BY <1>2, <1>3, <2>1, <2>2, <2>3 DEF Before
  <1>7. ASSUME Words(s) # {}
        PROVE  Words(u) # {} /\ First(u) = First(s) /\ Before(u) = Before(s)
    <2>1. /\ First(s) \in Words(s) /\ First(s) \in 1 .. n
          /\ \A j \in Words(s) : First(s) <= j
      BY <1>7, FirstWord
    <2>2. Words(u) # {}
      BY <1>4, <1>7
    <2>3. /\ First(u) \in Words(u) /\ First(u) \in 1 .. n + 1
          /\ \A j \in Words(u) : First(u) <= j
      BY <1>1, <2>2, FirstWord
    <2>4. First(u) <= First(s)
      BY <1>4, <2>1, <2>3
    <2>5. First(u) \in Words(s)
      BY <1>1, <1>4, <2>1, <2>3, <2>4
    <2>6. First(u) = First(s)
      BY <1>1, <2>1, <2>3, <2>4, <2>5
    <2>7. First(s) - 1 \in 0 .. n
      BY <1>1, <2>1
    <2> QED
      BY <1>2, <1>7, <2>2, <2>6, <2>7 DEF Before
  <1> QED
    BY <1>5, <1>6, <1>7 DEF u

\* What was given of each option before IMAGE.
GivenIn(p) == [o \in Options |-> Picked(p, o)]

\* The lists that the options given make.
VolumesOf(g) == [i \in DOMAIN g |-> ParseVolume(g[i].volume)]
PortsOf(g) == [i \in DOMAIN g |-> g[i].ports]
EnvOf(g) == [i \in DOMAIN g |-> KeyValPair(g[i].parts)]

\* The arguments are those of the options given.
Agree(a, G) ==
    /\ a.volumes = VolumesOf(G["v"]) /\ a.ports = PortsOf(G["p"]) /\ a.env = EnvOf(G["e"])
    /\ a.detach = (G["d"] # <<>>) /\ a.interactive = (G["i"] # <<>>) /\ a.tty = (G["tty"] # <<>>)
    /\ a.name = IF G["n"] = <<>> THEN DefaultName ELSE Last(G["n"]).name
    /\ a.cpu = IF G["c"] = <<>> THEN NaN ELSE Last(G["c"]).number
    /\ a.memory = IF G["m"] = <<>> THEN NaN ELSE Last(G["m"]).number

\* None of them is at fault.
Sound(G) ==
    /\ Len(G["v"]) <= OptionMax /\ Len(G["p"]) <= OptionMax /\ Len(G["e"]) <= OptionMax
    /\ \A t \in ToSet(G["v"]) : ParseVolume(t.volume) # BadVolume
    /\ \A t \in ToSet(G["p"]) : ValidPorts(t.ports)
    /\ \A t \in ToSet(G["e"]) : Len(t.parts) >= 2
    /\ \A t \in ToSet(G["c"]) : InRange(t.number, CpuMin, IntMax)
    /\ \A t \in ToSet(G["m"]) : InRange(t.number, 1, IntMax)

\* What a step of the parser makes of the options given: it stopped at an
\* unknown one, or it exited at a fault, or all is well so far.
Right(b, H) ==
    /\ b.stopped => ~b.error /\ H["unknown"] # <<>>
    /\ b.error => ~Sound(H)
    /\ ~b.stopped /\ ~b.error => Agree(b, H) /\ Sound(H) /\ H["unknown"] = <<>>

\* b is a but for one field.
SameBut(a, b, field) ==
    /\ field # "volumes" => b.volumes = a.volumes
    /\ field # "ports" => b.ports = a.ports
    /\ field # "env" => b.env = a.env
    /\ field # "detach" => b.detach = a.detach
    /\ field # "interactive" => b.interactive = a.interactive
    /\ field # "tty" => b.tty = a.tty
    /\ field # "name" => b.name = a.name
    /\ field # "cpu" => b.cpu = a.cpu
    /\ field # "memory" => b.memory = a.memory
    /\ b.error = a.error /\ b.stopped = a.stopped

\* What is computed from a list, when it grows by one.
LEMMA Grown ==
    ASSUME NEW S, NEW s \in Seq(S), NEW t \in S
    PROVE  LET u == Append(s, t)
           IN /\ Len(u) = Len(s) + 1 /\ Len(s) \in Nat /\ u # <<>> /\ Last(u) = t
              /\ ToSet(u) = ToSet(s) \cup {t} /\ u \in Seq(S)
              /\ VolumesOf(u) = Append(VolumesOf(s), ParseVolume(t.volume))
              /\ PortsOf(u) = Append(PortsOf(s), t.ports)
              /\ EnvOf(u) = Append(EnvOf(s), KeyValPair(t.parts))
              /\ Len(VolumesOf(s)) = Len(s) /\ Len(PortsOf(s)) = Len(s) /\ Len(EnvOf(s)) = Len(s)
  <1> DEFINE n == Len(s)
             u == Append(s, t)
  <1>1. /\ n \in Nat /\ Len(u) = n + 1 /\ u[n + 1] = t /\ DOMAIN u = 1 .. n + 1
        /\ \A i \in 1 .. n : u[i] = s[i]
        /\ u \in Seq(S) /\ DOMAIN s = 1 .. n
    OBVIOUS
  <1>2. u # <<>>
    BY <1>1
  <1> HIDE DEF u
  <1>3. ToSet(u) = ToSet(s) \cup {t}
    BY <1>1 DEF ToSet
  <1>4. Last(u) = t
    BY <1>1 DEF Last
  <1>5. \A x : x = [i \in 1 .. n |-> x[i]] => Len(x) = n /\ \A y : Append(x, y) = [i \in 1 .. n + 1 |-> IF i = n + 1 THEN y ELSE x[i]]
    BY <1>1
  <1>6. VolumesOf(u) = Append(VolumesOf(s), ParseVolume(t.volume)) /\ Len(VolumesOf(s)) = n
    BY <1>1, <1>5 DEF VolumesOf
  <1>7. PortsOf(u) = Append(PortsOf(s), t.ports) /\ Len(PortsOf(s)) = n
    BY <1>1, <1>5 DEF PortsOf
  <1>8. EnvOf(u) = Append(EnvOf(s), KeyValPair(t.parts)) /\ Len(EnvOf(s)) = n
    BY <1>1, <1>5 DEF EnvOf
  <1> QED
    BY <1>1, <1>2, <1>3, <1>4, <1>6, <1>7, <1>8 DEF u

\* An option is taken as it is meant, or is at fault.
LEMMA OptionTaken ==
    ASSUME NEW a \in Arguments, NEW G \in [Options -> Seq(AllTokens)], NEW t \in AllTokens,
           t.opt \in Options \ {"word", "t"}, ~a.error, ~a.stopped,
           Agree(a, G), Sound(G), G["unknown"] = <<>>
    PROVE  Right(Option(a, t), [G EXCEPT ![t.opt] = Append(@, t)])
  <1> DEFINE b == Option(a, t)
             H == [G EXCEPT ![t.opt] = Append(@, t)]
             g == G[t.opt]
             u == Append(g, t)
  <1>1. /\ H[t.opt] = u /\ \A o \in Options : o # t.opt => H[o] = G[o]
        /\ g \in Seq(AllTokens)
    OBVIOUS
  <1> HIDE DEF g
  <1>2. /\ Len(u) = Len(g) + 1 /\ Len(g) \in Nat /\ u # <<>> /\ Last(u) = t
        /\ ToSet(u) = ToSet(g) \cup {t}
    <2>1. g \in Seq(AllTokens)
      BY <1>1
    <2>2. Len(u) = Len(g) + 1 /\ Len(g) \in Nat
      BY <2>1
    <2>3. Last(u) = t /\ ToSet(u) = ToSet(g) \cup {t}
      BY <2>1, Grown
    <2> HIDE DEF u
    <2>4. u # <<>>
      BY <2>2
    <2> QED
      BY <2>2, <2>3, <2>4
  <1>3. /\ VolumesOf(u) = Append(VolumesOf(g), ParseVolume(t.volume))
        /\ PortsOf(u) = Append(PortsOf(g), t.ports)
        /\ EnvOf(u) = Append(EnvOf(g), KeyValPair(t.parts))
    BY <1>1, Grown
  <1>4. Len(VolumesOf(g)) = Len(g) /\ Len(PortsOf(g)) = Len(g) /\ Len(EnvOf(g)) = Len(g)
    BY <1>1, Grown
  <1>5. OptionMax \in Nat /\ t \in ToSet(u)
    BY <1>2, CapacityAssumption
  <1>6. Failed(a).error /\ ~Failed(a).stopped
    BY DEF Failed, Arguments
  <1> HIDE DEF H, u
  <1> SUFFICES Right(b, H)
    BY DEF H
  <1>7. CASE t.opt = "v"
    <2>1. a.volumes = VolumesOf(g) /\ Len(a.volumes) = Len(g) /\ g = G["v"]
      BY <1>4, <1>7 DEF Agree, g
    <2>2. b = Listed(a, "volumes", ParseVolume(t.volume) # BadVolume, ParseVolume(t.volume))
      BY <1>7 DEF Option
    <2>3. H["v"] = u /\ \A o \in Options \ {"v"} : H[o] = G[o]
      BY <1>1, <1>7
    <2>4. CASE Len(a.volumes) >= OptionMax \/ ParseVolume(t.volume) = BadVolume
      <3>1. b = Failed(a)
        BY <2>2, <2>4 DEF Listed
      <3>2. ~Sound(H)
        BY <1>2, <1>5, <2>1, <2>3, <2>4 DEF Sound
      <3> QED
        BY <1>6, <3>1, <3>2 DEF Right
    <2>5. CASE ~(Len(a.volumes) >= OptionMax \/ ParseVolume(t.volume) = BadVolume)
      <3>1. b = [a EXCEPT !.volumes = Append(@, ParseVolume(t.volume))]
        BY <2>2, <2>5 DEF Listed
      <3> HIDE DEF b
      <3>2. SameBut(a, b, "volumes") /\ b.volumes = Append(a.volumes, ParseVolume(t.volume))
        BY <3>1 DEF SameBut, Arguments
      <3>3. Agree(b, H)
        <4>1. b.volumes = VolumesOf(H["v"])
          BY <1>3, <2>1, <2>3, <3>2, Zenon
        <4> QED
          BY <2>3, <3>2, <4>1 DEF Agree, SameBut, Options
      <3>4. Sound(H)
        <4>1. Len(u) <= OptionMax
          BY <1>2, <1>5, <2>1, <2>5
        <4> QED
          BY <1>2, <2>1, <2>3, <2>5, <4>1 DEF Sound, Options
      <3> QED
        BY <2>3, <3>2, <3>3, <3>4 DEF Right, SameBut, Options
    <2> QED
      BY <2>4, <2>5
  <1>8. CASE t.opt = "p"
    <2>1. a.ports = PortsOf(g) /\ Len(a.ports) = Len(g) /\ g = G["p"]
      BY <1>4, <1>8 DEF Agree, g
    <2>2. b = Listed(a, "ports", ValidPorts(t.ports), t.ports)
      BY <1>8 DEF Option
    <2>3. H["p"] = u /\ \A o \in Options \ {"p"} : H[o] = G[o]
      BY <1>1, <1>8
    <2>4. CASE Len(a.ports) >= OptionMax \/ ~ValidPorts(t.ports)
      <3>1. b = Failed(a)
        BY <2>2, <2>4 DEF Listed
      <3>2. ~Sound(H)
        BY <1>2, <1>5, <2>1, <2>3, <2>4 DEF Sound
      <3> QED
        BY <1>6, <3>1, <3>2 DEF Right
    <2>5. CASE ~(Len(a.ports) >= OptionMax \/ ~ValidPorts(t.ports))
      <3>1. b = [a EXCEPT !.ports = Append(@, t.ports)]
        BY <2>2, <2>5 DEF Listed
      <3> HIDE DEF b
      <3>2. SameBut(a, b, "ports") /\ b.ports = Append(a.ports, t.ports)
        BY <3>1 DEF SameBut, Arguments
      <3>3. Agree(b, H)
        <4>1. b.ports = PortsOf(H["p"])
          BY <1>3, <2>1, <2>3, <3>2, Zenon
        <4> QED
          BY <2>3, <3>2, <4>1 DEF Agree, SameBut, Options
      <3>4. Sound(H)
        <4>1. Len(u) <= OptionMax
          BY <1>2, <1>5, <2>1, <2>5
        <4> QED
          BY <1>2, <2>1, <2>3, <2>5, <4>1 DEF Sound, Options
      <3> QED
        BY <2>3, <3>2, <3>3, <3>4 DEF Right, SameBut, Options
    <2> QED
      BY <2>4, <2>5
  <1>9. CASE t.opt = "e"
    <2>1. a.env = EnvOf(g) /\ Len(a.env) = Len(g) /\ g = G["e"]
      BY <1>4, <1>9 DEF Agree, g
    <2>2. b = Listed(a, "env", Len(t.parts) >= 2, KeyValPair(t.parts))
      BY <1>9 DEF Option
    <2>3. H["e"] = u /\ \A o \in Options \ {"e"} : H[o] = G[o]
      BY <1>1, <1>9
    <2>4. CASE Len(a.env) >= OptionMax \/ ~(Len(t.parts) >= 2)
      <3>1. b = Failed(a)
        BY <2>2, <2>4 DEF Listed
      <3>2. ~Sound(H)
        BY <1>2, <1>5, <2>1, <2>3, <2>4 DEF Sound
      <3> QED
        BY <1>6, <3>1, <3>2 DEF Right
    <2>5. CASE ~(Len(a.env) >= OptionMax \/ ~(Len(t.parts) >= 2))
      <3>1. b = [a EXCEPT !.env = Append(@, KeyValPair(t.parts))]
        BY <2>2, <2>5 DEF Listed
      <3> HIDE DEF b
      <3>2. SameBut(a, b, "env") /\ b.env = Append(a.env, KeyValPair(t.parts))
        BY <3>1 DEF SameBut, Arguments
      <3>3. Agree(b, H)
        <4>1. b.env = EnvOf(H["e"])
          BY <1>3, <2>1, <2>3, <3>2, Zenon
        <4> QED
          BY <2>3, <3>2, <4>1 DEF Agree, SameBut, Options
      <3>4. Sound(H)
        <4>1. Len(u) <= OptionMax
          BY <1>2, <1>5, <2>1, <2>5
        <4> QED
          BY <1>2, <2>1, <2>3, <2>5, <4>1 DEF Sound, Options
      <3> QED
        BY <2>3, <3>2, <3>3, <3>4 DEF Right, SameBut, Options
    <2> QED
      BY <2>4, <2>5
  <1>10. CASE t.opt = "i"
    <2>1. H["i"] = u /\ \A o \in Options \ {"i"} : H[o] = G[o]
      BY <1>1, <1>10
    <2>2. b = [a EXCEPT !.interactive = TRUE]
      BY <1>10 DEF Option
    <2> HIDE DEF b
    <2>3. SameBut(a, b, "interactive") /\ b.interactive = TRUE
      BY <2>2 DEF SameBut, Arguments
    <2>4. Agree(b, H)
      BY <1>2, <2>1, <2>3 DEF Agree, SameBut, Options
    <2>5. Sound(H)
      BY <2>1 DEF Sound, Options
    <2> QED
      BY <2>1, <2>3, <2>4, <2>5 DEF Right, SameBut, Options
  <1>11. CASE t.opt = "tty"
    <2>1. H["tty"] = u /\ \A o \in Options \ {"tty"} : H[o] = G[o]
      BY <1>1, <1>11
    <2>2. b = [a EXCEPT !.tty = TRUE]
      BY <1>11 DEF Option
    <2> HIDE DEF b
    <2>3. SameBut(a, b, "tty") /\ b.tty = TRUE
      BY <2>2 DEF SameBut, Arguments
    <2>4. Agree(b, H)
      BY <1>2, <2>1, <2>3 DEF Agree, SameBut, Options
    <2>5. Sound(H)
      BY <2>1 DEF Sound, Options
    <2> QED
      BY <2>1, <2>3, <2>4, <2>5 DEF Right, SameBut, Options
  <1>12. CASE t.opt = "d"
    <2>1. H["d"] = u /\ \A o \in Options \ {"d"} : H[o] = G[o]
      BY <1>1, <1>12
    <2>2. b = [a EXCEPT !.detach = TRUE]
      BY <1>12 DEF Option
    <2> HIDE DEF b
    <2>3. SameBut(a, b, "detach") /\ b.detach = TRUE
      BY <2>2 DEF SameBut, Arguments
    <2>4. Agree(b, H)
      BY <1>2, <2>1, <2>3 DEF Agree, SameBut, Options
    <2>5. Sound(H)
      BY <2>1 DEF Sound, Options
    <2> QED
      BY <2>1, <2>3, <2>4, <2>5 DEF Right, SameBut, Options
  <1>13. CASE t.opt = "n"
    <2>1. H["n"] = u /\ \A o \in Options \ {"n"} : H[o] = G[o]
      BY <1>1, <1>13
    <2>2. b = [a EXCEPT !.name = t.name]
      BY <1>13 DEF Option
    <2> HIDE DEF b
    <2>3. SameBut(a, b, "name") /\ b.name = t.name
      BY <2>2 DEF SameBut, Arguments
    <2>4. Agree(b, H)
      BY <1>2, <2>1, <2>3 DEF Agree, SameBut, Options
    <2>5. Sound(H)
      BY <2>1 DEF Sound, Options
    <2> QED
      BY <2>1, <2>3, <2>4, <2>5 DEF Right, SameBut, Options
  <1>14. CASE t.opt = "c"
    <2>1. g = G["c"] /\ H["c"] = u /\ \A o \in Options \ {"c"} : H[o] = G[o]
      BY <1>1, <1>14 DEF g
    <2>2. b = Number(a, "cpu", InRange(t.number, CpuMin, IntMax), t.number)
      BY <1>14 DEF Option
    <2>3. CASE ~InRange(t.number, CpuMin, IntMax)
      <3>1. b = Failed(a)
        BY <2>2, <2>3 DEF Number
      <3>2. ~Sound(H)
        BY <1>5, <2>1, <2>3 DEF Sound
      <3> QED
        BY <1>6, <3>1, <3>2 DEF Right
    <2>4. CASE InRange(t.number, CpuMin, IntMax)
      <3>1. b = [a EXCEPT !.cpu = t.number]
        BY <2>2, <2>4 DEF Number
      <3> HIDE DEF b
      <3>2. SameBut(a, b, "cpu") /\ b.cpu = t.number
        BY <3>1 DEF SameBut, Arguments
      <3>3. Agree(b, H)
        BY <1>2, <2>1, <3>2 DEF Agree, SameBut, Options
      <3>4. Sound(H)
        BY <1>2, <2>1, <2>4 DEF Sound, Options
      <3> QED
        BY <2>1, <3>2, <3>3, <3>4 DEF Right, SameBut, Options
    <2> QED
      BY <2>3, <2>4
  <1>15. CASE t.opt = "m"
    <2>1. g = G["m"] /\ H["m"] = u /\ \A o \in Options \ {"m"} : H[o] = G[o]
      BY <1>1, <1>15 DEF g
    <2>2. b = Number(a, "memory", InRange(t.number, 1, IntMax), t.number)
      BY <1>15 DEF Option
    <2>3. CASE ~InRange(t.number, 1, IntMax)
      <3>1. b = Failed(a)
        BY <2>2, <2>3 DEF Number
      <3>2. ~Sound(H)
        BY <1>5, <2>1, <2>3 DEF Sound
      <3> QED
        BY <1>6, <3>1, <3>2 DEF Right
    <2>4. CASE InRange(t.number, 1, IntMax)
      <3>1. b = [a EXCEPT !.memory = t.number]
        BY <2>2, <2>4 DEF Number
      <3> HIDE DEF b
      <3>2. SameBut(a, b, "memory") /\ b.memory = t.number
        BY <3>1 DEF SameBut, Arguments
      <3>3. Agree(b, H)
        BY <1>2, <2>1, <3>2 DEF Agree, SameBut, Options
      <3>4. Sound(H)
        BY <1>2, <2>1, <2>4 DEF Sound, Options
      <3> QED
        BY <2>1, <3>2, <3>3, <3>4 DEF Right, SameBut, Options
    <2> QED
      BY <2>3, <2>4
  <1>16. CASE t.opt = "unknown"
    <2>1. b = [a EXCEPT !.stopped = TRUE]
      BY <1>16 DEF Option
    <2>2. b.stopped /\ ~b.error
      BY <2>1 DEF Arguments
    <2>3. H["unknown"] # <<>>
      BY <1>1, <1>2, <1>16
    <2> QED
      BY <2>2, <2>3 DEF Right
  <1> QED
    BY <1>7, <1>8, <1>9, <1>10, <1>11, <1>12, <1>13, <1>14, <1>15, <1>16 DEF Options

\* What was given, when one more token precedes IMAGE.
LEMMA GivenOneMore ==
    ASSUME NEW p \in Seq(AllTokens)
    PROVE  /\ GivenIn(p) \in [Options -> Seq(AllTokens)]
           /\ \A t \in AllTokens :
                 GivenIn(Append(p, t)) = [GivenIn(p) EXCEPT ![t.opt] = Append(@, t)]
  <1>1. \A o \in Options : Picked(p, o) \in Seq(AllTokens)
    BY PickedTyped
  <1>2. ASSUME NEW t \in AllTokens
        PROVE  GivenIn(Append(p, t)) = [GivenIn(p) EXCEPT ![t.opt] = Append(@, t)]
    <2>1. \A o \in Options :
             Picked(Append(p, t), o)
                = IF t.opt = o THEN Append(Picked(p, o), t) ELSE Picked(p, o)
      BY PickedOneMore
    <2> QED
      BY <2>1 DEF GivenIn
  <1> QED
    BY <1>1, <1>2 DEF GivenIn

\* The words behind IMAGE have room, and the NULL.
Behind(s) == Words(s) # {} => Len(s) - First(s) < ArgMax

\* The texts behind IMAGE.
TextsBehind(s) == [i \in 1 .. Len(s) - First(s) |-> s[First(s) + i].text]

\* The parser has read s and got a: it stopped at an unknown option, it exited
\* at a fault, or a is what s means so far.
Reads(a, s) ==
    LET G == GivenIn(Before(s))
    IN /\ a.stopped => a.image = NoWord /\ ~a.error /\ G["unknown"] # <<>>
       /\ a.error => ~(Sound(G) /\ Behind(s))
       /\ ~a.stopped /\ ~a.error =>
             /\ Agree(a, G) /\ Sound(G) /\ G["unknown"] = <<>> /\ Behind(s)
             /\ Words(s) = {} => a.image = NoWord /\ a.argv = <<>>
             /\ Words(s) # {} =>
                   a.image # NoWord /\ a.image = s[First(s)].text /\ a.argv = TextsBehind(s)

\* Nothing read yet.
LEMMA FreshReads == Reads(Fresh, <<>>)
  <1>1. Words(<<>>) = {}
    BY DEF Words
  <1>2. Before(<<>>) = <<>>
    BY <1>1 DEF Before
  <1> DEFINE G == GivenIn(<<>>)
  <1>3. \A o \in Options : G[o] = <<>>
    BY PickedOfNothing DEF GivenIn
  <1> HIDE DEF G
  <1>4. /\ G["v"] = <<>> /\ G["p"] = <<>> /\ G["e"] = <<>> /\ G["c"] = <<>> /\ G["m"] = <<>>
        /\ G["d"] = <<>> /\ G["i"] = <<>> /\ G["tty"] = <<>> /\ G["n"] = <<>>
        /\ G["unknown"] = <<>>
    BY <1>3 DEF Options
  <1>5. Sound(G)
    <2>1. ToSet(<<>>) = {} /\ Len(<<>>) = 0
      BY DEF ToSet
    <2> QED
      BY <1>4, <2>1, CapacityAssumption DEF Sound
  <1>6. VolumesOf(<<>>) = <<>> /\ PortsOf(<<>>) = <<>> /\ EnvOf(<<>>) = <<>>
    BY DEF VolumesOf, PortsOf, EnvOf
  <1>7. Agree(Fresh, G)
    <2>1. /\ Fresh.volumes = <<>> /\ Fresh.ports = <<>> /\ Fresh.env = <<>>
          /\ Fresh.detach = FALSE /\ Fresh.interactive = FALSE /\ Fresh.tty = FALSE
          /\ Fresh.name = DefaultName /\ Fresh.cpu = NaN /\ Fresh.memory = NaN
      BY DEF Fresh
    <2> QED
      BY <1>4, <1>6, <2>1 DEF Agree
  <1>8. Fresh.image = NoWord /\ Fresh.argv = <<>> /\ ~Fresh.stopped /\ ~Fresh.error
    BY DEF Fresh
  <1>9. Behind(<<>>)
    BY <1>1 DEF Behind
  <1> QED
    BY <1>1, <1>2, <1>4, <1>5, <1>7, <1>8, <1>9 DEF Reads, G

\* One token more, of run or exec.
LEMMA OfferReads ==
    ASSUME NEW a \in Arguments, Fitting(a), NEW s \in Seq(AllTokens), Reads(a, s), ~a.error,
           NEW t \in AllTokens, t.opt \in Options \ {"t"}, t.text # NoWord
    PROVE  Reads(IF a.stopped THEN a ELSE Offer(a, t), Append(s, t))
  <1> DEFINE n == Len(s)
             u == Append(s, t)
             G == GivenIn(Before(s))
             H == GivenIn(Before(u))
  <1>1. /\ n \in Nat /\ Len(u) = n + 1 /\ u[n + 1] = t
        /\ \A i \in 1 .. n : u[i] = s[i]
        /\ u \in Seq(AllTokens)
    OBVIOUS
  <1>2. /\ Words(s) = {} /\ t.opt # "word" => Words(u) = {} /\ Before(u) = u
        /\ Words(s) = {} /\ t.opt = "word" =>
              Words(u) # {} /\ First(u) = n + 1 /\ Before(u) = s
        /\ Words(s) # {} => Words(u) # {} /\ First(u) = First(s) /\ Before(u) = Before(s)
    BY WordsOneMore
  <1>3. Words(s) = {} => Before(s) = s
    BY DEF Before
  <1>4. Words(s) = {} /\ t.opt # "word" => H = [G EXCEPT ![t.opt] = Append(@, t)]
    BY <1>2, <1>3, GivenOneMore
  <1>5. Words(s) # {} \/ t.opt = "word" => H = G
    BY <1>2, <1>3
  <1>6. Words(s) = {} => G \in [Options -> Seq(AllTokens)]
    BY <1>3, GivenOneMore
  <1>7. Words(s) # {} => First(s) \in 1 .. n
    BY FirstWord
  <1>8. ArgMax \in Nat \ {0}
    BY CapacityAssumption
  <1> HIDE DEF u, G, H
  <1>9. CASE a.stopped
    <2>1. a.image = NoWord /\ ~a.error /\ G["unknown"] # <<>>
      BY <1>9 DEF Reads, G
    <2>2. H["unknown"] # <<>>
      <3>1. CASE Words(s) = {} /\ t.opt # "word"
        <4>1. H["unknown"] = G["unknown"] \/ H["unknown"] = Append(G["unknown"], t)
          BY <1>4, <1>6, <3>1 DEF Options
        <4>2. G["unknown"] \in Seq(AllTokens)
          BY <1>6, <3>1 DEF Options
        <4> QED
          BY <2>1, <4>1, <4>2
      <3> QED
        BY <1>5, <2>1, <3>1
    <2> QED
      BY <1>9, <2>1, <2>2 DEF Reads, H, u
  <1>10. CASE ~a.stopped /\ Words(s) # {}
    <2>1. /\ Agree(a, G) /\ Sound(G) /\ G["unknown"] = <<>> /\ Behind(s)
          /\ a.image # NoWord /\ a.image = s[First(s)].text /\ a.argv = TextsBehind(s)
      BY <1>10 DEF Reads, G
    <2>2. Offer(a, t) = Argument(a, t.text)
      BY <2>1 DEF Offer
    <2>3. Len(a.argv) = n - First(s)
      BY <1>1, <1>7, <1>10, <2>1 DEF TextsBehind
    <2>4. H = G /\ First(u) = First(s) /\ Words(u) # {} /\ First(s) \in 1 .. n
      BY <1>2, <1>5, <1>7, <1>10
    <2>5. CASE Len(a.argv) >= ArgMax - 1
      <3>1. Offer(a, t) = Failed(a)
        BY <2>2, <2>5 DEF Argument
      <3>2. Failed(a).error /\ ~Failed(a).stopped
        BY <1>10 DEF Failed, Arguments
      <3>3. ~Behind(u)
        BY <1>1, <1>8, <2>3, <2>4, <2>5 DEF Behind
      <3> QED
        BY <1>10, <3>1, <3>2, <3>3 DEF Reads, u
    <2>6. CASE ~(Len(a.argv) >= ArgMax - 1)
      <3> DEFINE b == Offer(a, t)
      <3>1. b = [a EXCEPT !.argv = Append(@, t.text)]
        BY <2>2, <2>6 DEF Argument
      <3> HIDE DEF b
      <3>2. SameBut(a, b, "argv") /\ b.image = a.image /\ b.argv = Append(a.argv, t.text)
        BY <3>1 DEF SameBut, Arguments
      <3>3. Agree(b, H)
        BY <2>1, <2>4, <3>2 DEF Agree, SameBut
      <3>4. Behind(u)
        BY <1>1, <1>8, <2>3, <2>4, <2>6 DEF Behind
      <3>5. b.argv = TextsBehind(u)
        <4> DEFINE m == n - First(s)
                   x == TextsBehind(s)
                   y == TextsBehind(u)
        <4>1. m \in Nat /\ x = [i \in 1 .. m |-> s[First(s) + i].text]
          BY <1>1, <2>4 DEF TextsBehind
        <4>2. y = [i \in 1 .. m + 1 |-> u[First(s) + i].text]
          BY <1>1, <2>4 DEF TextsBehind
        <4>3. \A i \in 1 .. m : u[First(s) + i] = s[First(s) + i]
          BY <1>1, <2>4
        <4>4. u[First(s) + (m + 1)] = t
          BY <1>1, <2>4
        <4> HIDE DEF m, x, y
        <4>5. Append(x, t.text) = y
          BY <4>1, <4>2, <4>3, <4>4
        <4> QED
          BY <2>1, <3>2, <4>5 DEF x, y
      <3>6. b.image = u[First(u)].text
        BY <1>1, <2>1, <2>4, <3>2
      <3> QED
        BY <1>10, <2>1, <2>4, <3>2, <3>3, <3>4, <3>5, <3>6 DEF Reads, SameBut, u, b, H
    <2> QED
      BY <2>5, <2>6
  <1>11. CASE ~a.stopped /\ Words(s) = {} /\ t.opt = "word"
    <2>1. /\ Agree(a, G) /\ Sound(G) /\ G["unknown"] = <<>>
          /\ a.image = NoWord /\ a.argv = <<>>
      BY <1>11 DEF Reads, G
    <2> DEFINE b == Offer(a, t)
    <2>2. b = [a EXCEPT !.image = t.text]
      BY <1>11, <2>1 DEF Offer
    <2> HIDE DEF b
    <2>3. SameBut(a, b, "image") /\ b.image = t.text /\ b.argv = <<>>
      BY <2>1, <2>2 DEF SameBut, Arguments
    <2>4. Words(u) # {} /\ First(u) = n + 1 /\ H = G
      BY <1>2, <1>5, <1>11
    <2>5. Agree(b, H)
      BY <2>1, <2>3, <2>4 DEF Agree, SameBut
    <2>6. Behind(u) /\ TextsBehind(u) = <<>>
      BY <1>1, <1>8, <2>4 DEF Behind, TextsBehind
    <2>7. b.image # NoWord /\ b.image = u[First(u)].text
      BY <1>1, <2>3, <2>4
    <2> QED
      BY <1>11, <2>1, <2>3, <2>4, <2>5, <2>6, <2>7 DEF Reads, SameBut, u, b, H
  <1>12. CASE ~a.stopped /\ Words(s) = {} /\ t.opt # "word"
    <2>1. /\ Agree(a, G) /\ Sound(G) /\ G["unknown"] = <<>>
          /\ a.image = NoWord /\ a.argv = <<>>
      BY <1>12 DEF Reads, G
    <2> DEFINE b == Offer(a, t)
    <2>2. b = Option(a, t)
      BY <1>12, <2>1 DEF Offer
    <2>3. b.image = NoWord /\ b.argv = <<>>
      BY <1>12, <2>1, <2>2, OptionTyped
    <2>4. Words(u) = {} /\ H = [G EXCEPT ![t.opt] = Append(@, t)]
      BY <1>2, <1>4, <1>12
    <2>5. Right(b, H)
      BY <1>6, <1>12, <2>1, <2>2, <2>4, OptionTaken
    <2>6. Behind(u)
      BY <2>4 DEF Behind
    <2> HIDE DEF b
    <2> QED
      BY <1>12, <2>3, <2>4, <2>5, <2>6 DEF Reads, Right, u, b, H
  <1> QED
    BY <1>9, <1>10, <1>11, <1>12

\* The arguments of run and exec are what the command line means, and after its
\* end the verdict was the one of the checks.
ParserInv ==
    /\ cmd \in {"run", "exec"} => Reads(args, argv)
    /\ pc # "parse" => (pc = "refused" <=> args.error \/ ~WellCalled)

\* It holds before the first token.
LEMMA InitParserInv == Init => ParserInv
  <1> SUFFICES ASSUME Init PROVE ParserInv
    OBVIOUS
  <1>1. args = Fresh /\ argv = <<>> /\ pc = "parse"
    BY DEF Init
  <1>2. Reads(args, argv)
    BY <1>1, FreshReads
  <1> QED
    BY <1>1, <1>2 DEF ParserInv

\* Every step preserves it.
LEMMA NextParserInv == ConfInv /\ ParserInv /\ [Next]_vars => ParserInv'
  <1> SUFFICES ASSUME ConfInv, ParserInv, [Next]_vars PROVE ParserInv'
    OBVIOUS
  <1>1. args' = args /\ cmd' = cmd => (WellCalled' <=> WellCalled)
    BY DEF WellCalled, NetworkWellCalled, Accepts, AllNames
  <1>2. ASSUME NEW t \in UNION ToSet(Tokens[cmd]), Token(t) PROVE ParserInv'
    <2>1. cmd \in Commands /\ argv \in Seq(UNION ToSet(Tokens[cmd])) /\ args \in Arguments
          /\ Fitting(args)
      BY TypeOKFits DEF ConfInv, TypeOK
    <2>2. /\ t \in AllTokens /\ t.opt \in Options /\ t.text # NoWord
          /\ t.opt = "t" => cmd = "stop"
      BY <2>1, TokensAssumption DEF AllTokens
    <2>3. argv \in Seq(AllTokens)
      <3>1. UNION ToSet(Tokens[cmd]) \subseteq AllTokens
        BY <2>1 DEF AllTokens
      <3> QED
        BY <2>1, <3>1
    <2>4. pc = "parse" /\ pc' = pc /\ cmd' = cmd /\ argv' = Append(argv, t) /\ ~args.error
      BY <1>2 DEF Token
    <2>5. ASSUME cmd \in {"run", "exec"} PROVE Reads(args', argv')
      <3>1. args' = IF args.stopped THEN args ELSE Offer(args, t)
        <4>1. args' = IF args.stopped THEN args
                      ELSE CASE cmd = "stop" -> OfferStop(args, t)
                             [] cmd \in {"run", "exec"} -> Offer(args, t)
                             [] OTHER -> [args EXCEPT !.argv = Append(@, t.text)]
          BY <1>2 DEF Token
        <4>2. cmd \in {"run", "exec"} /\ cmd # "stop"
          BY <2>5
        <4>3. CASE args.stopped
          BY <4>1, <4>2, <4>3
        <4>4. CASE ~args.stopped
          BY <4>1, <4>2, <4>4
        <4> QED
          BY <4>3, <4>4
      <3>2. Reads(args, argv)
        BY <2>5 DEF ParserInv
      <3>3. t.opt \in Options \ {"t"}
        BY <2>2, <2>5
      <3>4. Reads(IF args.stopped THEN args ELSE Offer(args, t), Append(argv, t))
        BY <2>1, <2>2, <2>3, <2>4, <3>2, <3>3, OfferReads
      <3> QED
        BY <2>4, <3>1, <3>4
    <2> QED
      BY <2>4, <2>5 DEF ParserInv
  <1>3. CASE EndOfLine
    <2>1. args' = args /\ cmd' = cmd /\ argv' = argv
      BY <1>3 DEF EndOfLine
    <2>2. pc' = "refused" <=> args.error \/ ~WellCalled
      BY <1>3 DEF EndOfLine
    <2> QED
      BY <1>1, <2>1, <2>2 DEF ParserInv
  <1>4. CASE MountVolumes \/ WriteMetadata \/ Damage \/ ReadMetadata \/ UnmountVolumes
    <2>1. args' = args /\ cmd' = cmd /\ argv' = argv
      BY <1>4 DEF MountVolumes, WriteMetadata, Damage, ReadMetadata, UnmountVolumes
    <2>2. pc \notin {"parse", "refused"} /\ pc' \notin {"parse", "refused"}
      BY <1>4 DEF MountVolumes, WriteMetadata, Damage, ReadMetadata, UnmountVolumes
    <2> QED
      BY <1>1, <2>1, <2>2 DEF ParserInv
  <1>5. CASE UNCHANGED vars
    <2>1. args' = args /\ cmd' = cmd /\ argv' = argv /\ pc' = pc
      BY <1>5 DEF vars
    <2> QED
      BY <1>1, <2>1 DEF ParserInv
  <1> QED
    BY <1>2, <1>3, <1>4, <1>5 DEF Next

\* It is an invariant.
LEMMA ParserInvariance == Spec => [](ConfInv /\ ParserInv)
  <1>1. Init => ConfInv /\ ParserInv
    BY InitConfInv, InitParserInv
  <1>2. (ConfInv /\ ParserInv) /\ [Next]_vars => (ConfInv /\ ParserInv)'
    BY NextConfInv, NextParserInv
  <1> QED
    BY <1>1, <1>2, PTL DEF Spec

\* What was given is what the properties call so.
LEMMA GivenIs ==
    ASSUME ConfInv, NEW o \in Options
    PROVE  /\ Given(o) = GivenIn(Before(argv))[o]
           /\ Given(o) \in Seq({t \in AllTokens : t.opt = o})
  <1>1. argv \in Seq(AllTokens)
    <2>1. cmd \in Commands /\ argv \in Seq(UNION ToSet(Tokens[cmd]))
      BY DEF ConfInv, TypeOK
    <2>2. UNION ToSet(Tokens[cmd]) \subseteq AllTokens
      BY <2>1 DEF AllTokens
    <2> QED
      BY <2>1, <2>2
  <1>2. Before(argv) \in Seq(AllTokens)
    <2>1. CASE Words(argv) = {}
      BY <1>1, <2>1 DEF Before
    <2>2. CASE Words(argv) # {}
      <3>1. First(argv) \in 1 .. Len(argv)
        BY <1>1, <2>2, FirstWord
      <3> QED
        BY <1>1, <2>2, <3>1 DEF Before
    <2> QED
      BY <2>1, <2>2
  <1> QED
    BY <1>2, PickedTyped DEF Given, GivenIn

\* An accepted run or exec has been taken as its caller means it.
THEOREM Meaning == Spec => []ParsedAsMeant
  <1>1. ConfInv /\ ParserInv => ParsedAsMeant
    <2> SUFFICES ASSUME ConfInv, ParserInv, pc \notin {"parse", "refused"}, cmd \in {"run", "exec"}
                 PROVE  /\ Words(argv) # {}
                        /\ args.image = argv[First(argv)].text
                        /\ args.argv = [i \in 1 .. Len(argv) - First(argv) |->
                                          argv[First(argv) + i].text]
                        /\ args.volumes = [i \in DOMAIN Given("v") |->
                                             ParseVolume(Given("v")[i].volume)]
                        /\ args.ports = [i \in DOMAIN Given("p") |-> Given("p")[i].ports]
                        /\ Len(args.env) = Len(Given("e"))
                        /\ \A i \in DOMAIN args.env :
                              Len(Given("e")[i].parts) = 2 => args.env[i] = Given("e")[i].parts
                        /\ args.detach = (Given("d") # <<>>)
                        /\ args.interactive = (Given("i") # <<>>)
                        /\ args.tty = (Given("tty") # <<>>)
                        /\ args.name = IF Given("n") = <<>> THEN DefaultName
                                       ELSE Last(Given("n")).name
                        /\ args.cpu = IF Given("c") = <<>> THEN NaN ELSE Last(Given("c")).number
                        /\ args.memory = IF Given("m") = <<>> THEN NaN
                                         ELSE Last(Given("m")).number
      BY DEF ParsedAsMeant
    <2>1. Reads(args, argv) /\ ~args.error /\ WellCalled
      BY DEF ParserInv
    <2>2. args.image # NoWord
      BY <2>1 DEF WellCalled, Accepts
    <2> DEFINE G == GivenIn(Before(argv))
    <2>3. ~args.stopped /\ Words(argv) # {}
      BY <2>1, <2>2 DEF Reads
    <2>4. Agree(args, G) /\ args.image = argv[First(argv)].text /\ args.argv = TextsBehind(argv)
      BY <2>1, <2>3 DEF Reads
    <2> HIDE DEF G
    <2>5. /\ G["v"] = Given("v") /\ G["p"] = Given("p") /\ G["e"] = Given("e")
          /\ G["d"] = Given("d") /\ G["i"] = Given("i") /\ G["tty"] = Given("tty")
          /\ G["n"] = Given("n") /\ G["c"] = Given("c") /\ G["m"] = Given("m")
      BY GivenIs DEF G, Options
    <2>6. Given("e") \in Seq({t \in AllTokens : t.opt = "e"})
      BY GivenIs DEF Options
    <2> DEFINE e == Given("e")
    <2> HIDE DEF e
    <2>7. args.env = EnvOf(e)
      BY <2>4, <2>5 DEF Agree, e
    <2>8. DOMAIN args.env = 1 .. Len(e) /\ Len(args.env) = Len(e)
      BY <2>6, <2>7 DEF EnvOf, e
    <2>9. \A i \in DOMAIN args.env : Len(e[i].parts) = 2 => args.env[i] = e[i].parts
      <3> SUFFICES ASSUME NEW i \in 1 .. Len(e), Len(e[i].parts) = 2
                   PROVE  args.env[i] = e[i].parts
        BY <2>8
      <3> DEFINE x == e[i].parts
      <3>1. args.env[i] = KeyValPair(x)
        BY <2>6, <2>7 DEF EnvOf, e
      <3>2. e[i] \in AllTokens /\ e[i].opt = "e"
        BY <2>6 DEF e
      <3>3. x \in Seq(ToSet(x))
        <4>1. PICK c \in Commands : e[i] \in UNION ToSet(Tokens[c])
          BY <3>2 DEF AllTokens
        <4> QED
          BY <3>2, <4>1, TokensAssumption
      <3> HIDE DEF x
      <3>4. Len(x) = 2
        BY DEF x
      <3>5. SubSeq(x, 1, 2) = x
        BY <3>3, <3>4
      <3> QED
        BY <3>1, <3>5 DEF KeyValPair, x
    <2>10. args.volumes = VolumesOf(Given("v")) /\ args.ports = PortsOf(Given("p"))
      BY <2>4, <2>5 DEF Agree
    <2>11. /\ args.detach = (Given("d") # <<>>)
           /\ args.interactive = (Given("i") # <<>>)
           /\ args.tty = (Given("tty") # <<>>)
           /\ args.name = IF Given("n") = <<>> THEN DefaultName ELSE Last(Given("n")).name
           /\ args.cpu = IF Given("c") = <<>> THEN NaN ELSE Last(Given("c")).number
           /\ args.memory = IF Given("m") = <<>> THEN NaN ELSE Last(Given("m")).number
      BY <2>4, <2>5 DEF Agree
    <2> QED
      BY <2>3, <2>4, <2>8, <2>9, <2>10, <2>11 DEF TextsBehind, VolumesOf, PortsOf, e
  <1> QED
    BY <1>1, ParserInvariance, PTL

\* A run is refused exactly when its command line is not fit for it, and the
\* parser exits only at a fault.
THEOREM Refusal == Spec => []RefusedIffUnfit
  <1>1. ConfInv /\ ParserInv => RefusedIffUnfit
    <2> SUFFICES ASSUME ConfInv, ParserInv PROVE RefusedIffUnfit
      OBVIOUS
    <2> DEFINE G == GivenIn(Before(argv))
    <2>1. /\ G["v"] = Given("v") /\ G["p"] = Given("p") /\ G["e"] = Given("e")
          /\ G["c"] = Given("c") /\ G["m"] = Given("m")
          /\ G["d"] = Given("d") /\ G["i"] = Given("i") /\ G["n"] = Given("n")
          /\ G["unknown"] = Given("unknown")
      BY GivenIs DEF Options
    <2> HIDE DEF G
    <2>2. Faultless <=> Sound(G) /\ Behind(argv)
      BY <2>1 DEF Faultless, Sound, Behind
    <2>3. cmd \in {"run", "exec"} /\ args.error => ~Faultless
      BY <2>2 DEF ParserInv, Reads, G
    <2>4. ASSUME pc # "parse", cmd = "run" PROVE pc = "refused" <=> ~Fits
      <3>1. Reads(args, argv)
        BY <2>4 DEF ParserInv
      <3>2. pc = "refused" <=> args.error \/ ~Accepts(args)
        BY <2>4 DEF ParserInv, WellCalled
      <3>3. CASE args.error
        BY <2>3, <2>4, <3>2, <3>3 DEF Fits
      <3>4. CASE args.stopped
        <4>1. args.image = NoWord /\ Given("unknown") # <<>>
          BY <2>1, <3>1, <3>4 DEF Reads, G
        <4> QED
          BY <3>2, <4>1 DEF Fits, Accepts
      <3>5. CASE ~args.error /\ ~args.stopped
        <4>1. /\ Agree(args, G) /\ Sound(G) /\ Behind(argv) /\ Given("unknown") = <<>>
              /\ Words(argv) = {} => args.image = NoWord
              /\ Words(argv) # {} => args.image # NoWord /\ args.argv = TextsBehind(argv)
          BY <2>1, <3>1, <3>5 DEF Reads, G
        <4>2. Faultless
          BY <2>2, <4>1
        <4>3. Words(argv) # {} => (Len(args.argv) >= 1 <=> Len(argv) > First(argv))
          <5> SUFFICES ASSUME Words(argv) # {}
                       PROVE  Len(args.argv) >= 1 <=> Len(argv) > First(argv)
            OBVIOUS
          <5>1. argv \in Seq(UNION ToSet(Tokens[cmd]))
            BY DEF ConfInv, TypeOK
          <5>2. First(argv) \in 1 .. Len(argv) /\ Len(argv) \in Nat
            BY <5>1, FirstWord
          <5>3. Len(args.argv) = Len(argv) - First(argv)
            BY <4>1, <5>2 DEF TextsBehind
          <5> QED
            BY <5>2, <5>3
        <4>4. args.detach /\ args.interactive <=> ~(Given("d") = <<>> \/ Given("i") = <<>>)
          BY <2>1, <4>1 DEF Agree
        <4>5. ValidName(args.name) <=> (Given("n") # <<>> => ValidName(Last(Given("n")).name))
          BY <2>1, <4>1, DefaultNameAssumption DEF Agree
        <4> QED
          BY <3>2, <3>5, <4>1, <4>2, <4>3, <4>4, <4>5 DEF Fits, Accepts
      <3> QED
        BY <3>3, <3>4, <3>5
    <2> QED
      BY <2>3, <2>4 DEF RefusedIffUnfit
  <1> QED
    BY <1>1, ParserInvariance, PTL

-----------------------------------------------------------------------------
(***************************************************************************)
(* The block of a CIDR: what the mask and the AND of td_parse_ipv4_cidr    *)
(* compute.                                                                *)
(***************************************************************************)
\* Quotient and remainder.
LEMMA DivFacts ==
    ASSUME NEW a \in Nat, NEW b \in Nat \ {0}
    PROVE  a \div b \in Nat /\ a % b \in 0 .. b - 1 /\ a = b * (a \div b) + (a % b)
  <1>1. a % b \in 0 .. b - 1
    OBVIOUS
  <1>2. a \div b \in Int
    OBVIOUS
  <1>3. a = b * (a \div b) + (a % b)
    OBVIOUS
  <1>4. a \div b >= 0
    OBVIOUS
  <1> QED
    BY <1>1, <1>2, <1>3, <1>4

\* A larger factor makes the product larger by b at least.
LEMMA MulLess ==
    ASSUME NEW b \in Nat \ {0}, NEW x \in Int, NEW y \in Int, x < y
    PROVE  b * x + b <= b * y
  <1>1. y - x - 1 \in Nat
    OBVIOUS
  <1>2. b * (y - x - 1) >= 0
    BY <1>1
  <1>3. b * (y - x - 1) = b * y - b * x - b
    OBVIOUS
  <1> QED
    BY <1>2, <1>3

\* They are the only ones.
LEMMA DivUnique ==
    ASSUME NEW a \in Nat, NEW b \in Nat \ {0}, NEW q \in Int, NEW r \in 0 .. b - 1,
           a = b * q + r
    PROVE  a \div b = q /\ a % b = r
  <1> DEFINE p == a \div b
             s == a % b
  <1>1. p \in Int /\ s \in 0 .. b - 1 /\ a = b * p + s
    BY DivFacts
  <1> HIDE DEF p, s
  <1>2. ~(p < q)
    <2> SUFFICES ASSUME p < q PROVE FALSE
      OBVIOUS
    <2>1. b * p + b <= b * q
      BY <1>1, MulLess
    <2>2. b * p \in Int /\ b * q \in Int
      BY <1>1
    <2> QED
      BY <1>1, <2>1, <2>2
  <1>3. ~(q < p)
    <2> SUFFICES ASSUME q < p PROVE FALSE
      OBVIOUS
    <2>1. b * q + b <= b * p
      BY <1>1, MulLess
    <2>2. b * p \in Int /\ b * q \in Int
      BY <1>1
    <2> QED
      BY <1>1, <2>1, <2>2
  <1>4. p = q
    BY <1>1, <1>2, <1>3
  <1>5. s = r
    BY <1>1, <1>4
  <1> QED
    BY <1>4, <1>5 DEF p, s

\* g doubles from 1 on, up to n.
Doubles(g, n) == g = [i \in 0 .. n |-> IF i = 0 THEN 1 ELSE 2 * g[i - 1]]

\* There is such a function for every n.
LEMMA DoublesExists == \A n \in Nat : \E g : Doubles(g, n)
  <1> DEFINE S == {n \in Nat : \E g : Doubles(g, n)}
  <1>1. 0 \in S
    <2> DEFINE g == [i \in 0 .. 0 |-> 1]
    <2>1. Doubles(g, 0)
      BY DEF Doubles
    <2> QED
      BY <2>1
  <1>2. ASSUME NEW n \in Nat, n \in S PROVE n + 1 \in S
    <2>1. PICK g : Doubles(g, n)
      BY <1>2
    <2> DEFINE h == [i \in 0 .. n + 1 |-> IF i = n + 1 THEN 2 * g[n] ELSE g[i]]
    <2>2. \A i \in 0 .. n : g[i] = IF i = 0 THEN 1 ELSE 2 * g[i - 1]
      BY <2>1 DEF Doubles
    <2>3. \A i \in 0 .. n + 1 : h[i] = IF i = 0 THEN 1 ELSE 2 * h[i - 1]
      BY <2>2
    <2>4. Doubles(h, n + 1)
      <3> HIDE DEF h
      <3>1. h = [i \in 0 .. n + 1 |-> h[i]]
        BY DEF h
      <3> QED
        BY <2>3, <3>1 DEF Doubles
    <2> QED
      BY <2>4
  <1> HIDE DEF S
  <1>3. S \in SUBSET Nat
    BY DEF S
  <1>4. S = Nat
    BY <1>1, <1>2, <1>3, Induction
  <1> QED
    BY <1>4 DEF S

\* Pow2 doubles, and is positive.
LEMMA Powers ==
    /\ Width \in Nat /\ Pow2[0] = 1
    /\ \A i \in 1 .. Width : Pow2[i] = 2 * Pow2[i - 1]
    /\ \A i \in 0 .. Width : Pow2[i] \in Nat \ {0}
  <1>1. Width \in Nat
    BY CapacityAssumption
  <1>2. \E g : g = [i \in 0 .. Width |-> IF i = 0 THEN 1 ELSE 2 * g[i - 1]]
    BY <1>1, DoublesExists DEF Doubles
  <1>3. Pow2 = [i \in 0 .. Width |-> IF i = 0 THEN 1 ELSE 2 * Pow2[i - 1]]
    BY <1>2, Zenon DEF Pow2
  <1>4. \A i \in 0 .. Width : Pow2[i] = IF i = 0 THEN 1 ELSE 2 * Pow2[i - 1]
    BY <1>3, Zenon
  <1>5. Pow2[0] = 1 /\ \A i \in 1 .. Width : Pow2[i] = 2 * Pow2[i - 1]
    BY <1>1, <1>4
  <1> DEFINE T == {i \in 0 .. Width : Pow2[i] \in Nat \ {0}}
  <1>6. 0 \in T
    BY <1>1, <1>5
  <1>7. ASSUME NEW i \in 0 .. Width, i # 0, i - 1 \in T PROVE i \in T
    <2>1. i \in 1 .. Width /\ Pow2[i - 1] \in Nat \ {0}
      BY <1>1, <1>7
    <2> QED
      BY <1>5, <2>1
  <1> HIDE DEF T
  <1>8. T \in SUBSET (0 .. Width)
    BY DEF T
  <1>9. T = 0 .. Width
    BY <1>1, <1>6, <1>7, <1>8, InductionUpTo
  <1> QED
    BY <1>1, <1>5, <1>9 DEF T

\* A power is a multiple of every smaller one, and an even one if it is larger.
LEMMA PowerDivides ==
    ASSUME NEW k \in 0 .. Width, NEW n \in k .. Width
    PROVE  /\ \E q \in Nat \ {0} : Pow2[n] = Pow2[k] * q
           /\ k < n => \E q \in Nat \ {0} : Pow2[n] = Pow2[k] * (2 * q)
  <1>0. Width \in Nat /\ k \in Nat
    BY Powers
  <1> DEFINE T == {i \in k .. Width : \E q \in Nat \ {0} : Pow2[i] = Pow2[k] * q}
  <1>1. k \in T
    <2>1. Pow2[k] \in Nat
      BY Powers
    <2>2. Pow2[k] = Pow2[k] * 1 /\ 1 \in Nat \ {0} /\ k \in k .. Width
      BY <1>0, <2>1
    <2> QED
      BY <2>2
  <1>2. ASSUME NEW i \in k .. Width, i # k, i - 1 \in T
        PROVE  \E q \in Nat \ {0} : Pow2[i] = Pow2[k] * (2 * q)
    <2>1. PICK q \in Nat \ {0} : Pow2[i - 1] = Pow2[k] * q
      BY <1>2
    <2>2. Pow2[i] = 2 * Pow2[i - 1] /\ Pow2[k] \in Nat
      BY <1>0, <1>2, Powers
    <2>3. 2 * (Pow2[k] * q) = Pow2[k] * (2 * q)
      BY <2>2
    <2> QED
      BY <2>1, <2>2, <2>3
  <1>3. ASSUME NEW i \in k .. Width, i # k, i - 1 \in T PROVE i \in T
    <2>1. PICK q \in Nat \ {0} : Pow2[i] = Pow2[k] * (2 * q)
      BY <1>2, <1>3
    <2>2. 2 * q \in Nat \ {0}
      OBVIOUS
    <2> QED
      BY <2>1, <2>2
  <1> HIDE DEF T
  <1>4. T \in SUBSET (k .. Width)
    BY DEF T
  <1>5. T = k .. Width
    BY <1>0, <1>1, <1>3, <1>4, InductionUpTo
  <1>6. \E q \in Nat \ {0} : Pow2[n] = Pow2[k] * q
    BY <1>5 DEF T
  <1>7. k < n => n # k /\ n - 1 \in T
    BY <1>0, <1>5
  <1> QED
    BY <1>2, <1>6, <1>7

\* So it is at least as large, and larger if its index is.
LEMMA PowerGrows ==
    ASSUME NEW k \in 0 .. Width, NEW n \in k .. Width
    PROVE  Pow2[k] <= Pow2[n]
  <1>1. PICK q \in Nat \ {0} : Pow2[n] = Pow2[k] * q
    BY PowerDivides
  <1>2. Pow2[k] \in Nat \ {0}
    BY Powers
  <1>3. q = 1 \/ Pow2[k] * 1 + Pow2[k] <= Pow2[k] * q
    BY <1>2, MulLess
  <1> QED
    BY <1>1, <1>2, <1>3

\* The mask has the prefix's bits and no other.
LEMMA MaskIs ==
    ASSUME NEW prefix \in 0 .. Width
    PROVE  Mask(prefix) = Pow2[Width] - Pow2[Width - prefix]
  <1> DEFINE k == Width - prefix
             w == Pow2[Width]
             s == Pow2[k]
  <1>1. Width \in Nat /\ k \in 0 .. Width /\ Width \in k .. Width
    BY Powers
  <1>2. w \in Nat \ {0} /\ s \in Nat \ {0} /\ s <= w
    BY <1>1, Powers, PowerGrows
  <1>3. CASE prefix = 0
    <2>1. k = Width
      BY <1>1, <1>3
    <2> HIDE DEF k
    <2> QED
      BY <1>2, <1>3, <2>1 DEF Mask, k
  <1>4. CASE prefix # 0
    <2>1. Mask(prefix) = ((w - 1) * s) % w
      BY <1>4 DEF Mask
    <2> HIDE DEF w, s
    <2>2. (w - 1) * s = w * (s - 1) + (w - s)
      BY <1>2
    <2>3. (w - 1) * s \in Nat /\ s - 1 \in Int /\ w - s \in 0 .. w - 1
      BY <1>2
    <2>4. ((w - 1) * s) % w = w - s
      BY <1>2, <2>2, <2>3, DivUnique
    <2> QED
      BY <2>1, <2>4 DEF w, s, k
  <1> QED
    BY <1>3, <1>4

\* Its bits.
LEMMA MaskBits ==
    ASSUME NEW k \in 0 .. Width, NEW i \in 0 .. Width - 1
    PROVE  Bit(Pow2[Width] - Pow2[k], i) = IF i < k THEN 0 ELSE 1
  <1> DEFINE m == Pow2[Width] - Pow2[k]
             b == Pow2[i]
  <1>1. Width \in Nat /\ i \in 0 .. Width /\ Width \in i .. Width /\ Width \in k .. Width /\ i < Width
    BY Powers
  <1>2. m \in Nat /\ b \in Nat \ {0} /\ Pow2[Width] \in Nat /\ Pow2[k] \in Nat \ {0}
    BY <1>1, Powers, PowerGrows
  <1>3. PICK q \in Nat \ {0} : Pow2[Width] = b * (2 * q)
    BY <1>1, PowerDivides
  <1>4. CASE i < k
    <2>1. k \in i .. Width
      BY <1>1, <1>4
    <2>2. PICK r \in Nat \ {0} : Pow2[k] = b * (2 * r)
      BY <1>1, <1>4, <2>1, PowerDivides
    <2>3. m = b * (2 * (q - r)) + 0
      <3> HIDE DEF b
      <3> QED
        BY <1>2, <1>3, <2>2
    <2> HIDE DEF m, b
    <2>4. m \div b = 2 * (q - r)
      <3>1. 2 * (q - r) \in Int /\ 0 \in 0 .. b - 1
        BY <1>2
      <3> QED
        BY <1>2, <2>3, <3>1, DivUnique
    <2>5. (2 * (q - r)) % 2 = 0
      OBVIOUS
    <2> QED
      BY <1>4, <2>4, <2>5 DEF Bit, m, b
  <1>5. CASE ~(i < k)
    <2>1. i \in k .. Width
      BY <1>1, <1>5
    <2>2. Pow2[k] <= b
      BY <2>1, PowerGrows
    <2>3. m = b * (2 * q - 1) + (b - Pow2[k])
      <3> HIDE DEF b
      <3> QED
        BY <1>2, <1>3
    <2>4. b - Pow2[k] \in 0 .. b - 1
      BY <1>2, <2>2
    <2> HIDE DEF m, b
    <2>5. m \div b = 2 * q - 1
      <3>1. 2 * q - 1 \in Int
        OBVIOUS
      <3> QED
        BY <1>2, <2>3, <2>4, <3>1, DivUnique
    <2>6. (2 * q - 1) % 2 = 1
      OBVIOUS
    <2> QED
      BY <1>5, <2>5, <2>6 DEF Bit, m, b
  <1> QED
    BY <1>4, <1>5

\* One more bit of a number.
LEMMA NextBit ==
    ASSUME NEW a \in Nat, NEW i \in 0 .. Width - 1
    PROVE  /\ a % Pow2[i + 1] = (a % Pow2[i]) + Pow2[i] * Bit(a, i)
           /\ Bit(a, i) \in 0 .. 1 /\ a % Pow2[i] \in 0 .. Pow2[i] - 1
  <1> DEFINE b == Pow2[i]
             d == Pow2[i + 1]
             q == a \div b
             r == a % b
             h == q \div 2
             c == q % 2
  <1>1. b \in Nat \ {0} /\ d = 2 * b
    <2>1. Width \in Nat /\ i \in 0 .. Width /\ i + 1 \in 1 .. Width /\ (i + 1) - 1 = i
      BY Powers
    <2> QED
      BY <2>1, Powers
  <1>2. q \in Nat /\ r \in 0 .. b - 1 /\ a = b * q + r
    <2> HIDE DEF b
    <2> QED
      BY <1>1, DivFacts
  <1> HIDE DEF b, d, q, r
  <1>3. h \in Nat /\ c \in 0 .. 1 /\ q = 2 * h + c
    BY <1>2
  <1> HIDE DEF h, c
  <1>4. a = d * h + (b * c + r)
    <2>1. b * (2 * h + c) = 2 * b * h + b * c
      BY <1>1, <1>3
    <2> QED
      BY <1>1, <1>2, <1>3, <2>1
  <1>5. b * c + r \in 0 .. d - 1
    <2>1. c = 0 \/ c = 1
      BY <1>3
    <2>2. b * 0 = 0 /\ b * 1 = b
      BY <1>1
    <2> QED
      BY <1>1, <1>2, <2>1, <2>2
  <1>6. d \in Nat \ {0}
    BY <1>1
  <1>7. a % d = b * c + r
    <2> DEFINE e == b * c + r
    <2>1. e \in 0 .. d - 1 /\ a = d * h + e /\ h \in Int
      BY <1>3, <1>4, <1>5
    <2> HIDE DEF e
    <2>2. a % d = e
      BY <1>6, <2>1, DivUnique
    <2> QED
      BY <2>2 DEF e
  <1>8. a % d = r + b * c
    BY <1>1, <1>2, <1>3, <1>7
  <1>9. Bit(a, i) = c
    BY Zenon DEF Bit, b, q, c
  <1>10. a % Pow2[i + 1] = (a % Pow2[i]) + Pow2[i] * Bit(a, i)
    BY <1>8, <1>9, Zenon DEF b, d, r
  <1>11. Bit(a, i) \in 0 .. 1
    BY <1>3, <1>9
  <1>12. a % Pow2[i] \in 0 .. Pow2[i] - 1
    BY <1>2, Zenon DEF b, r
  <1> QED
    BY <1>10, <1>11, <1>12

\* g is the AND of the i lowest bits, for i up to n.
Lows(g, a, m, n) ==
    g = [i \in 0 .. n |->
            IF i = 0 THEN 0
            ELSE g[i - 1] + Pow2[i - 1] * Bit(a, i - 1) * Bit(m, i - 1)]

\* There is such a function for every n.
LEMMA LowsExists ==
    ASSUME NEW a, NEW m
    PROVE  \A n \in Nat : \E g : Lows(g, a, m, n)
  <1> DEFINE x(i) == Pow2[i] * Bit(a, i) * Bit(m, i)
             S == {n \in Nat : \E g : Lows(g, a, m, n)}
  <1> HIDE DEF x
  <1>1. 0 \in S
    <2> DEFINE g == [i \in 0 .. 0 |-> 0]
    <2>1. Lows(g, a, m, 0)
      BY DEF Lows
    <2> QED
      BY <2>1
  <1>2. ASSUME NEW n \in Nat, n \in S PROVE n + 1 \in S
    <2>1. PICK g : Lows(g, a, m, n)
      BY <1>2
    <2> DEFINE h == [i \in 0 .. n + 1 |-> IF i = n + 1 THEN g[n] + x(n) ELSE g[i]]
    <2>2. \A i \in 0 .. n : g[i] = IF i = 0 THEN 0 ELSE g[i - 1] + x(i - 1)
      BY <2>1 DEF Lows, x
    <2>3. \A i \in 0 .. n + 1 : h[i] = IF i = 0 THEN 0 ELSE h[i - 1] + x(i - 1)
      <3> TAKE i \in 0 .. n + 1
      <3>1. CASE i = n + 1
        <4>1. n + 1 # 0 /\ (n + 1) - 1 = n /\ n \in 0 .. n + 1 /\ n # n + 1 /\ n + 1 \in 0 .. n + 1
          OBVIOUS
        <4>2. h[n + 1] = g[n] + x(n) /\ h[n] = g[n]
          BY <4>1
        <4> HIDE DEF h
        <4> QED
          BY <3>1, <4>1, <4>2
      <3>2. CASE i # n + 1
        <4>1. i \in 0 .. n /\ (i # 0 => i - 1 \in 0 .. n + 1 /\ i - 1 # n + 1)
          BY <3>2
        <4>2. h[i] = g[i] /\ (i # 0 => h[i - 1] = g[i - 1])
          BY <3>2, <4>1
        <4> HIDE DEF h
        <4> QED
          BY <2>2, <4>1, <4>2
      <3> QED
        BY <3>1, <3>2
    <2>4. Lows(h, a, m, n + 1)
      <3> HIDE DEF h
      <3>1. h = [i \in 0 .. n + 1 |-> h[i]]
        BY DEF h
      <3>2. h = [i \in 0 .. n + 1 |-> IF i = 0 THEN 0 ELSE h[i - 1] + x(i - 1)]
        BY <2>3, <3>1
      <3> QED
        BY <3>2 DEF Lows, x
    <2> QED
      BY <2>4
  <1> HIDE DEF S
  <1>3. S \in SUBSET Nat
    BY DEF S
  <1>4. S = Nat
    BY <1>1, <1>2, <1>3, Induction
  <1> QED
    BY <1>4 DEF S

\* The AND, one bit at a time.
LEMMA LowAndSteps ==
    ASSUME NEW a, NEW m
    PROVE  /\ LowAnd(a, m)[0] = 0
           /\ \A i \in 1 .. Width :
                 LowAnd(a, m)[i]
                    = LowAnd(a, m)[i - 1] + Pow2[i - 1] * Bit(a, i - 1) * Bit(m, i - 1)
  <1> DEFINE f == LowAnd(a, m)
             x(i) == Pow2[i] * Bit(a, i) * Bit(m, i)
  <1>1. \E g : g = [i \in 0 .. Width |->
                       IF i = 0 THEN 0
                       ELSE g[i - 1] + Pow2[i - 1] * Bit(a, i - 1) * Bit(m, i - 1)]
    <2>1. \E g : Lows(g, a, m, Width)
      BY LowsExists, Powers
    <2> QED
      BY <2>1, Zenon DEF Lows
  <1>2. f = [i \in 0 .. Width |->
                IF i = 0 THEN 0
                ELSE f[i - 1] + Pow2[i - 1] * Bit(a, i - 1) * Bit(m, i - 1)]
    BY <1>1, Zenon DEF LowAnd
  <1>3. \A i \in 0 .. Width : f[i] = IF i = 0 THEN 0 ELSE f[i - 1] + x(i - 1)
    BY <1>2, Zenon
  <1> HIDE DEF f, x
  <1>4. Width \in Nat
    BY Powers
  <1>5. f[0] = 0 /\ \A i \in 1 .. Width : f[i] = f[i - 1] + x(i - 1)
    BY <1>3, <1>4
  <1> QED
    BY <1>5 DEF f, x

\* Under the mask of a block of size Pow2[k], what is below k is cleared.
LEMMA Masked ==
    ASSUME NEW k \in 0 .. Width, NEW a \in 0 .. Pow2[Width] - 1
    PROVE  And(a, Pow2[Width] - Pow2[k]) = a - (a % Pow2[k])
  <1> DEFINE m == Pow2[Width] - Pow2[k]
             f == LowAnd(a, m)
             rest(i) == a % Pow2[i]
             T == {i \in 0 .. Width : f[i] = IF i <= k THEN 0 ELSE rest(i) - rest(k)}
  <1>1. Width \in Nat /\ a \in Nat /\ k \in Nat
    BY Powers
  <1>2. \A i \in 0 .. Width : rest(i) \in Nat
    <2> TAKE i \in 0 .. Width
    <2>1. Pow2[i] \in Nat \ {0}
      BY Powers
    <2> QED
      BY <1>1, <2>1, DivFacts
  <1>3. f[0] = 0 /\ \A i \in 1 .. Width : f[i] = f[i - 1] + Pow2[i - 1] * Bit(a, i - 1) * Bit(m, i - 1)
    BY LowAndSteps
  <1>4. 0 \in T
    BY <1>1, <1>3
  <1>5. ASSUME NEW i \in 0 .. Width, i # 0, i - 1 \in T PROVE i \in T
    <2> DEFINE j == i - 1
    <2>1. j \in 0 .. Width - 1 /\ j \in 0 .. Width /\ i = j + 1 /\ i \in 1 .. Width
      BY <1>1, <1>5
    <2>2. f[j] = IF j <= k THEN 0 ELSE rest(j) - rest(k)
      BY <1>5
    <2>3. f[i] = f[j] + Pow2[j] * Bit(a, j) * Bit(m, j)
      BY <1>3, <2>1
    <2>4. Bit(m, j) = IF j < k THEN 0 ELSE 1
      BY <2>1, MaskBits
    <2>5. rest(i) = rest(j) + Pow2[j] * Bit(a, j) /\ Bit(a, j) \in 0 .. 1
      BY <1>1, <2>1, NextBit
    <2>6. Pow2[j] \in Nat /\ rest(j) \in Nat /\ rest(k) \in Nat
      BY <1>2, <2>1, Powers
    <2> DEFINE y == Pow2[j] * Bit(a, j)
    <2>7. y \in Int
      BY <2>5, <2>6
    <2> HIDE DEF j, f, m, rest, y
    <2>8. y * 0 = 0 /\ y * 1 = y
      BY <2>7
    <2>9. CASE j < k
      <3>1. i <= k /\ j <= k
        BY <1>1, <2>1, <2>9
      <3>2. f[i] = 0
        BY <2>2, <2>3, <2>4, <2>8, <2>9, <3>1 DEF y
      <3> QED
        BY <3>1, <3>2 DEF T
    <2>10. CASE j = k
      <3>1. ~(i <= k) /\ j <= k /\ ~(j < k)
        BY <1>1, <2>1, <2>10
      <3>2. f[i] = y
        BY <2>2, <2>3, <2>4, <2>7, <2>8, <3>1 DEF y
      <3>3. rest(i) - rest(k) = y
        BY <2>5, <2>6, <2>7, <2>10 DEF y
      <3> QED
        BY <3>1, <3>2, <3>3 DEF T
    <2>11. CASE k < j
      <3>1. ~(i <= k) /\ ~(j <= k) /\ ~(j < k)
        BY <1>1, <2>1, <2>11
      <3>2. f[i] = rest(j) - rest(k) + y
        BY <2>2, <2>3, <2>4, <2>8, <3>1 DEF y
      <3>3. rest(i) - rest(k) = rest(j) - rest(k) + y
        BY <2>5, <2>6, <2>7 DEF y
      <3> QED
        BY <3>1, <3>2, <3>3 DEF T
    <2> QED
      BY <1>1, <2>1, <2>9, <2>10, <2>11
  <1>6. T = 0 .. Width
    <2> HIDE DEF T
    <2>1. T \in SUBSET (0 .. Width)
      BY DEF T
    <2> QED
      BY <1>1, <1>4, <1>5, <2>1, InductionUpTo
  <1>7. f[Width] = IF Width <= k THEN 0 ELSE rest(Width) - rest(k)
    <2>1. Width \in T
      BY <1>1, <1>6
    <2> QED
      BY <2>1
  <1>8. rest(Width) = a
    <2>1. Pow2[Width] \in Nat \ {0}
      BY <1>1, Powers
    <2>2. a = Pow2[Width] * 0 + a
      BY <1>1, <2>1
    <2> QED
      BY <1>1, <2>1, <2>2, DivUnique
  <1>9. Width <= k => k = Width
    BY <1>1
  <1>10. And(a, m) = f[Width]
    BY DEF And
  <1>11. rest(k) \in Nat
    BY <1>2
  <1> HIDE DEF f, rest, m
  <1>12. And(a, m) = a - rest(k)
    BY <1>1, <1>7, <1>8, <1>9, <1>10, <1>11
  <1> QED
    BY <1>12 DEF m, rest

\* The range of an address is the block it lies in.
LEMMA RangeIsBlock ==
    ASSUME NEW prefix \in 0 .. Width, NEW a \in 0 .. Pow2[Width] - 1
    PROVE  LET range == CidrRange(a, prefix)
               size == Pow2[Width - prefix]
           IN /\ range.min % size = 0 /\ range.max = range.min + size - 1
              /\ a \in range.min .. range.max
  <1> DEFINE k == Width - prefix
             w == Pow2[Width]
             s == Pow2[k]
             q == a \div s
             r == a % s
  <1>1. Width \in Nat /\ k \in 0 .. Width /\ a \in Nat
    BY Powers
  <1>2. w \in Nat \ {0} /\ s \in Nat \ {0}
    BY <1>1, Powers
  <1>3. Mask(prefix) = w - s
    BY MaskIs
  <1>4. And(a, w - s) = a - r
    BY <1>1, Masked
  <1>5. q \in Nat /\ r \in 0 .. s - 1 /\ a = s * q + r
    <2> HIDE DEF s
    <2> QED
      BY <1>1, <1>2, DivFacts
  <1>6. CidrRange(a, prefix) = [min |-> a - r, max |-> (a - r) + (w - 1 - (w - s))]
    BY <1>3, <1>4 DEF CidrRange
  <1> HIDE DEF w, s, q, r
  <1>7. a - r = s * q + 0 /\ a - r \in Nat /\ 0 \in 0 .. s - 1
    BY <1>2, <1>5
  <1>8. (a - r) % s = 0
    <2> DEFINE e == a - r
    <2>1. e \in Nat /\ e = s * q + 0 /\ q \in Int /\ 0 \in 0 .. s - 1
      BY <1>5, <1>7
    <2> HIDE DEF e
    <2>2. e % s = 0
      BY <1>2, <2>1, DivUnique
    <2> QED
      BY <2>2 DEF e
  <1>9. (a - r) + (w - 1 - (w - s)) = (a - r) + s - 1
    BY <1>1, <1>2, <1>5
  <1>10. a \in a - r .. (a - r) + s - 1
    BY <1>1, <1>2, <1>5
  <1>11. CidrRange(a, prefix).min = a - r /\ CidrRange(a, prefix).max = (a - r) + s - 1
    BY <1>6, <1>9
  <1> HIDE DEF k
  <1> QED
    BY <1>8, <1>10, <1>11 DEF s, k

\* What network create was given are texts of its own tokens.
CreateTexts == {t.text : t \in UNION ToSet(Tokens["network create"])}
CreateInv == cmd = "network create" => args.argv \in Seq(CreateTexts)

\* The elements of a list, and one more.
LEMMA ListOf ==
    ASSUME NEW S, NEW s \in Seq(S)
    PROVE  /\ Len(s) = 2 => s[2] \in S
           /\ \A x \in S : Append(s, x) \in Seq(S)
  OBVIOUS

\* It is an invariant.
LEMMA CreateInvariance == Spec => []CreateInv
  <1>1. Init => CreateInv
    <2>1. Fresh.argv = <<>>
      BY DEF Fresh
    <2>2. <<>> \in Seq(CreateTexts)
      OBVIOUS
    <2> QED
      BY <2>1, <2>2, Zenon DEF Init, CreateInv
  <1>2. ConfInv /\ CreateInv /\ [Next]_vars => CreateInv'
    <2> SUFFICES ASSUME ConfInv, CreateInv, [Next]_vars PROVE CreateInv'
      OBVIOUS
    <2>1. ASSUME NEW t \in UNION ToSet(Tokens[cmd]), Token(t) PROVE CreateInv'
      <3> SUFFICES ASSUME cmd = "network create" PROVE args'.argv \in Seq(CreateTexts)
        BY <2>1 DEF CreateInv, Token
      <3>1. args.argv \in Seq(CreateTexts) /\ t.text \in CreateTexts
        BY <2>1 DEF CreateInv, CreateTexts
      <3>2. args' = args \/ args' = [args EXCEPT !.argv = Append(@, t.text)]
        BY <2>1 DEF Token
      <3>3. [args EXCEPT !.argv = Append(@, t.text)].argv = Append(args.argv, t.text)
        BY DEF ConfInv, Arguments
      <3>4. Append(args.argv, t.text) \in Seq(CreateTexts)
        BY <3>1, ListOf, Zenon
      <3> QED
        BY <3>1, <3>2, <3>3, <3>4, Zenon
    <2>2. CASE \/ EndOfLine \/ MountVolumes \/ WriteMetadata \/ Damage \/ ReadMetadata
               \/ UnmountVolumes \/ UNCHANGED vars
      <3>1. args' = args /\ cmd' = cmd
        BY <2>2 DEF EndOfLine, MountVolumes, WriteMetadata, Damage, ReadMetadata,
             UnmountVolumes, vars
      <3> QED
        BY <3>1 DEF CreateInv
    <2> QED
      BY <2>1, <2>2 DEF Next
  <1> QED
    BY <1>1, <1>2, ConfInvariance, PTL DEF Spec

\* The prefixes that td_parse_long lets through.
LEMMA PrefixUpTo == \A n \in Nat : n <= Width => n \in 0 .. Width
  <1>1. Width \in Nat
    BY Powers
  <1> QED
    BY <1>1

\* The range that get_cidr_range computes for an accepted network create is the
\* aligned block of 2^(Width - prefix) addresses its address lies in, for every
\* width, address and prefix, 0 and the full width included.
THEOREM CidrBlock == Spec => []CidrIsBlock
  <1>1. ConfInv /\ ParserInv /\ CreateInv => CidrIsBlock
    <2> SUFFICES ASSUME ConfInv, ParserInv, CreateInv, pc = "accepted", cmd = "network create"
                 PROVE  LET c == args.argv[2]
                            range == CidrRange(c.address, c.prefix)
                            size == Pow2[Width - c.prefix]
                        IN /\ range.min % size = 0 /\ range.max = range.min + size - 1
                           /\ c.address \in range.min .. range.max
      BY DEF CidrIsBlock
    <2> DEFINE c == args.argv[2]
    <2>1. NetworkWellCalled
      BY DEF ParserInv, WellCalled
    <2>2. Len(args.argv) = 2 /\ ValidCidr(c)
      BY <2>1 DEF NetworkWellCalled
    <2>3. c \in CreateTexts
      <3>1. args.argv \in Seq(CreateTexts)
        BY DEF CreateInv
      <3> QED
        BY <2>2, <3>1, ListOf, Zenon
    <2>4. "network create" \in Commands
      BY DEF ConfInv, TypeOK
    <2>5. /\ c.address \in {NaN} \cup 0 .. Pow2[Width] - 1
          /\ c.prefix \in {NaN} \cup Nat
      <3>1. PICK t \in UNION ToSet(Tokens["network create"]) : c = t.text
        BY <2>3, Zenon DEF CreateTexts
      <3>2. /\ t.text.address \in {NaN} \cup 0 .. Pow2[Width] - 1
            /\ t.text.prefix \in {NaN} \cup Nat
        BY <2>4, TokensAssumption, Zenon
      <3> QED
        BY <3>1, <3>2, Zenon
    <2> HIDE DEF c
    <2>6. c.address \in 0 .. Pow2[Width] - 1 /\ c.prefix \in 0 .. Width
      <3>1. /\ c.address # NaN /\ c.prefix # NaN
            /\ c.prefix >= 0 /\ c.prefix <= Width
        BY <2>2, Zenon DEF ValidCidr, InRange
      <3>2. c.address \in 0 .. Pow2[Width] - 1 /\ c.prefix \in Nat
        BY <2>5, <3>1, Zenon
      <3> QED
        BY <3>1, <3>2, PrefixUpTo, Zenon
    <2> QED
      BY <2>6, RangeIsBlock DEF c
  <1> QED
    BY <1>1, ParserInvariance, CreateInvariance, PTL
=============================================================================
