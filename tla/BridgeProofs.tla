---------------------------- MODULE BridgeProofs ----------------------------
(***************************************************************************)
(* What network create, network rm and init_docker_env promise for any     *)
(* number of processes, networks and failing calls: bridges of others are  *)
(* left alone, interface and record of a network agree when nobody works   *)
(* on it, and a run leaves with the default network ready.                 *)
(***************************************************************************)
EXTENDS Bridge, FiniteSetTheorems, TLAPS

\* Places of init_docker_env alone; of create_network before and after it has
\* made the bridge; and of delete_owned_bridge.
EnvOnly == {"default", "adopt", "adoptlink", "setup", "rule", "addrule"}
Asking == {"exists", "absent", "addbr"}
Making == {"index", "alias", "check", "undo", "record", "address", "up"}
Rolling == {"own", "verify", "down", "recheck", "delbr"}

\* Places where a command looks before it touches the interface, or has done
\* with it.
Harmless ==
    {"default", "adopt", "adoptlink", "rule", "addrule", "exists", "absent", "addbr", "tracked",
     "own", "verify", "recheck", "forget"}

Busy == {p \in Procs : pc[p] \notin Resting}

\* Each command adds at most one MASQUERADE rule.
RulesCounted ==
    /\ IsFiniteSet(Busy)
    /\ masq + Cardinality(Busy) <= count["command"]
    /\ count["command"] <= MaxCommands

\* Commands are only at places of their own.
InOrder(p) ==
    /\ p \in Busy /\ cmd[p] = "run" => net[p] = Default /\ want[p] = DefaultCidr
    /\ pc[p] \in EnvOnly => cmd[p] = "run"
    /\ pc[p] \in Asking \cup Making => cmd[p] # "rm"
    /\ pc[p] = "tracked" => cmd[p] = "rm"
    /\ pc[p] \in Rolling \cup {"forget"} => (after[p] = "rm" <=> cmd[p] = "rm")
    /\ pc[p] = "forget" => after[p] # "unrecorded"

CommandsInOrder == \A p \in Procs : InOrder(p)

\* Indices are given in the order the interfaces are made.
Indexed ==
    /\ \A n \in Nets : link[n] # NoLink => link[n].index <= made
    /\ \A p \in Procs : idx[p] <= made

\* p will not touch the interface of its network, made by somebody else: it has
\* yet to look, or compares an older index with this one's.
Apart(p) ==
    \/ pc[p] \in Resting \cup Harmless
    \/ pc[p] = "check" /\ idx[p] # link[net[p]].index

\* Nobody who looked after a stray bridge was made, or has yet to look, touches it.
StrayApart ==
    \A n \in Nets : Stray(n) => \A p \in Procs : net[p] = n => p \in blind \/ Apart(p)

\* p is responsible for the interface, or for the record, of its network: it
\* made it and has not finished, or is taking it away.
HoldsLink(p) == pc[p] \in Making \cup Rolling
HoldsRecord(p) ==
    \/ pc[p] \in {"address", "up"}
    \/ pc[p] \in Rolling \cup {"forget"} /\ after[p] # "unrecorded"

\* At most one command is responsible for each, and an rm is alone.
Exclusive(n) ==
    \A p, q \in Procs : net[p] = n /\ net[q] = n /\ p # q =>
        /\ p \in Busy /\ q \in Busy => cmd[p] # "rm"
        /\ ~(HoldsLink(p) /\ HoldsLink(q))
        /\ ~(HoldsRecord(p) /\ HoldsRecord(q))

\* The record is on its way out; the interface is gone, or somebody else's care.
Leaving(n) == \E q \in Procs : net[q] = n /\ pc[q] = "forget"
CaredFor(n) == link[n] = NoLink \/ \E q \in Procs : net[q] = n /\ HoldsLink(q)

\* What a responsible command knows.
Held(n, p) ==
    /\ HoldsLink(p) => link[n] # NoLink
    /\ pc[p] \in Named => idx[p] = link[n].index
    /\ pc[p] \in {"index", "alias", "check", "undo"} => ~link[n].owned
    /\ pc[p] \in {"record", "address", "up"} \cup Rolling => link[n].owned
    /\ pc[p] \in {"index", "alias", "record", "address"} => link[n].addrs = {}
    /\ pc[p] = "up" => link[n].addrs = {want[p]}
    /\ HoldsRecord(p) => db[n] # NoRecord
    /\ pc[p] \in {"address", "up"} => db[n].cidr = want[p]
    /\ pc[p] = "forget" => CaredFor(n)
    /\ HoldsLink(p) /\ ~HoldsRecord(p) /\ db[n] # NoRecord => Leaving(n)

\* What nobody is responsible for is whole.
Settled(n) ==
    (\A p \in Procs : net[p] = n => ~HoldsLink(p)) =>
        /\ Owned(n) => db[n] # NoRecord
        /\ db[n] # NoRecord /\ (\A p \in Procs : net[p] = n => ~HoldsRecord(p)) =>
              Owned(n) /\ link[n].up /\ link[n].addrs = {db[n].cidr}

\* Without faults nobody takes the default network away, and what a run found
\* of it stays.
Stands(p) ==
    /\ pc[p] \in Rolling \cup {"forget"} => after[p] # "unconfigured"
    /\ pc[p] \in {"adoptlink", "setup", "rule", "addrule"} =>
          db[Default] # NoRecord /\ db[Default].cidr = DefaultCidr
    /\ pc[p] \in {"setup", "rule", "addrule"} => Owned(Default)
    /\ pc[p] \in {"rule", "addrule"} => link[Default].up

DefaultStands == count["fault"] = 0 => \A p \in Procs : net[p] = Default => Stands(p)

Good(n) == Exclusive(n) /\ Settled(n) /\ \A p \in Procs : net[p] = n => Held(n, p)

Accounted(n) == scars[n] = {} => Good(n) /\ (n = Default => DefaultStands)

BInv ==
    /\ TypeOK /\ RulesCounted /\ CommandsInOrder /\ Indexed /\ StrayApart
    /\ \A n \in Nets : Accounted(n)

\* Before any command the invariant holds.
LEMMA InitBInv == Init => BInv
  <1> SUFFICES ASSUME Init PROVE BInv
    OBVIOUS
  <1> USE DEF Init
  <1>1. TypeOK
    BY DefaultAssumption, LimitAssumption DEF TypeOK, Places, Resting, Named, Databases,
       EmptyDatabase, Events
  <1>2. RulesCounted
    <2>1. Busy = {}
      BY DEF Busy, Resting
    <2> QED
      BY <2>1, LimitAssumption, FS_EmptySet DEF RulesCounted, Events
  <1>3. CommandsInOrder /\ Indexed /\ StrayApart
    BY DEF CommandsInOrder, InOrder, Indexed, StrayApart, Stray, Busy, Resting, EnvOnly, Asking,
       Making, Rolling
  <1>4. \A p \in Procs : ~HoldsLink(p) /\ ~HoldsRecord(p)
    BY DEF HoldsLink, HoldsRecord, Making, Rolling
  <1>5. \A n \in Nets : Exclusive(n) /\ Settled(n) /\ \A p \in Procs : Held(n, p)
    BY <1>4 DEF Exclusive, Settled, Held, Busy, Resting, Owned, Named, Rolling, EmptyDatabase
  <1>6. DefaultStands
    BY DEF DefaultStands, Stands, Rolling
  <1> QED
    BY <1>1, <1>2, <1>3, <1>5, <1>6 DEF BInv, Accounted, Good

-----------------------------------------------------------------------------
\* The step of a command concerns the command's network only, and adds a rule
\* only as it ends.
Local(p, to) ==
    /\ p \in Busy /\ to \in Places /\ pc' = [pc EXCEPT ![p] = to]
    /\ UNCHANGED <<cmd, net, want, blind>>
    /\ \A q \in Procs : q # p => idx'[q] = idx[q] /\ after'[q] = after[q]
    /\ \A n \in Nets : n # net[p] => link'[n] = link[n] /\ db'[n] = db[n] /\ scars'[n] = scars[n]
    /\ count'["command"] = count["command"]
    /\ count'["fault"] = 0 => count["fault"] = 0
    /\ masq' = masq \/ (masq' = masq + 1 /\ to = "ok")

\* The variables a step of a command changes keep their types.
StepTyped ==
    /\ db' \in Databases /\ link' \in [Nets -> Links \cup {NoLink}]
    /\ idx' \in [Procs -> 0 .. MaxLinks]
    /\ after' \in [Procs -> {"rm", "unrecorded", "unconfigured"}]
    /\ made' \in 0 .. MaxLinks
    /\ scars' \in [Nets -> SUBSET {"fault", "crash", "race", "reboot", "admin"}]
    /\ count' \in [Events -> Nat]

\* What every step of a command keeps.
Advances(p) ==
    /\ \E to \in Places : Local(p, to)
    /\ StepTyped /\ InOrder(p)'
    /\ pc'[p] \in Named => idx'[p] # 0

\* A link stays one whatever ip command changes it.
LEMMA SetLinkTyped ==
    ASSUME NEW l \in Links
    PROVE  /\ \A b \in BOOLEAN : [l EXCEPT !["up"] = b] \in Links
           /\ \A b \in BOOLEAN : [l EXCEPT !["owned"] = b] \in Links
           /\ \A s \in SUBSET Cidrs : [l EXCEPT !["addrs"] = s] \in Links
  BY DEF Links

\* A step that leaves the network as it is, or fails.
LEMMA MovesLocal ==
    ASSUME TypeOK, NEW p \in Procs, NEW from \in Places \ Resting, NEW to \in Places,
           Moves(p, from, to) \/ Fault(p, from, to) \/ LeavingFault(p, from, to)
    PROVE  /\ Local(p, to) /\ StepTyped
           /\ pc[p] = from /\ pc'[p] = to /\ idx' = idx /\ after' = after
  BY DEF TypeOK, Moves, Fault, LeavingFault, At, Counted, Scar, frame, bounds, Local, StepTyped,
         Busy, Events

\* An ip command on the interface of the command's network.
LEMMA SetLinkLocal ==
    ASSUME TypeOK, NEW p \in Procs, NEW from \in Places \ Resting, NEW to \in Places,
           \/ \E b \in BOOLEAN : SetLink(p, from, to, "up", b) \/ SetLink(p, from, to, "owned", b)
           \/ \E s \in SUBSET Cidrs : SetLink(p, from, to, "addrs", s)
    PROVE  /\ Local(p, to) /\ StepTyped
           /\ pc[p] = from /\ pc'[p] = to /\ idx' = idx /\ after' = after
  <1>1. link[net[p]] # NoLink /\ net[p] \in Nets
    BY DEF TypeOK, SetLink
  <1>2. link[net[p]] \in Links
    BY <1>1 DEF TypeOK
  <1>3. PICK l \in Links : link' = [link EXCEPT ![net[p]] = l]
    BY <1>1, <1>2, SetLinkTyped DEF SetLink
  <1> QED
    BY <1>1, <1>3 DEF TypeOK, SetLink, At, frame, bounds, Local, StepTyped, Busy

\* A step between places of one command.
LEMMA Onward ==
    ASSUME TypeOK, NEW p \in Procs, InOrder(p), NEW from \in Places \ Resting, NEW to \in Places,
           Local(p, to), StepTyped, pc[p] = from, pc'[p] = to, idx' = idx, after' = after,
           to \in Resting \/ (from \in Named /\ to \in Named) \/ to \notin Named,
           to \in EnvOnly => from \in EnvOnly \/ cmd[p] = "run",
           to \in Asking \cup Making => from \in EnvOnly \cup Asking \cup Making,
           to # "tracked",
           to \in Rolling \cup {"forget"} => from \in Rolling,
           to = "forget" => after[p] # "unrecorded"
    PROVE  Advances(p)
  <1>1. InOrder(p)'
    BY DEF InOrder, Local, Busy, Resting, Places, EnvOnly, Asking, Making, Rolling, TypeOK
  <1> QED
    BY <1>1 DEF Advances, TypeOK, Named, Resting

\* The steps of init_docker_env.
LEMMA InitEnvAdvances ==
    ASSUME TypeOK, NEW p \in Procs, InOrder(p), InitEnv(p)
    PROVE  Advances(p)
  <1> USE DEF Places, Resting, Named, EnvOnly, Asking, Making, Rolling
  <1>1. CASE DefaultBridge(p)
    BY <1>1, MovesLocal, Onward DEF DefaultBridge
  <1>2. CASE AdoptRecord(p)
    BY <1>2, MovesLocal, Onward DEF AdoptRecord
  <1>3. CASE AdoptLink(p)
    BY <1>3, MovesLocal, Onward DEF AdoptLink
  <1>4. CASE SetUp(p)
    <2>1. CASE SetLink(p, "setup", "rule", "up", TRUE)
      <3>1. /\ Local(p, "rule") /\ StepTyped
            /\ pc[p] = "setup" /\ pc'[p] = "rule" /\ idx' = idx /\ after' = after
        BY <2>1, SetLinkLocal
      <3> QED
        BY <3>1, Onward
    <2>2. CASE NoSuchLink(p, "setup", "failed") \/ Fault(p, "setup", "failed")
      BY <2>2, MovesLocal, Onward DEF NoSuchLink
    <2> QED
      BY <1>4, <2>1, <2>2 DEF SetUp
  <1>5. CASE CheckRule(p)
    BY <1>5, MovesLocal, Onward DEF CheckRule
  <1>6. CASE AddRule(p)
    <2>1. CASE Fault(p, "addrule", "failed")
      BY <2>1, MovesLocal, Onward
    <2>2. CASE At(p, "addrule", "ok") /\ masq' = masq + 1
               /\ UNCHANGED <<db, link, frame, scars, bounds>>
      <3>1. Local(p, "ok") /\ StepTyped /\ pc[p] = "addrule" /\ pc'[p] = "ok" /\ idx' = idx
            /\ after' = after
        BY <2>2 DEF TypeOK, At, Local, StepTyped, frame, bounds, Busy
      <3> QED
        BY <3>1, Onward
    <2> QED
      BY <1>6, <2>1, <2>2 DEF AddRule
  <1> QED
    BY <1>1, <1>2, <1>3, <1>4, <1>5, <1>6 DEF InitEnv
\* A name's index is not 0 when there is an interface.
LEMMA IndexTyped ==
    ASSUME TypeOK, NEW n \in Nets
    PROVE  Index(n) \in 0 .. MaxLinks /\ (Index(n) # 0 <=> link[n] # NoLink)
  <1>1. link[n] = NoLink \/ link[n] \in Links
    BY DEF TypeOK
  <1> QED
    BY <1>1, LimitAssumption DEF Index, Links

\* A new bridge is a link.
LEMMA NewLinkTyped ==
    ASSUME TypeOK, made < MaxLinks
    PROVE  \A b \in BOOLEAN : NewLink(b) \in Links /\ made + 1 \in 0 .. MaxLinks
  BY LimitAssumption DEF TypeOK, NewLink, Links

\* brctl delbr, done or not.
LEMMA DeleteAdvances ==
    ASSUME TypeOK, NEW p \in Procs, InOrder(p), NEW from \in {"undo", "delbr"},
           NEW to \in {"failed", "forget"}, Delete(p, from, to) \/ NotDeleted(p, from),
           to = "forget" => from = "delbr" /\ after[p] # "unrecorded"
    PROVE  Advances(p)
  <1> USE DEF Places, Resting, Named, EnvOnly, Asking, Making, Rolling
  <1>1. CASE Delete(p, from, to)
    <2>1. Local(p, to) /\ StepTyped /\ pc[p] = from /\ pc'[p] = to /\ idx' = idx
          /\ after' = after
      BY <1>1 DEF TypeOK, Delete, At, Local, StepTyped, frame, bounds, Busy
    <2> QED
      BY <2>1, Onward
  <1>2. CASE NoSuchLink(p, from, "failed") \/ LeavingFault(p, from, "failed")
    BY <1>2, MovesLocal, Onward DEF NoSuchLink
  <1>3. CASE /\ At(p, from, "failed") /\ Scar(net[p], "fault")
             /\ UNCHANGED <<db, link, masq, frame, bounds>>
    <2>1. Local(p, "failed") /\ StepTyped /\ pc[p] = from /\ pc'[p] = "failed" /\ idx' = idx
          /\ after' = after
      BY <1>3 DEF TypeOK, Scar, At, Local, StepTyped, frame, bounds, Busy
    <2> QED
      BY <2>1, Onward
  <1> QED
    BY <1>1, <1>2, <1>3 DEF NotDeleted

\* The step into delete_owned_bridge.
LEMMA UnownedAdvances ==
    ASSUME TypeOK, NEW p \in Procs, InOrder(p), NEW from \in {"record", "address", "up", "tracked"},
           NEW caller \in {"rm", "unrecorded", "unconfigured"}, Unowned(p, from, caller),
           caller = "rm" <=> from = "tracked",
           UNCHANGED count \/ Counted("fault", MaxFaults),
           UNCHANGED <<db, link, masq, cmd, net, want, idx, blind, scars, made>>
    PROVE  Advances(p)
  <1> USE DEF Places, Resting, Named, EnvOnly, Asking, Making, Rolling
  <1>1. Local(p, "own") /\ StepTyped /\ pc[p] = from /\ pc'[p] = "own" /\ after'[p] = caller
    BY DEF TypeOK, Unowned, At, Local, StepTyped, Busy, Counted, Events
  <1>2. InOrder(p)'
    BY <1>1 DEF InOrder, Local, Busy, TypeOK
  <1> QED
    BY <1>1, <1>2 DEF Advances

\* The steps of create_network.
LEMMA CreateAdvances ==
    ASSUME TypeOK, NEW p \in Procs, InOrder(p), Create(p)
    PROVE  Advances(p)
  <1> USE DEF Places, Resting, Named, EnvOnly, Asking, Making, Rolling
  <1>0. net[p] \in Nets /\ want[p] \in Cidrs
    BY DEF TypeOK
  <1>1. CASE CheckRecord(p)
    BY <1>1, MovesLocal, Onward DEF CheckRecord
  <1>2. CASE CheckLink(p)
    BY <1>2, MovesLocal, Onward DEF CheckLink
  <1>3. CASE AddBridge(p)
    <2>1. CASE Moves(p, "addbr", "failed") \/ Fault(p, "addbr", "failed")
      BY <2>1, MovesLocal, Onward
    <2>2. CASE /\ At(p, "addbr", "index") /\ made < MaxLinks
               /\ link' = [link EXCEPT ![net[p]] = NewLink(FALSE)] /\ made' = made + 1
               /\ UNCHANGED <<db, masq, frame, scars, count>>
      <3>1. Local(p, "index") /\ StepTyped /\ pc[p] = "addbr" /\ pc'[p] = "index" /\ idx' = idx
            /\ after' = after
        BY <1>0, <2>2, NewLinkTyped DEF TypeOK, At, Local, StepTyped, frame, Busy
      <3> QED
        BY <3>1, Onward
    <2> QED
      BY <1>3, <2>1, <2>2 DEF AddBridge
  <1>4. CASE ReadIndex(p)
    <2>1. PICK to \in {"alias", "failed"} :
              At(p, "index", to) /\ (to = "alias" => link[net[p]] # NoLink)
      BY <1>4 DEF ReadIndex
    <2>2. Local(p, to) /\ StepTyped /\ pc[p] = "index" /\ pc'[p] = to /\ idx'[p] = Index(net[p])
      BY <1>0, <1>4, <2>1, IndexTyped DEF TypeOK, At, Local, StepTyped, bounds, Busy, ReadIndex
    <2>3. InOrder(p)'
      BY <2>2 DEF InOrder, Local, Busy, TypeOK
    <2> QED
      BY <1>0, <2>1, <2>2, <2>3, IndexTyped DEF Advances
  <1>5. CASE SetAlias(p)
    <2>1. CASE SetLink(p, "alias", "record", "owned", TRUE)
      <3>1. /\ Local(p, "record") /\ StepTyped
            /\ pc[p] = "alias" /\ pc'[p] = "record" /\ idx' = idx /\ after' = after
        BY <2>1, SetLinkLocal
      <3> QED
        BY <3>1, Onward
    <2>2. CASE NoSuchLink(p, "alias", "check") \/ Fault(p, "alias", "check")
      BY <2>2, MovesLocal, Onward DEF NoSuchLink
    <2> QED
      BY <1>5, <2>1, <2>2 DEF SetAlias
  <1>6. CASE CheckCreated(p)
    BY <1>6, MovesLocal, Onward DEF CheckCreated
  <1>7. CASE UndoBridge(p)
    BY <1>7, DeleteAdvances DEF UndoBridge
  <1>8. CASE AddRecord(p)
    <2>1. CASE /\ At(p, "record", "address") /\ db' = WithAdded(db, net[p], want[p])
               /\ UNCHANGED <<link, masq, frame, scars, bounds>>
      <3>1. Local(p, "address") /\ StepTyped /\ pc[p] = "record" /\ pc'[p] = "address"
            /\ idx' = idx /\ after' = after
        BY <1>0, <2>1 DEF TypeOK, At, Local, StepTyped, frame, bounds, Busy, WithAdded, Databases,
           Record
      <3> QED
        BY <3>1, Onward
    <2> QED
      BY <1>8, <2>1, UnownedAdvances DEF AddRecord
  <1>9. CASE SetAddress(p)
    <2>1. CASE link[net[p]] # NoLink
               /\ SetLink(p, "address", "up", "addrs", link[net[p]].addrs \cup {want[p]})
      <3>1. link[net[p]].addrs \cup {want[p]} \in SUBSET Cidrs
        BY <1>0, <2>1 DEF TypeOK, Links
      <3> QED
        BY <2>1, <3>1, SetLinkLocal, Onward
    <2> QED
      BY <1>9, <2>1, UnownedAdvances DEF SetAddress, Unconfigured
  <1>10. CASE BringUp(p)
    <2>1. CASE SetLink(p, "up", IF cmd[p] = "run" THEN "setup" ELSE "ok", "up", TRUE)
      <3>1. PICK to \in {"setup", "ok"} :
                SetLink(p, "up", to, "up", TRUE) /\ (to = "setup" => cmd[p] = "run")
        BY <2>1
      <3>2. /\ Local(p, to) /\ StepTyped
            /\ pc[p] = "up" /\ pc'[p] = to /\ idx' = idx /\ after' = after
        BY <3>1, SetLinkLocal
      <3> QED
        BY <3>1, <3>2, Onward
    <2> QED
      BY <1>10, <2>1, UnownedAdvances DEF BringUp, Unconfigured
  <1> QED
    BY <1>1, <1>2, <1>3, <1>4, <1>5, <1>6, <1>7, <1>8, <1>9, <1>10 DEF Create

\* The steps of delte_network and delete_owned_bridge.
LEMMA RemoveAdvances ==
    ASSUME TypeOK, NEW p \in Procs, InOrder(p), Remove(p)
    PROVE  Advances(p)
  <1> USE DEF Places, Resting, Named, EnvOnly, Asking, Making, Rolling
  <1>0. net[p] \in Nets /\ after[p] \in {"rm", "unrecorded", "unconfigured"}
    BY DEF TypeOK
  <1>1. CASE CheckTracked(p)
    <2>1. CASE Moves(p, "tracked", "failed") \/ Fault(p, "tracked", "failed")
      BY <2>1, MovesLocal, Onward
    <2> QED
      BY <1>1, <2>1, UnownedAdvances DEF CheckTracked, bounds
  <1>2. CASE OriginalIndex(p)
    <2>1. PICK to \in {"verify", "failed", "forget"} :
              /\ At(p, "own", to)
              /\ to = "verify" => link[net[p]] # NoLink
              /\ to = "forget" => after[p] # "unrecorded"
      BY <1>2 DEF OriginalIndex, Deleted
    <2>2. /\ Local(p, to) /\ StepTyped /\ pc[p] = "own" /\ pc'[p] = to /\ idx'[p] = Index(net[p])
          /\ after' = after
      BY <1>0, <1>2, <2>1, IndexTyped DEF TypeOK, At, Local, StepTyped, bounds, Busy, OriginalIndex
    <2>3. InOrder(p)'
      BY <2>1, <2>2 DEF InOrder, Local, Busy, TypeOK
    <2> QED
      BY <1>0, <2>1, <2>2, <2>3, IndexTyped DEF Advances
  <1>3. CASE Verify(p)
    BY <1>3, MovesLocal, Onward DEF Verify
  <1>4. CASE SetDown(p)
    <2>1. CASE SetLink(p, "down", "recheck", "up", FALSE)
      <3>1. /\ Local(p, "recheck") /\ StepTyped
            /\ pc[p] = "down" /\ pc'[p] = "recheck" /\ idx' = idx /\ after' = after
        BY <2>1, SetLinkLocal
      <3> QED
        BY <3>1, Onward
    <2>2. CASE NoSuchLink(p, "down", "recheck") \/ Fault(p, "down", "recheck")
      BY <2>2, MovesLocal, Onward DEF NoSuchLink
    <2> QED
      BY <1>4, <2>1, <2>2 DEF SetDown
  <1>5. CASE Recheck(p)
    BY <1>5, MovesLocal, Onward DEF Recheck
  <1>6. CASE DeleteBridge(p)
    BY <1>6, DeleteAdvances DEF DeleteBridge, Deleted
  <1>7. CASE Forget(p)
    <2>1. CASE LeavingFault(p, "forget", "failed")
      BY <2>1, MovesLocal, Onward
    <2>2. CASE /\ At(p, "forget", IF after[p] = "rm" THEN "ok" ELSE "failed")
               /\ db' = WithDeleted(db, net[p]) /\ UNCHANGED <<link, masq, frame, scars, bounds>>
      <3>1. PICK to \in {"ok", "failed"} : At(p, "forget", to)
        BY <2>2
      <3>2. Local(p, to) /\ StepTyped /\ pc[p] = "forget" /\ pc'[p] = to
            /\ idx' = idx /\ after' = after
        BY <1>0, <2>2, <3>1 DEF TypeOK, At, Local, StepTyped, frame, bounds, Busy, WithDeleted,
           Databases
      <3> QED
        BY <3>2, Onward
    <2> QED
      BY <1>7, <2>1, <2>2 DEF Forget
  <1> QED
    BY <1>1, <1>2, <1>3, <1>4, <1>5, <1>6, <1>7 DEF Remove

\* A killed process takes no step any more.
LEMMA CrashAdvances ==
    ASSUME TypeOK, NEW p \in Procs, InOrder(p), Crash(p)
    PROVE  Advances(p)
  <1>1. Local(p, "idle") /\ StepTyped /\ pc'[p] = "idle"
    BY DEF TypeOK, Crash, Counted, Scar, Local, StepTyped, frame, Busy, Events, Places, Resting
  <1>2. InOrder(p)'
    BY <1>1 DEF InOrder, Local, Busy, Resting, EnvOnly, Asking, Making, Rolling
  <1> QED
    BY <1>1, <1>2 DEF Advances, Places, Resting, Named

Step(p) == InitEnv(p) \/ Create(p) \/ Remove(p) \/ Crash(p)

\* Each is a step of the command for itself.
LEMMA StepAdvances ==
    ASSUME TypeOK, CommandsInOrder, NEW p \in Procs, Step(p)
    PROVE  Advances(p)
  BY InitEnvAdvances, CreateAdvances, RemoveAdvances, CrashAdvances DEF Step, CommandsInOrder

\* Types, the number of rules and the order of commands.
Frame == TypeOK /\ RulesCounted /\ CommandsInOrder

\* A step keeps them.
LEMMA StepFrame ==
    ASSUME Frame, NEW p \in Procs, Step(p)
    PROVE  Frame'
  <1> USE DEF Frame
  <1>0. Advances(p)
    BY StepAdvances
  <1>1. PICK to \in Places : Local(p, to)
    BY <1>0 DEF Advances
  <1>2. pc'[p] = to /\ \A q \in Procs : q # p => pc'[q] = pc[q]
    BY <1>1 DEF Local, TypeOK
  <1>3. CommandsInOrder'
    <2>1. \A q \in Procs : q # p => InOrder(q)'
      BY <1>1, <1>2 DEF CommandsInOrder, InOrder, Local, Busy
    <2> QED
      BY <1>0, <2>1 DEF Advances, CommandsInOrder
  <1>4. RulesCounted'
    <2>0. masq \in Nat /\ count["command"] \in Nat /\ IsFiniteSet(Busy) /\ p \in Busy
      BY <1>1 DEF TypeOK, RulesCounted, Local, Events
    <2>1. CASE to \in Resting
      <3>1. Busy' = Busy \ {p}
        BY <1>1, <1>2, <2>1 DEF Busy, Local
      <3>2. /\ IsFiniteSet(Busy') /\ Cardinality(Busy') = Cardinality(Busy) - 1
            /\ Cardinality(Busy) \in Nat
        BY <2>0, <3>1, FS_RemoveElement, FS_CardinalityType
      <3> QED
        BY <1>1, <2>0, <3>2, LimitAssumption DEF RulesCounted, Local
    <2>2. CASE to \notin Resting
      <3>1. Busy' = Busy
        BY <1>1, <1>2, <2>2 DEF Busy, Local
      <3> QED
        BY <1>1, <2>2, <3>1 DEF RulesCounted, Local, Resting
    <2> QED
      BY <2>1, <2>2
  <1>5. TypeOK'
    <2>1. masq' \in 0 .. MaxCommands
      <3>1. masq' \in Nat /\ count'["command"] \in Nat
        BY <1>1 DEF TypeOK, Local, Events
      <3>2. Cardinality(Busy') \in Nat
        BY <1>4, FS_CardinalityType DEF RulesCounted
      <3> QED
        BY <1>4, <3>1, <3>2, LimitAssumption DEF RulesCounted
    <2>2. \A q \in Procs : pc'[q] \in Named => idx'[q] # 0
      BY <1>0, <1>1, <1>2 DEF Advances, Local, TypeOK
    <2> QED
      BY <1>0, <1>1, <2>1, <2>2 DEF TypeOK, Advances, StepTyped, Local
  <1> QED
    BY <1>3, <1>4, <1>5

\* A new command keeps them.
LEMMA BeginFrame ==
    ASSUME Frame, NEW p \in Procs, Command(p)
    PROVE  Frame'
  <1> USE DEF Frame
  <1>0. PICK n \in Nets, c \in Cidrs, k \in {"create", "rm", "run"} : Begin(p, k, n, c)
    BY DEF Command
  <1>1. PICK to \in {"default", "exists", "tracked"} :
            /\ pc' = [pc EXCEPT ![p] = to]
            /\ k = "run" <=> to = "default"
            /\ k = "create" <=> to = "exists"
            /\ k = "rm" <=> to = "tracked"
    BY <1>0 DEF Begin
  <1>2. count["command"] \in Nat /\ count["command"] < MaxCommands
        /\ count' \in [Events -> Nat] /\ count'["command"] = count["command"] + 1
    BY <1>0 DEF Begin, Counted, TypeOK, Events
  <1>3. p \notin Busy /\ Busy' = Busy \cup {p}
    BY <1>0, <1>1 DEF Begin, Busy, TypeOK, Resting
  <1>4. RulesCounted'
    <2>1. IsFiniteSet(Busy') /\ Cardinality(Busy') = Cardinality(Busy) + 1
          /\ Cardinality(Busy) \in Nat
      BY <1>3, FS_AddElement, FS_CardinalityType DEF RulesCounted
    <2>2. masq' = masq /\ masq \in Nat
      BY <1>0 DEF Begin, TypeOK
    <2> QED
      BY <1>2, <2>1, <2>2, LimitAssumption DEF RulesCounted
  <1>5. CommandsInOrder'
    <2>1. \A q \in Procs : q # p => InOrder(q)'
      BY <1>0, <1>1 DEF CommandsInOrder, InOrder, Busy, Begin, TypeOK
    <2>2. InOrder(p)'
      BY <1>0, <1>1 DEF InOrder, Begin, TypeOK, EnvOnly, Asking, Making, Rolling
    <2> QED
      BY <2>1, <2>2 DEF CommandsInOrder
  <1>6. TypeOK'
    <2>1. scars' \in [Nets -> SUBSET {"fault", "crash", "race", "reboot", "admin"}]
      BY <1>0 DEF Begin, Scar, TypeOK
    <2>2. pc' \in [Procs -> Places] /\ \A q \in Procs : pc'[q] \in Named => pc[q] \in Named
      BY <1>1 DEF TypeOK, Places, Named
    <2> QED
      BY <1>0, <1>2, <2>1, <2>2 DEF Begin, TypeOK
  <1> QED
    BY <1>4, <1>5, <1>6

\* A reboot keeps them.
LEMMA RebootFrame ==
    ASSUME Frame, Reboot
    PROVE  Frame'
  <1> USE DEF Frame
  <1>1. Busy' = {}
    BY DEF Busy, Reboot, Resting
  <1>2. count' \in [Events -> Nat] /\ count'["command"] = count["command"]
        /\ count["command"] \in Nat /\ count["command"] <= MaxCommands
    BY DEF Reboot, Counted, TypeOK, RulesCounted, Events
  <1>3. RulesCounted'
    BY <1>1, <1>2, FS_EmptySet DEF Reboot, RulesCounted
  <1>4. CommandsInOrder'
    BY <1>1 DEF CommandsInOrder, InOrder, Reboot, EnvOnly, Asking, Making, Rolling
  <1>5. TypeOK'
    BY <1>2, LimitAssumption DEF TypeOK, Reboot, frame, Places, Resting, Named
  <1> QED
    BY <1>3, <1>4, <1>5

\* The administrator keeps them.
LEMMA AdminFrame ==
    ASSUME Frame, NEW n \in Nets, AdminAdds(n)
    PROVE  Frame'
  <1> USE DEF Frame
  <1>1. NewLink(TRUE) \in Links /\ made + 1 \in 0 .. MaxLinks
    BY NewLinkTyped DEF AdminAdds
  <1>2. TypeOK'
    <2>1. scars' \in [Nets -> SUBSET {"fault", "crash", "race", "reboot", "admin"}]
      BY DEF AdminAdds, Scar, TypeOK
    <2> QED
      BY <1>1, <2>1 DEF TypeOK, AdminAdds
  <1>3. Busy' = Busy /\ CommandsInOrder'
    BY DEF Busy, CommandsInOrder, InOrder, AdminAdds
  <1> QED
    BY <1>2, <1>3 DEF RulesCounted, AdminAdds

-----------------------------------------------------------------------------
\* A step of p makes no stray bridge, leaves one as it is unless p is blind, and
\* gets no nearer to it.
Spares(p) ==
    /\ Stray(net[p]) /\ p \notin blind => link'[net[p]] = link[net[p]] /\ Apart(p)'
    /\ Stray(net[p])' => Stray(net[p]) /\ link'[net[p]].index = link[net[p]].index

\* From where p goes to where, without touching the interface.
Looks(p, from, to) ==
    /\ from \in Harmless => \/ to \in Resting \cup Harmless
                            \/ link[net[p]] = NoLink
                            \/ Owned(net[p])
    /\ from = "check" => to \in Resting \/ Index(net[p]) = idx[p]

\* A step that changes no interface.
LEMMA IdleSpares ==
    ASSUME TypeOK, StrayApart, NEW p \in Procs, link' = link, net' = net,
           NEW from \in Places \ Resting, NEW to \in Places, At(p, from, to), Looks(p, from, to)
    PROVE  Spares(p)
  <1>1. net[p] \in Nets /\ pc[p] = from /\ pc'[p] = to
    BY DEF TypeOK, At
  <1>2. ASSUME Stray(net[p]), p \notin blind
        PROVE  to \in Resting \cup Harmless
    BY <1>1, <1>2 DEF StrayApart, Apart, Looks, Stray, Owned, Index
  <1> QED
    BY <1>1, <1>2 DEF Spares, Apart, Stray

\* One that fails, or decides.
LEMMA MovesSpares ==
    ASSUME TypeOK, StrayApart, NEW p \in Procs,
           NEW from \in Places \ Resting, NEW to \in Places,
           Moves(p, from, to) \/ Fault(p, from, to) \/ LeavingFault(p, from, to),
           Looks(p, from, to)
    PROVE  Spares(p)
  <1>1. link' = link /\ net' = net /\ At(p, from, to)
    BY DEF Moves, Fault, LeavingFault, frame
  <1> QED
    BY <1>1, IdleSpares

\* An ip command or a deletion, by a command past its look.
LEMMA ChangeSpares ==
    ASSUME TypeOK, StrayApart, NEW p \in Procs, pc[p] \notin Resting \cup Harmless \cup {"check"},
           net' = net,
           link'[net[p]] # NoLink => /\ link[net[p]] # NoLink
                                     /\ link'[net[p]].foreign = link[net[p]].foreign
                                     /\ link[net[p]].owned => link'[net[p]].owned
                                     /\ link'[net[p]].index = link[net[p]].index
    PROVE  Spares(p)
  <1>1. net[p] \in Nets
    BY DEF TypeOK
  <1> QED
    BY <1>1 DEF Spares, StrayApart, Stray, Apart

\* An ip command leaves alone who made the interface.
LEMMA SetLinkSpares ==
    ASSUME TypeOK, StrayApart, NEW p \in Procs,
           NEW from \in Places \ (Resting \cup Harmless \cup {"check"}), NEW to \in Places,
           \/ \E b \in BOOLEAN : SetLink(p, from, to, "up", b)
           \/ SetLink(p, from, to, "owned", TRUE)
           \/ \E s \in SUBSET Cidrs : SetLink(p, from, to, "addrs", s)
    PROVE  Spares(p)
  <1>1. link[net[p]] # NoLink /\ net[p] \in Nets /\ net' = net /\ pc[p] = from
    BY DEF TypeOK, SetLink, frame, At
  <1>2. link[net[p]] \in Links
    BY <1>1 DEF TypeOK
  <1>3. /\ link'[net[p]].foreign = link[net[p]].foreign
        /\ link'[net[p]].index = link[net[p]].index
        /\ link[net[p]].owned => link'[net[p]].owned
    BY <1>1, <1>2 DEF SetLink, Links, TypeOK
  <1> QED
    BY <1>1, <1>3, ChangeSpares

\* init_docker_env.
LEMMA InitEnvSpares ==
    ASSUME TypeOK, CommandsInOrder, StrayApart, NEW p \in Procs, InitEnv(p)
    PROVE  Spares(p)
  <1> USE DEF Places, Resting, Harmless, Looks
  <1>0. pc[p] \in {"default", "adoptlink"} => net[p] = Default
    BY DEF CommandsInOrder, InOrder, Busy, EnvOnly
  <1>1. CASE DefaultBridge(p)
    BY <1>0, <1>1, MovesSpares DEF DefaultBridge
  <1>2. CASE AdoptRecord(p)
    BY <1>2, MovesSpares DEF AdoptRecord
  <1>3. CASE AdoptLink(p)
    <2>1. pc[p] = "adoptlink"
      BY <1>3 DEF AdoptLink, Moves, Fault, At
    <2> QED
      BY <1>0, <1>3, <2>1, MovesSpares DEF AdoptLink
  <1>4. CASE SetUp(p)
    <2>1. CASE SetLink(p, "setup", "rule", "up", TRUE)
      BY <2>1, SetLinkSpares
    <2>2. CASE NoSuchLink(p, "setup", "failed") \/ Fault(p, "setup", "failed")
      BY <2>2, MovesSpares DEF NoSuchLink
    <2> QED
      BY <1>4, <2>1, <2>2 DEF SetUp
  <1>5. CASE CheckRule(p)
    BY <1>5, MovesSpares DEF CheckRule
  <1>6. CASE AddRule(p)
    <2>1. CASE At(p, "addrule", "ok") /\ link' = link /\ net' = net
      BY <2>1, IdleSpares
    <2> QED
      BY <1>6, <2>1, MovesSpares DEF AddRule, frame
  <1> QED
    BY <1>1, <1>2, <1>3, <1>4, <1>5, <1>6 DEF InitEnv

\* brctl delbr, done or not.
LEMMA DeleteSpares ==
    ASSUME TypeOK, StrayApart, NEW p \in Procs, NEW from \in {"undo", "delbr"},
           NEW to \in {"failed", "forget"}, Delete(p, from, to) \/ NotDeleted(p, from)
    PROVE  Spares(p)
  <1> USE DEF Places, Resting, Harmless, Looks
  <1>1. CASE Delete(p, from, to)
    BY <1>1, ChangeSpares DEF Delete, At, frame, TypeOK
  <1>2. CASE NoSuchLink(p, from, "failed") \/ LeavingFault(p, from, "failed")
    BY <1>2, MovesSpares DEF NoSuchLink
  <1>3. CASE At(p, from, "failed") /\ link' = link /\ net' = net
    BY <1>3, IdleSpares
  <1> QED
    BY <1>1, <1>2, <1>3 DEF NotDeleted, frame

\* The step into delete_owned_bridge.
LEMMA UnownedSpares ==
    ASSUME TypeOK, StrayApart, NEW p \in Procs,
           NEW from \in Places \ (Resting \cup {"check"}), NEW caller,
           Unowned(p, from, caller), link' = link, net' = net
    PROVE  Spares(p)
  BY IdleSpares DEF Unowned, Places, Harmless, Looks

\* create_network.
LEMMA CreateSpares ==
    ASSUME TypeOK, StrayApart, NEW p \in Procs, Create(p)
    PROVE  Spares(p)
  <1> USE DEF Places, Resting, Harmless, Looks
  <1>1. CASE CheckRecord(p)
    BY <1>1, MovesSpares DEF CheckRecord
  <1>2. CASE CheckLink(p)
    BY <1>2, MovesSpares DEF CheckLink
  <1>3. CASE AddBridge(p)
    <2>1. CASE Moves(p, "addbr", "failed") \/ Fault(p, "addbr", "failed")
      BY <2>1, MovesSpares
    <2>2. CASE /\ link[net[p]] = NoLink /\ link' = [link EXCEPT ![net[p]] = NewLink(FALSE)]
               /\ net' = net
      BY <2>2 DEF Spares, Stray, NewLink, TypeOK
    <2> QED
      BY <1>3, <2>1, <2>2 DEF AddBridge, frame
  <1>4. CASE ReadIndex(p)
    BY <1>4, IdleSpares DEF ReadIndex
  <1>5. CASE SetAlias(p)
    <2>1. CASE SetLink(p, "alias", "record", "owned", TRUE)
      BY <2>1, SetLinkSpares
    <2>2. CASE NoSuchLink(p, "alias", "check") \/ Fault(p, "alias", "check")
      BY <2>2, MovesSpares DEF NoSuchLink
    <2> QED
      BY <1>5, <2>1, <2>2 DEF SetAlias
  <1>6. CASE CheckCreated(p)
    BY <1>6, MovesSpares DEF CheckCreated
  <1>7. CASE UndoBridge(p)
    BY <1>7, DeleteSpares DEF UndoBridge
  <1>8. CASE AddRecord(p)
    <2>1. CASE At(p, "record", "address") /\ link' = link /\ net' = net
      BY <2>1, IdleSpares
    <2> QED
      BY <1>8, <2>1, UnownedSpares DEF AddRecord, frame
  <1>9. CASE SetAddress(p)
    <2>1. CASE link[net[p]] # NoLink
               /\ SetLink(p, "address", "up", "addrs", link[net[p]].addrs \cup {want[p]})
      <3>1. link[net[p]].addrs \cup {want[p]} \in SUBSET Cidrs
        BY <2>1 DEF TypeOK, Links
      <3> QED
        BY <2>1, <3>1, SetLinkSpares
    <2> QED
      BY <1>9, <2>1, UnownedSpares DEF SetAddress, Unconfigured
  <1>10. CASE BringUp(p)
    <2>1. CASE SetLink(p, "up", IF cmd[p] = "run" THEN "setup" ELSE "ok", "up", TRUE)
      BY <2>1, SetLinkSpares
    <2> QED
      BY <1>10, <2>1, UnownedSpares DEF BringUp, Unconfigured
  <1> QED
    BY <1>1, <1>2, <1>3, <1>4, <1>5, <1>6, <1>7, <1>8, <1>9, <1>10 DEF Create

\* delte_network and delete_owned_bridge.
LEMMA RemoveSpares ==
    ASSUME TypeOK, StrayApart, NEW p \in Procs, Remove(p)
    PROVE  Spares(p)
  <1> USE DEF Places, Resting, Harmless, Looks
  <1>1. CASE CheckTracked(p)
    <2>1. CASE Moves(p, "tracked", "failed") \/ Fault(p, "tracked", "failed")
      BY <2>1, MovesSpares
    <2> QED
      BY <1>1, <2>1, UnownedSpares DEF CheckTracked
  <1>2. CASE OriginalIndex(p)
    <2>1. PICK to \in {"verify", "failed", "forget"} :
              At(p, "own", to) /\ (to = "verify" \/ link[net[p]] = NoLink)
      BY <1>2 DEF OriginalIndex, Deleted
    <2> QED
      BY <1>2, <2>1, IdleSpares DEF OriginalIndex
  <1>3. CASE Verify(p)
    BY <1>3, MovesSpares DEF Verify
  <1>4. CASE SetDown(p)
    <2>1. CASE SetLink(p, "down", "recheck", "up", FALSE)
      BY <2>1, SetLinkSpares
    <2>2. CASE NoSuchLink(p, "down", "recheck") \/ Fault(p, "down", "recheck")
      BY <2>2, MovesSpares DEF NoSuchLink
    <2> QED
      BY <1>4, <2>1, <2>2 DEF SetDown
  <1>5. CASE Recheck(p)
    BY <1>5, MovesSpares DEF Recheck
  <1>6. CASE DeleteBridge(p)
    BY <1>6, DeleteSpares DEF DeleteBridge, Deleted
  <1>7. CASE Forget(p)
    <2>1. CASE LeavingFault(p, "forget", "failed")
      BY <2>1, MovesSpares
    <2>2. CASE /\ At(p, "forget", IF after[p] = "rm" THEN "ok" ELSE "failed")
               /\ link' = link /\ net' = net
      BY <2>2, IdleSpares
    <2> QED
      BY <1>7, <2>1, <2>2 DEF Forget, frame
  <1> QED
    BY <1>1, <1>2, <1>3, <1>4, <1>5, <1>6, <1>7 DEF Remove

\* Every step of a command.
LEMMA StepSpares ==
    ASSUME TypeOK, CommandsInOrder, StrayApart, NEW p \in Procs, Step(p)
    PROVE  Spares(p)
  <1>1. CASE Crash(p)
    BY <1>1 DEF Crash, frame, Spares, Stray, Apart, Resting, TypeOK
  <1> QED
    BY <1>1, InitEnvSpares, CreateSpares, RemoveSpares DEF Step

\* Stray bridges stay apart.
LEMMA StrayKept ==
    ASSUME Frame, Indexed, StrayApart, Next
    PROVE  StrayApart'
  <1> USE DEF Frame
  <1>1. CASE \E p \in Procs : Step(p)
    <2>1. PICK p \in Procs : Step(p)
      BY <1>1
    <2>2. Spares(p) /\ Advances(p)
      BY <2>1, StepSpares, StepAdvances
    <2>3. PICK to \in Places : Local(p, to)
      BY <2>2 DEF Advances
    <2>4. SUFFICES ASSUME NEW n \in Nets, Stray(n)', NEW q \in Procs, net'[q] = n
                   PROVE  q \in blind' \/ Apart(q)'
      BY DEF StrayApart
    <2>5. net' = net /\ blind' = blind /\ (q # p => pc'[q] = pc[q] /\ idx'[q] = idx[q])
      BY <2>3 DEF Local, TypeOK
    <2>6. Stray(n) /\ link'[n].index = link[n].index
      BY <2>2, <2>3, <2>4 DEF Spares, Local, Stray
    <2>7. q \in blind \/ Apart(q)
      BY <2>4, <2>5, <2>6 DEF StrayApart
    <2>8. CASE q = p
      BY <2>2, <2>4, <2>5, <2>6, <2>8 DEF Spares
    <2>9. CASE q # p
      BY <2>4, <2>5, <2>6, <2>7, <2>9 DEF Apart
    <2> QED
      BY <2>8, <2>9
  <1>2. CASE \E p \in Procs : Command(p)
    <2>1. PICK p \in Procs, n \in Nets, c \in Cidrs, k \in {"create", "rm", "run"} :
              Begin(p, k, n, c)
      BY <1>2 DEF Command
    <2>2. link' = link /\ pc'[p] \in Harmless /\ blind' = blind \ {p} /\ idx' = idx
      BY <2>1 DEF Begin, TypeOK, Harmless
    <2>3. \A q \in Procs : q # p => pc'[q] = pc[q] /\ net'[q] = net[q]
      BY <2>1 DEF Begin, TypeOK
    <2> QED
      BY <2>2, <2>3 DEF StrayApart, Stray, Apart
  <1>3. CASE Reboot
    BY <1>3 DEF Reboot, StrayApart, Stray
  <1>4. CASE \E n \in Nets : AdminAdds(n)
    <2>1. PICK n \in Nets : AdminAdds(n)
      BY <1>4
    <2>2. /\ net' = net /\ pc' = pc /\ idx' = idx
          /\ blind' = blind \cup {q \in Procs : net[q] = n /\ pc[q] \in Sightless}
          /\ link'[n].index = made + 1
          /\ \A m \in Nets : m # n => link'[m] = link[m]
      BY <2>1 DEF AdminAdds, NewLink, TypeOK
    <2>3. SUFFICES ASSUME NEW m \in Nets, Stray(m)', NEW q \in Procs, net[q] = m, q \notin blind'
                   PROVE  Apart(q)'
      BY <2>2 DEF StrayApart
    <2>4. CASE m # n
      <3>1. Stray(m) /\ link'[m] = link[m] /\ q \notin blind
        BY <2>2, <2>3, <2>4 DEF Stray
      <3>2. Apart(q)
        BY <2>3, <3>1 DEF StrayApart
      <3> QED
        BY <2>2, <2>3, <3>1, <3>2 DEF Apart
    <2>5. CASE m = n
      <3>1. pc[q] \in Places \ Sightless
        BY <2>2, <2>3, <2>5 DEF TypeOK
      <3>2. idx[q] # made + 1
        BY LimitAssumption DEF Indexed, TypeOK
      <3> QED
        BY <2>2, <2>3, <2>5, <3>1, <3>2 DEF Apart, Places, Sightless, Resting, Harmless
    <2> QED
      BY <2>4, <2>5
  <1> QED
    BY <1>1, <1>2, <1>3, <1>4 DEF Next, Step

\* What a step does to interfaces and indices: nothing, a change of one that is
\* there, a look at one, a new one, or a deletion.
Indexing(p) ==
    \/ UNCHANGED <<link, idx, made>>
    \/ /\ UNCHANGED <<idx, made>>
       /\ \A n \in Nets : link'[n] # NoLink => link[n] # NoLink /\ link'[n].index = link[n].index
    \/ UNCHANGED <<link, made>> /\ idx' = [idx EXCEPT ![p] = Index(net[p])]
    \/ /\ UNCHANGED idx /\ made' = made + 1
       /\ link' = [link EXCEPT ![net[p]] = NewLink(FALSE)]

\* An ip command keeps the index.
LEMMA SetLinkIndexing ==
    ASSUME TypeOK, NEW p \in Procs, NEW from, NEW to, NEW value,
           NEW field \in {"up", "owned", "addrs"}, SetLink(p, from, to, field, value)
    PROVE  Indexing(p)
  <1>1. net[p] \in Nets /\ link[net[p]] \in Links
    BY DEF TypeOK, SetLink
  <1>2. link'[net[p]].index = link[net[p]].index
    BY <1>1 DEF SetLink, Links, TypeOK
  <1> QED
    BY <1>1, <1>2 DEF SetLink, Indexing, frame, bounds, TypeOK

\* Every step of a command is one of these.
LEMMA StepIndexing ==
    ASSUME TypeOK, NEW p \in Procs, Step(p)
    PROVE  Indexing(p)
  <1>1. CASE InitEnv(p)
    <2>1. CASE SetUp(p)
      BY <2>1, SetLinkIndexing DEF SetUp, NoSuchLink, Moves, Fault, Indexing, frame, bounds
    <2>2. CASE ~SetUp(p)
      BY <1>1, <2>2 DEF InitEnv, DefaultBridge, AdoptRecord, AdoptLink, CheckRule, AddRule, Moves,
         Fault, Indexing, frame, bounds
    <2> QED
      BY <2>1, <2>2
  <1>2. CASE CheckRecord(p) \/ CheckLink(p) \/ CheckCreated(p)
    BY <1>2 DEF CheckRecord, CheckLink, CheckCreated, Moves, Fault, Indexing, frame, bounds
  <1>3. CASE AddBridge(p) \/ ReadIndex(p)
    BY <1>3 DEF AddBridge, ReadIndex, Moves, Fault, Indexing, frame, bounds
  <1>4. CASE SetAlias(p)
    BY <1>4, SetLinkIndexing DEF SetAlias, NoSuchLink, Moves, Fault, Indexing, frame, bounds
  <1>5. CASE UndoBridge(p) \/ DeleteBridge(p)
    <2>1. CASE \E from, to : Delete(p, from, to)
      BY <2>1 DEF Delete, Indexing, frame, bounds, TypeOK
    <2>2. CASE \E from : NotDeleted(p, from)
      BY <2>2 DEF NotDeleted, NoSuchLink, Moves, LeavingFault, Indexing, frame, bounds
    <2> QED
      BY <1>5, <2>1, <2>2 DEF UndoBridge, DeleteBridge
  <1>6. CASE AddRecord(p)
    BY <1>6 DEF AddRecord, Indexing, frame, bounds
  <1>7. CASE SetAddress(p) \/ BringUp(p)
    BY <1>7, SetLinkIndexing DEF SetAddress, BringUp, Unconfigured, Indexing
  <1>8. CASE CheckTracked(p) \/ Verify(p) \/ Recheck(p) \/ Forget(p)
    BY <1>8 DEF CheckTracked, Verify, Recheck, Forget, Moves, Fault, LeavingFault, Indexing, frame,
       bounds
  <1>9. CASE OriginalIndex(p) \/ Crash(p)
    BY <1>9 DEF OriginalIndex, Crash, Indexing, frame, bounds
  <1>10. CASE SetDown(p)
    BY <1>10, SetLinkIndexing DEF SetDown, NoSuchLink, Moves, Fault, Indexing, frame, bounds
  <1> QED
    BY <1>1, <1>2, <1>3, <1>4, <1>5, <1>6, <1>7, <1>8, <1>9, <1>10 DEF Step, Create, Remove

\* Indices are given in order.
LEMMA IndexedKept ==
    ASSUME TypeOK, Indexed, Next
    PROVE  Indexed'
  <1>0. made \in Nat /\ idx \in [Procs -> Nat]
    BY LimitAssumption DEF TypeOK
  <1>1. ASSUME NEW p \in Procs, Step(p) PROVE Indexed'
    <2>1. Indexing(p) /\ net[p] \in Nets
      BY <1>1, StepIndexing DEF TypeOK
    <2>2. CASE UNCHANGED <<link, idx, made>>
      BY <2>2 DEF Indexed
    <2>3. CASE /\ UNCHANGED <<idx, made>>
               /\ \A n \in Nets : link'[n] # NoLink
                                  => link[n] # NoLink /\ link'[n].index = link[n].index
      BY <2>3 DEF Indexed
    <2>4. CASE UNCHANGED <<link, made>> /\ idx' = [idx EXCEPT ![p] = Index(net[p])]
      BY <1>0, <2>1, <2>4 DEF Indexed, Index
    <2>5. CASE /\ UNCHANGED idx /\ made' = made + 1
               /\ link' = [link EXCEPT ![net[p]] = NewLink(FALSE)]
      <3>1. \A n \in Nets : link'[n] = link[n] \/ link'[n].index = made + 1
        BY <2>1, <2>5 DEF TypeOK, NewLink
      <3>2. \A n \in Nets : link[n] # NoLink => link[n].index \in Nat
        BY DEF TypeOK, Links
      <3>3. made' = made + 1 /\ idx' = idx
        BY <2>5
      <3>4. \A q \in Procs : idx'[q] <= made'
        BY <1>0, <3>3 DEF Indexed
      <3>5. ASSUME NEW n \in Nets, link'[n] # NoLink PROVE link'[n].index <= made'
        <4>1. CASE link'[n] = link[n]
          BY <1>0, <3>2, <3>3, <3>5, <4>1 DEF Indexed
        <4>2. CASE link'[n].index = made + 1
          BY <1>0, <3>3, <4>2
        <4> QED
          BY <3>1, <4>1, <4>2
      <3> QED
        BY <3>4, <3>5 DEF Indexed
    <2> QED
      BY <2>1, <2>2, <2>3, <2>4, <2>5 DEF Indexing
  <1>2. ASSUME NEW p \in Procs, Command(p) PROVE Indexed'
    BY <1>2 DEF Command, Begin, Indexed
  <1>3. ASSUME Reboot PROVE Indexed'
    BY <1>3 DEF Reboot, Indexed, frame
  <1>4. ASSUME NEW m \in Nets, AdminAdds(m) PROVE Indexed'
    <2>1. \A n \in Nets : link'[n] = link[n] \/ link'[n].index = made + 1
      BY <1>4 DEF AdminAdds, TypeOK, NewLink
    <2>2. \A n \in Nets : link[n] # NoLink => link[n].index \in Nat
      BY DEF TypeOK, Links
    <2>3. made' = made + 1 /\ idx' = idx
      BY <1>4 DEF AdminAdds
    <2>4. \A q \in Procs : idx'[q] <= made'
      BY <1>0, <2>3 DEF Indexed
    <2>5. ASSUME NEW n \in Nets, link'[n] # NoLink PROVE link'[n].index <= made'
      <3>1. CASE link'[n] = link[n]
        BY <1>0, <2>2, <2>3, <2>5, <3>1 DEF Indexed
      <3>2. CASE link'[n].index = made + 1
        BY <1>0, <2>3, <3>2
      <3> QED
        BY <2>1, <3>1, <3>2
    <2> QED
      BY <2>4, <2>5 DEF Indexed
  <1> QED
    BY <1>1, <1>2, <1>3, <1>4 DEF Next, Step

-----------------------------------------------------------------------------
\* What a step of p leaves as it is of the other commands.
LEMMA Others ==
    ASSUME TypeOK, NEW p \in Procs, NEW to \in Places, Local(p, to)
    PROVE  /\ pc'[p] = to /\ cmd' = cmd /\ net' = net /\ want' = want
           /\ \A q \in Procs : q # p =>
                 /\ pc'[q] = pc[q] /\ idx'[q] = idx[q] /\ after'[q] = after[q]
                 /\ HoldsLink(q)' <=> HoldsLink(q)
                 /\ HoldsRecord(q)' <=> HoldsRecord(q)
                 /\ q \in Busy' <=> q \in Busy
  <1>1. pc'[p] = to /\ \A q \in Procs : q # p => pc'[q] = pc[q]
    BY DEF TypeOK, Local
  <1> QED
    BY <1>1 DEF Local, HoldsLink, HoldsRecord, Busy

\* The other networks.
LEMMA Elsewhere ==
    ASSUME TypeOK, NEW p \in Procs, NEW to \in Places, Local(p, to),
           NEW m \in Nets, m # net[p], Accounted(m)
    PROVE  Accounted(m)'
  <1>1. SUFFICES ASSUME scars[m] = {} PROVE Good(m)' /\ (m = Default => DefaultStands')
    BY DEF Accounted, Local
  <1>2. Good(m) /\ (m = Default => DefaultStands) /\ link'[m] = link[m] /\ db'[m] = db[m]
    BY <1>1 DEF Accounted, Local
  <1>3. /\ net' = net /\ cmd' = cmd /\ want' = want
        /\ \A q \in Procs : net[q] = m =>
             /\ pc'[q] = pc[q] /\ idx'[q] = idx[q] /\ after'[q] = after[q]
             /\ HoldsLink(q)' <=> HoldsLink(q)
             /\ HoldsRecord(q)' <=> HoldsRecord(q)
             /\ q \in Busy' <=> q \in Busy
    BY <1>1, Others
  <1>4. Exclusive(m)'
    BY <1>2, <1>3 DEF Good, Exclusive
  <1>5. Settled(m)'
    BY <1>2, <1>3 DEF Good, Settled, Owned
  <1>6. (Leaving(m)' <=> Leaving(m)) /\ (CaredFor(m)' <=> CaredFor(m))
    BY <1>2, <1>3 DEF Leaving, CaredFor
  <1>7. \A q \in Procs : net'[q] = m => Held(m, q)'
    BY <1>2, <1>3, <1>6 DEF Good, Held
  <1>8. m = Default => DefaultStands'
    BY <1>2, <1>3 DEF DefaultStands, Stands, Local, Owned
  <1> QED
    BY <1>4, <1>5, <1>7, <1>8 DEF Good

\* A command takes on no more than it had, unless nobody has it.
LEMMA ExclusiveKept ==
    ASSUME TypeOK, NEW p \in Procs, NEW to \in Places, Local(p, to), Exclusive(net[p]),
           HoldsLink(p)' => \/ HoldsLink(p)
                            \/ \A q \in Procs : q # p /\ net[q] = net[p] => ~HoldsLink(q),
           HoldsRecord(p)' => \/ HoldsRecord(p)
                              \/ \A q \in Procs : q # p /\ net[q] = net[p] => ~HoldsRecord(q)
    PROVE  Exclusive(net[p])'
  <1>1. p \in Busy
    BY DEF Local
  <1> QED
    BY <1>1, Others DEF Exclusive

\* A step that changes neither the network nor the command's responsibility.
Calm(p) ==
    /\ link'[net[p]] = link[net[p]] /\ db'[net[p]] = db[net[p]] /\ scars' = scars
    /\ HoldsLink(p)' <=> HoldsLink(p)
    /\ HoldsRecord(p)' <=> HoldsRecord(p)
    /\ pc'[p] = "forget" <=> pc[p] = "forget"

\* It leaves open only what the command itself knows then.
LEMMA CalmKept ==
    ASSUME TypeOK, NEW p \in Procs, NEW to \in Places, Local(p, to), Calm(p), Accounted(net[p]),
           scars[net[p]] = {} /\ Good(net[p]) => Held(net[p], p)',
           scars[net[p]] = {} /\ net[p] = Default /\ DefaultStands /\ count'["fault"] = 0
               => Stands(p)'
    PROVE  Accounted(net[p])'
  <1> DEFINE n == net[p]
  <1>0. n \in Nets /\ n' = n
    BY Others DEF TypeOK
  <1>1. SUFFICES ASSUME scars[n] = {} PROVE Good(n)' /\ (n = Default => DefaultStands')
    BY <1>0 DEF Accounted, Calm
  <1>2. Good(n) /\ (n = Default => DefaultStands) /\ Held(n, p)'
    BY <1>1 DEF Accounted
  <1>3. Exclusive(n)'
    BY <1>0, <1>2, ExclusiveKept DEF Good, Calm
  <1>4. Settled(n)'
    BY <1>0, <1>2, Others DEF Good, Settled, Owned, Calm
  <1>5. (Leaving(n)' <=> Leaving(n)) /\ (CaredFor(n)' <=> CaredFor(n))
    BY <1>0, Others DEF Leaving, CaredFor, Calm
  <1>6. \A q \in Procs : net'[q] = n => Held(n, q)'
    BY <1>0, <1>2, <1>5, Others DEF Good, Held, Calm
  <1>7. n = Default => DefaultStands'
    BY <1>0, <1>1, <1>2, Others DEF DefaultStands, Stands, Local, Owned, Calm
  <1> QED
    BY <1>0, <1>3, <1>4, <1>6, <1>7 DEF Good

\* Places of commands that are responsible for something.
Charged == Making \cup Rolling \cup {"forget"}

\* A command that is responsible for nothing.
LEMMA BystanderKept ==
    ASSUME TypeOK, NEW p \in Procs, NEW to \in Places, Local(p, to), Accounted(net[p]),
           link' = link, db' = db, scars' = scars, pc[p] \notin Charged, to \notin Charged,
           scars[net[p]] = {} /\ net[p] = Default /\ DefaultStands /\ count'["fault"] = 0
               => Stands(p)'
    PROVE  Accounted(net[p])'
  <1>1. pc'[p] = to
    BY Others
  <1>2. Calm(p)
    BY <1>1 DEF Calm, HoldsLink, HoldsRecord, Charged, Making, Rolling
  <1>3. Held(net[p], p)'
    BY <1>1 DEF Held, HoldsLink, HoldsRecord, Charged, Making, Rolling, Named
  <1> QED
    BY <1>2, <1>3, CalmKept

\* One that moves on, or fails.
LEMMA BystanderMoves ==
    ASSUME TypeOK, NEW p \in Procs, NEW from \in Places \ (Resting \cup Charged),
           NEW to \in Places \ Charged, Moves(p, from, to) \/ Fault(p, from, to),
           Accounted(net[p]),
           to \in EnvOnly /\ scars[net[p]] = {} /\ net[p] = Default /\ DefaultStands
               /\ count'["fault"] = 0 => Stands(p)'
    PROVE  Accounted(net[p])'
  <1>1. link' = link /\ db' = db /\ scars' = scars
    BY DEF Moves, Fault, frame
  <1>2. Local(p, to) /\ pc'[p] = to /\ pc[p] = from
    BY MovesLocal
  <1>3. to \notin EnvOnly => Stands(p)'
    BY <1>2 DEF Stands, EnvOnly, Charged, Rolling, Making
  <1> QED
    BY <1>1, <1>2, <1>3, BystanderKept

\* Faults are seen.
LEMMA FaultCounted ==
    ASSUME TypeOK, Counted("fault", MaxFaults)
    PROVE  count'["fault"] # 0
  BY DEF TypeOK, Counted, Events

\* init_docker_env.
LEMMA InitEnvAccounted ==
    ASSUME TypeOK, CommandsInOrder, NEW p \in Procs, InitEnv(p),
           ~SetLink(p, "setup", "rule", "up", TRUE), Accounted(net[p])
    PROVE  Accounted(net[p])'
  <1> USE DEF Places, Resting, EnvOnly, Charged, Making, Rolling
  <1>0. net[p] = Default /\ DefaultStands /\ count["fault"] = 0 => Stands(p)
    BY DEF DefaultStands
  <1>1. CASE DefaultBridge(p)
    BY <1>1, BystanderMoves, MovesLocal DEF DefaultBridge, Stands
  <1>2. CASE AdoptRecord(p)
    <2>1. CASE db[Default] # NoRecord /\ db[Default].cidr = DefaultCidr
               /\ Moves(p, "adopt", "adoptlink")
      <3>1. Stands(p)'
        BY <2>1, MovesLocal DEF Stands, Moves
      <3> QED
        BY <2>1, <3>1, BystanderMoves
    <2> QED
      BY <1>2, <2>1, BystanderMoves DEF AdoptRecord
  <1>3. CASE AdoptLink(p)
    <2>1. CASE Owned(Default) /\ Moves(p, "adoptlink", "setup")
      <3>1. Stands(p) => Stands(p)'
        BY <2>1, MovesLocal DEF Stands, Moves, Owned
      <3>2. count' = count
        BY <2>1 DEF Moves, bounds
      <3>3. net[p] = Default /\ DefaultStands /\ count'["fault"] = 0 => Stands(p)'
        BY <1>0, <3>1, <3>2
      <3> QED
        BY <2>1, <3>3, BystanderMoves
    <2> QED
      BY <1>3, <2>1, BystanderMoves DEF AdoptLink
  <1>4. CASE SetUp(p)
    <2>1. CASE NoSuchLink(p, "setup", "failed") \/ Fault(p, "setup", "failed")
      BY <2>1, BystanderMoves DEF NoSuchLink
    <2> QED
      BY <1>4, <2>1 DEF SetUp
  <1>5. CASE CheckRule(p)
    <2>1. CASE Moves(p, "rule", "addrule")
      <3>1. Stands(p) => Stands(p)'
        BY <2>1, MovesLocal DEF Stands, Moves, Owned
      <3>2. count' = count
        BY <2>1 DEF Moves, bounds
      <3>3. net[p] = Default /\ DefaultStands /\ count'["fault"] = 0 => Stands(p)'
        BY <1>0, <3>1, <3>2
      <3> QED
        BY <2>1, <3>3, BystanderMoves
    <2>2. CASE Fault(p, "rule", "addrule")
      BY <2>2, FaultCounted, BystanderMoves DEF Fault
    <2> QED
      BY <1>5, <2>1, <2>2, BystanderMoves DEF CheckRule
  <1>6. CASE AddRule(p)
    <2>1. CASE At(p, "addrule", "ok") /\ masq' = masq + 1
               /\ UNCHANGED <<db, link, frame, scars, bounds>>
      <3>1. Local(p, "ok") /\ pc[p] = "addrule" /\ pc'[p] = "ok"
        BY <2>1 DEF TypeOK, At, Local, frame, bounds, Busy
      <3>2. Stands(p)'
        BY <3>1 DEF Stands
      <3> QED
        BY <2>1, <3>1, <3>2, BystanderKept
    <2> QED
      BY <1>6, <2>1, BystanderMoves DEF AddRule
  <1> QED
    BY <1>1, <1>2, <1>3, <1>4, <1>5, <1>6 DEF InitEnv

-----------------------------------------------------------------------------
\* A step that is excused.
LEMMA Excused ==
    ASSUME NEW p \in Procs, net' = net, scars'[net[p]] # {}
    PROVE  Accounted(net[p])'
  BY DEF Accounted

\* What a command finds where it acts.
LEMMA Finds ==
    ASSUME TypeOK, NEW p \in Procs, Accounted(net[p]), scars[net[p]] = {}
    PROVE  /\ Good(net[p]) /\ Held(net[p], p)
           /\ pc[p] \in Named => Index(net[p]) = idx[p]
           /\ HoldsLink(p) => link[net[p]] # NoLink
           /\ pc[p] \in Rolling => Owned(net[p])
           /\ net[p] = Default => DefaultStands
  <1>1. Good(net[p]) /\ Held(net[p], p) /\ (net[p] = Default => DefaultStands)
    BY DEF Accounted, Good, TypeOK
  <1> QED
    BY <1>1 DEF Held, HoldsLink, Named, Making, Rolling, Index, Owned

\* A step a command takes only on a network that is excused already.
LEMMA Impossible ==
    ASSUME TypeOK, NEW p \in Procs, Accounted(net[p]), net' = net, scars' = scars,
           \/ HoldsLink(p) /\ link[net[p]] = NoLink
           \/ pc[p] \in Named /\ Index(net[p]) # idx[p]
           \/ pc[p] \in Rolling /\ ~Owned(net[p])
    PROVE  Accounted(net[p])'
  BY Finds, Excused

\* The steps between a responsible command's changes.
LEMMA HolderMoves ==
    ASSUME TypeOK, NEW p \in Procs, NEW from \in Places \ Resting, NEW to \in Places,
           Moves(p, from, to) \/ Fault(p, from, to), Accounted(net[p]),
           <<from, to>> \in {<<"alias", "check">>, <<"check", "undo">>, <<"verify", "down">>,
                             <<"down", "recheck">>, <<"recheck", "delbr">>}
    PROVE  Accounted(net[p])'
  <1>1. /\ link' = link /\ db' = db /\ scars' = scars /\ net' = net /\ cmd' = cmd /\ want' = want
        /\ Local(p, to) /\ pc[p] = from /\ pc'[p] = to /\ idx' = idx /\ after' = after
    BY MovesLocal DEF Moves, Fault, frame
  <1>2. Calm(p)
    BY <1>1 DEF Calm, HoldsLink, HoldsRecord, Making, Rolling
  <1>3. Leaving(net[p]) => Leaving(net[p])'
    BY <1>1, Others DEF Leaving
  <1>4. Held(net[p], p) => Held(net[p], p)'
    BY <1>1, <1>2, <1>3 DEF Held, Calm, Named, Rolling
  <1>5. net[p] \in Nets /\ (Good(net[p]) => Held(net[p], p))
    BY DEF TypeOK, Good
  <1>6. Stands(p) => Stands(p)'
    BY <1>1 DEF Stands, Rolling
  <1>7. DefaultStands /\ net[p] = Default /\ count'["fault"] = 0 => Stands(p)'
    BY <1>1, <1>6 DEF DefaultStands, Local
  <1> QED
    BY <1>1, <1>2, <1>4, <1>5, <1>7, CalmKept

\* The index is read where the interface is.
LEMMA IndexAccounted ==
    ASSUME TypeOK, NEW p \in Procs, ReadIndex(p) \/ OriginalIndex(p), Accounted(net[p])
    PROVE  Accounted(net[p])'
  <1>1. /\ link' = link /\ db' = db /\ scars' = scars /\ net' = net /\ cmd' = cmd /\ want' = want
        /\ idx' = [idx EXCEPT ![p] = Index(net[p])] /\ after' = after /\ count' = count
        /\ masq' = masq /\ blind' = blind
    BY DEF ReadIndex, OriginalIndex, bounds
  <1>2. HoldsLink(p)
    BY DEF ReadIndex, OriginalIndex, At, HoldsLink, Making, Rolling
  <1>3. CASE link[net[p]] = NoLink
    BY <1>1, <1>2, <1>3, Impossible
  <1>4. CASE link[net[p]] # NoLink
    <2>1. PICK from \in {"index", "own"}, to \in {"alias", "verify"} :
              At(p, from, to) /\ (from = "index" <=> to = "alias")
      BY <1>4 DEF ReadIndex, OriginalIndex
    <2>2. Local(p, to) /\ pc[p] = from /\ pc'[p] = to /\ idx'[p] = link[net[p]].index
      BY <1>1, <1>4, <2>1 DEF TypeOK, At, Local, Busy, Places, Resting, Index
    <2>3. Calm(p)
      BY <1>1, <2>1, <2>2 DEF Calm, HoldsLink, HoldsRecord, Making, Rolling
    <2>4. Leaving(net[p]) => Leaving(net[p])'
      BY <1>1, <2>1, <2>2, Others DEF Leaving, Places
    <2>5. Held(net[p], p) => Held(net[p], p)'
      BY <1>1, <2>1, <2>2, <2>3, <2>4 DEF Held, Calm, Named, Rolling
    <2>6. net[p] \in Nets /\ (Good(net[p]) => Held(net[p], p))
      BY DEF TypeOK, Good
    <2>7. Stands(p) => Stands(p)'
      BY <1>1, <2>1, <2>2 DEF Stands, Rolling
    <2>8. DefaultStands /\ net[p] = Default /\ count'["fault"] = 0 => Stands(p)'
      BY <1>1, <2>7 DEF DefaultStands
    <2> QED
      BY <2>1, <2>2, <2>3, <2>5, <2>6, <2>8, CalmKept DEF Places
  <1> QED
    BY <1>3, <1>4

\* A creator turns back only when a call failed, or the file took no record.
LEMMA TurnsBack ==
    ASSUME TypeOK, NEW p \in Procs, Accounted(net[p]),
           NEW from \in {"record", "address", "up"}, NEW caller \in {"unrecorded", "unconfigured"},
           caller = "unrecorded" <=> from = "record", Unowned(p, from, caller),
           \/ count' = count /\ from = "record"
           \/ Counted("fault", MaxFaults),
           UNCHANGED <<db, link, masq, cmd, net, want, idx, blind, scars, made>>
    PROVE  Accounted(net[p])'
  <1>1. Local(p, "own") /\ pc[p] = from /\ pc'[p] = "own" /\ after'[p] = caller
    BY DEF TypeOK, Unowned, At, Local, Busy, Counted, Events, Places, Resting
  <1>2. Calm(p)
    BY <1>1 DEF Calm, HoldsLink, HoldsRecord, Making, Rolling
  <1>3. Leaving(net[p]) => Leaving(net[p])'
    BY <1>1, Others DEF Leaving, Places
  <1>4. Held(net[p], p) => Held(net[p], p)'
    BY <1>1, <1>2, <1>3 DEF Held, Calm, Named, Rolling
  <1>5. net[p] \in Nets /\ (Good(net[p]) => Held(net[p], p))
    BY DEF TypeOK, Good
  <1>6. count'["fault"] = 0 => Stands(p)'
    BY <1>1, FaultCounted DEF Stands
  <1> QED
    BY <1>1, <1>2, <1>4, <1>5, <1>6, CalmKept DEF Places

-----------------------------------------------------------------------------
\* Whoever takes the default network away finds no run relying on it.
LEMMA Alone ==
    ASSUME TypeOK, CommandsInOrder, Good(Default), DefaultStands, count["fault"] = 0,
           NEW p \in Procs, net[p] = Default, pc[p] \in Rolling \cup {"forget"},
           NEW q \in Procs, q # p, net[q] = Default
    PROVE  pc[q] \notin {"adoptlink", "setup", "rule", "addrule"}
  <1>1. SUFFICES ASSUME pc[q] \in {"adoptlink", "setup", "rule", "addrule"} PROVE FALSE
    OBVIOUS
  <1>2. db[Default] # NoRecord /\ after[p] # "unconfigured" /\ q \in Busy
    BY <1>1 DEF DefaultStands, Stands, Busy, Resting
  <1>3. \A r \in Procs : net[r] = Default /\ r # q /\ r \in Busy => cmd[r] # "rm"
    BY <1>2 DEF Good, Exclusive
  <1>4. p \in Busy
    BY DEF Busy, Resting, Rolling
  <1>5. after[p] = "unrecorded" /\ pc[p] \in Rolling
    BY <1>2, <1>3, <1>4 DEF CommandsInOrder, InOrder, TypeOK
  <1>6. HoldsLink(p) /\ ~HoldsRecord(p)
    BY <1>5 DEF HoldsLink, HoldsRecord, Rolling
  <1>7. PICK r \in Procs : net[r] = Default /\ pc[r] = "forget"
    BY <1>2, <1>6 DEF Good, Held, Leaving
  <1>8. after[r] # "unconfigured" /\ after[r] # "unrecorded" /\ r \in Busy /\ r # q
    BY <1>1, <1>7 DEF DefaultStands, Stands, CommandsInOrder, InOrder, Busy, Resting
  <1> QED
    BY <1>3, <1>7, <1>8 DEF CommandsInOrder, InOrder, TypeOK

\* What runs rely on stays, if the step keeps it.
LEMMA DefaultKept ==
    ASSUME TypeOK, NEW p \in Procs, NEW to \in Places, Local(p, to), net[p] = Default,
           DefaultStands,
           count'["fault"] = 0 =>
               /\ Stands(p)'
               /\ \A q \in Procs : q # p /\ net[q] = Default =>
                     /\ /\ pc[q] \in {"adoptlink", "setup", "rule", "addrule"}
                        /\ db[Default] # NoRecord
                        => db'[Default] = db[Default]
                     /\ pc[q] \in {"setup", "rule", "addrule"} /\ Owned(Default) => Owned(Default)'
                     /\ pc[q] \in {"rule", "addrule"} /\ Owned(Default) /\ link[Default].up
                        => link'[Default].up
    PROVE  DefaultStands'
  <1>1. SUFFICES ASSUME count'["fault"] = 0, NEW q \in Procs, net'[q] = Default PROVE Stands(q)'
    BY DEF DefaultStands
  <1>2. CASE q = p
    BY <1>1, <1>2
  <1>3. CASE q # p
    <2>1. Stands(q) /\ net[q] = Default /\ pc'[q] = pc[q] /\ after'[q] = after[q]
      BY <1>1, <1>3, Others DEF DefaultStands, Local
    <2> QED
      BY <1>1, <1>3, <2>1 DEF Stands
  <1> QED
    BY <1>2, <1>3

\* A command changes the interface it is responsible for, or sets one up.
LEMMA LinkKept ==
    ASSUME TypeOK, NEW p \in Procs, NEW to \in Places, Local(p, to), Good(net[p]),
           db'[net[p]] = db[net[p]], link[net[p]] # NoLink, link'[net[p]] # NoLink,
           link'[net[p]].index = link[net[p]].index,
           HoldsLink(p)' <=> HoldsLink(p), HoldsRecord(p)' <=> HoldsRecord(p),
           pc'[p] = "forget" <=> pc[p] = "forget",
           \/ HoldsLink(p)
           \/ /\ link'[net[p]].owned = link[net[p]].owned
              /\ link'[net[p]].addrs = link[net[p]].addrs
              /\ link'[net[p]].up,
           Held(net[p], p)'
    PROVE  Good(net[p])'
  <1> DEFINE n == net[p]
  <1>0. n \in Nets /\ n' = n
    BY Others DEF TypeOK
  <1>1. Exclusive(n)'
    BY <1>0, ExclusiveKept DEF Good
  <1>2. Settled(n)'
    BY <1>0, Others DEF Good, Settled, Owned
  <1>3. (Leaving(n)' <=> Leaving(n)) /\ (CaredFor(n)' <=> CaredFor(n))
    BY <1>0, Others DEF Leaving, CaredFor
  <1>4. ASSUME NEW q \in Procs, q # p, net[q] = n PROVE Held(n, q)'
    <2>1. Held(n, q) /\ (HoldsLink(p) => ~HoldsLink(q))
      BY <1>4 DEF Good, Exclusive
    <2>2. ~HoldsLink(q) => pc[q] \notin Making \cup Rolling \cup Named
      BY DEF HoldsLink, Making, Rolling, Named
    <2>3. CASE ~HoldsLink(q)
      BY <1>0, <1>3, <1>4, <2>1, <2>2, <2>3, Others DEF Held, Making
    <2>4. CASE HoldsLink(q)
      BY <1>0, <1>3, <1>4, <2>1, <2>4, Others DEF Held
    <2> QED
      BY <2>3, <2>4
  <1> QED
    BY <1>0, <1>1, <1>2, <1>4, Others DEF Good

\* create_default_bridge sets the bridge up.
LEMMA SetUpAccounted ==
    ASSUME TypeOK, CommandsInOrder, NEW p \in Procs, SetLink(p, "setup", "rule", "up", TRUE),
           Accounted(net[p])
    PROVE  Accounted(net[p])'
  <1> DEFINE n == net[p]
  <1>1. /\ Local(p, "rule") /\ pc[p] = "setup" /\ pc'[p] = "rule" /\ idx' = idx /\ after' = after
        /\ "rule" \in Places
    BY SetLinkLocal DEF Places, Resting
  <1>2. /\ link[n] # NoLink /\ link' = [link EXCEPT ![n] = [link[n] EXCEPT !["up"] = TRUE]]
        /\ db' = db /\ scars' = scars /\ net' = net /\ n \in Nets
    BY DEF SetLink, frame, TypeOK
  <1>3. link[n] \in Links
    BY <1>2 DEF TypeOK
  <1>4. /\ link'[n] # NoLink /\ link'[n].index = link[n].index /\ link'[n].owned = link[n].owned
        /\ link'[n].addrs = link[n].addrs /\ link'[n].up
    <2>1. link'[n] = [link[n] EXCEPT !["up"] = TRUE]
      BY <1>2 DEF TypeOK
    <2>2. link'[n] \in Links
      BY <2>1, <1>3, SetLinkTyped
    <2> QED
      BY <1>3, <2>1, <2>2, NoLinkAssumption DEF Links
  <1>5. SUFFICES ASSUME scars[n] = {} PROVE Good(n)' /\ (n = Default => DefaultStands')
    BY <1>2 DEF Accounted
  <1>6. Good(n) /\ (n = Default => DefaultStands)
    BY <1>5 DEF Accounted
  <1>7. /\ ~HoldsLink(p) /\ ~HoldsLink(p)' /\ ~HoldsRecord(p) /\ ~HoldsRecord(p)'
        /\ Held(n, p)'
    BY <1>1, <1>2 DEF HoldsLink, HoldsRecord, Making, Rolling, Held, Named
  <1>8. Good(n)'
    BY <1>1, <1>2, <1>4, <1>6, <1>7, LinkKept
  <1>9. ASSUME n = Default PROVE DefaultStands'
    <2>1. count'["fault"] = 0 => Stands(p)'
      BY <1>1, <1>2, <1>4, <1>6, <1>9 DEF DefaultStands, Stands, Local, Owned, Rolling
    <2> QED
      BY <1>1, <1>2, <1>4, <1>6, <1>9, <2>1, DefaultKept DEF Owned
  <1> QED
    BY <1>8, <1>9

\* The creator marks the bridge as its own.
LEMMA SetAliasAccounted ==
    ASSUME TypeOK, CommandsInOrder, NEW p \in Procs, SetLink(p, "alias", "record", "owned", TRUE),
           Accounted(net[p])
    PROVE  Accounted(net[p])'
  <1> DEFINE n == net[p]
  <1>1. /\ Local(p, "record") /\ pc[p] = "alias" /\ pc'[p] = "record" /\ idx' = idx
        /\ after' = after /\ "record" \in Places
    BY SetLinkLocal DEF Places, Resting
  <1>2. /\ link[n] # NoLink /\ link' = [link EXCEPT ![n] = [link[n] EXCEPT !["owned"] = TRUE]]
        /\ db' = db /\ scars' = scars /\ net' = net /\ n \in Nets
    BY DEF SetLink, frame, TypeOK
  <1>3. link[n] \in Links
    BY <1>2 DEF TypeOK
  <1>4. /\ link'[n] # NoLink /\ link'[n].index = link[n].index /\ link'[n].owned
        /\ link'[n].addrs = link[n].addrs /\ link'[n].up = link[n].up
    <2>1. link'[n] = [link[n] EXCEPT !["owned"] = TRUE]
      BY <1>2 DEF TypeOK
    <2>2. link'[n] \in Links
      BY <2>1, <1>3, SetLinkTyped
    <2> QED
      BY <1>3, <2>1, <2>2, NoLinkAssumption DEF Links
  <1>5. SUFFICES ASSUME scars[n] = {} PROVE Good(n)' /\ (n = Default => DefaultStands')
    BY <1>2 DEF Accounted
  <1>6. Good(n) /\ Held(n, p) /\ (n = Default => DefaultStands)
    BY <1>5, Finds
  <1>7. HoldsLink(p) /\ HoldsLink(p)' /\ ~HoldsRecord(p) /\ ~HoldsRecord(p)'
    BY <1>1 DEF HoldsLink, HoldsRecord, Making, Rolling
  <1>8. Leaving(n) => Leaving(n)'
    BY <1>1, <1>2, Others DEF Leaving
  <1>9. Held(n, p)'
    BY <1>1, <1>2, <1>4, <1>6, <1>7, <1>8 DEF Held, Named
  <1>10. Good(n)'
    BY <1>1, <1>2, <1>4, <1>6, <1>7, <1>9, LinkKept
  <1>11. ASSUME n = Default PROVE DefaultStands'
    <2>1. Stands(p)'
      BY <1>1 DEF Stands, Rolling
    <2> QED
      BY <1>1, <1>2, <1>4, <1>6, <1>11, <2>1, DefaultKept DEF Owned
  <1> QED
    BY <1>10, <1>11

\* The creator gives the bridge its address.
LEMMA SetAddressAccounted ==
    ASSUME TypeOK, CommandsInOrder, NEW p \in Procs, link[net[p]] # NoLink, Accounted(net[p]),
           SetLink(p, "address", "up", "addrs", link[net[p]].addrs \cup {want[p]})
    PROVE  Accounted(net[p])'
  <1> DEFINE n == net[p]
             all == link[n].addrs \cup {want[p]}
  <1>0. n \in Nets /\ link[n] \in Links
    BY DEF TypeOK
  <1>3. all \in SUBSET Cidrs
    BY <1>0 DEF TypeOK, Links
  <1>1. /\ Local(p, "up") /\ pc[p] = "address" /\ pc'[p] = "up" /\ idx' = idx
        /\ after' = after /\ "up" \in Places
    BY <1>3, SetLinkLocal DEF Places, Resting
  <1>2. /\ link' = [link EXCEPT ![n] = [link[n] EXCEPT !["addrs"] = all]]
        /\ db' = db /\ scars' = scars /\ net' = net /\ want' = want
    BY DEF SetLink, frame
  <1>4. /\ link'[n] # NoLink /\ link'[n].index = link[n].index /\ link'[n].owned = link[n].owned
        /\ link'[n].addrs = all /\ link'[n].up = link[n].up
    <2>1. link'[n] = [link[n] EXCEPT !["addrs"] = all]
      BY <1>0, <1>2 DEF TypeOK
    <2>2. link'[n] \in Links
      BY <1>0, <1>3, <2>1, SetLinkTyped
    <2> QED
      BY <1>0, <2>1, <2>2, NoLinkAssumption DEF Links
  <1>5. SUFFICES ASSUME scars[n] = {} PROVE Good(n)' /\ (n = Default => DefaultStands')
    BY <1>2 DEF Accounted
  <1>6. Good(n) /\ Held(n, p) /\ (n = Default => DefaultStands)
    BY <1>5, Finds
  <1>7. HoldsLink(p) /\ HoldsLink(p)' /\ HoldsRecord(p) /\ HoldsRecord(p)'
    BY <1>1 DEF HoldsLink, HoldsRecord, Making, Rolling
  <1>8. all = {want[p]}
    BY <1>1, <1>6 DEF Held
  <1>9. Held(n, p)'
    BY <1>1, <1>2, <1>4, <1>6, <1>7, <1>8 DEF Held, Named
  <1>10. Good(n)'
    BY <1>0, <1>1, <1>2, <1>4, <1>6, <1>7, <1>9, LinkKept
  <1>11. ASSUME n = Default PROVE DefaultStands'
    <2>1. Stands(p)'
      BY <1>1 DEF Stands, Rolling
    <2> QED
      BY <1>1, <1>2, <1>4, <1>6, <1>11, <2>1, DefaultKept DEF Owned
  <1> QED
    BY <1>10, <1>11

\* delete_owned_bridge sets the bridge down.
LEMMA SetDownAccounted ==
    ASSUME TypeOK, CommandsInOrder, NEW p \in Procs, SetLink(p, "down", "recheck", "up", FALSE),
           Accounted(net[p])
    PROVE  Accounted(net[p])'
  <1> DEFINE n == net[p]
  <1>1. /\ Local(p, "recheck") /\ pc[p] = "down" /\ pc'[p] = "recheck" /\ idx' = idx
        /\ after' = after /\ "recheck" \in Places
    BY SetLinkLocal DEF Places, Resting
  <1>2. /\ link[n] # NoLink /\ link' = [link EXCEPT ![n] = [link[n] EXCEPT !["up"] = FALSE]]
        /\ db' = db /\ scars' = scars /\ net' = net /\ n \in Nets
    BY DEF SetLink, frame, TypeOK
  <1>3. link[n] \in Links
    BY <1>2 DEF TypeOK
  <1>4. /\ link'[n] # NoLink /\ link'[n].index = link[n].index /\ link'[n].owned = link[n].owned
        /\ link'[n].addrs = link[n].addrs
    <2>1. link'[n] = [link[n] EXCEPT !["up"] = FALSE]
      BY <1>2 DEF TypeOK
    <2>2. link'[n] \in Links
      BY <2>1, <1>3, SetLinkTyped
    <2> QED
      BY <1>3, <2>1, <2>2, NoLinkAssumption DEF Links
  <1>5. SUFFICES ASSUME scars[n] = {} PROVE Good(n)' /\ (n = Default => DefaultStands')
    BY <1>2 DEF Accounted
  <1>6. Good(n) /\ Held(n, p) /\ (n = Default => DefaultStands)
    BY <1>5, Finds
  <1>7. HoldsLink(p) /\ HoldsLink(p)' /\ (HoldsRecord(p)' <=> HoldsRecord(p))
    BY <1>1 DEF HoldsLink, HoldsRecord, Making, Rolling
  <1>8. Leaving(n) => Leaving(n)'
    BY <1>1, <1>2, Others DEF Leaving
  <1>9. Held(n, p)'
    BY <1>1, <1>2, <1>4, <1>6, <1>7, <1>8 DEF Held, Named, Rolling
  <1>10. Good(n)'
    BY <1>1, <1>2, <1>4, <1>6, <1>7, <1>9, LinkKept
  <1>11. ASSUME n = Default PROVE DefaultStands'
    <2>1. count'["fault"] = 0 => count["fault"] = 0 /\ Stands(p)'
      BY <1>1, <1>2, <1>6, <1>11 DEF DefaultStands, Stands, Local, Rolling
    <2>2. ASSUME count'["fault"] = 0, NEW q \in Procs, q # p, net[q] = Default
          PROVE  pc[q] \notin {"rule", "addrule"}
      BY <1>1, <1>6, <1>11, <2>1, <2>2, Alone DEF Rolling
    <2> QED
      BY <1>1, <1>2, <1>4, <1>6, <1>11, <2>1, <2>2, DefaultKept DEF Owned
  <1> QED
    BY <1>10, <1>11

-----------------------------------------------------------------------------
\* The creator finishes: what it was responsible for is whole.
LEMMA BringUpAccounted ==
    ASSUME TypeOK, CommandsInOrder, NEW p \in Procs, Accounted(net[p]), NEW to \in {"setup", "ok"},
           to = "setup" => cmd[p] = "run", SetLink(p, "up", to, "up", TRUE)
    PROVE  Accounted(net[p])'
  <1> DEFINE n == net[p]
  <1>1. /\ Local(p, to) /\ pc[p] = "up" /\ pc'[p] = to /\ idx' = idx /\ after' = after
        /\ to \in Places
    BY SetLinkLocal DEF Places, Resting
  <1>2. /\ link[n] # NoLink /\ link' = [link EXCEPT ![n] = [link[n] EXCEPT !["up"] = TRUE]]
        /\ db' = db /\ scars' = scars /\ net' = net /\ n \in Nets
    BY DEF SetLink, frame, TypeOK
  <1>3. link[n] \in Links
    BY <1>2 DEF TypeOK
  <1>4. /\ link'[n] # NoLink /\ link'[n].index = link[n].index /\ link'[n].owned = link[n].owned
        /\ link'[n].addrs = link[n].addrs /\ link'[n].up
    <2>1. link'[n] = [link[n] EXCEPT !["up"] = TRUE]
      BY <1>2 DEF TypeOK
    <2>2. link'[n] \in Links
      BY <2>1, <1>3, SetLinkTyped
    <2> QED
      BY <1>3, <2>1, <2>2, NoLinkAssumption DEF Links
  <1>5. SUFFICES ASSUME scars[n] = {} PROVE Good(n)' /\ (n = Default => DefaultStands')
    BY <1>2 DEF Accounted
  <1>6. Good(n) /\ Held(n, p) /\ (n = Default => DefaultStands)
    BY <1>5, Finds
  <1>7. HoldsLink(p) /\ ~HoldsLink(p)' /\ HoldsRecord(p) /\ ~HoldsRecord(p)'
    BY <1>1 DEF HoldsLink, HoldsRecord, Making, Rolling
  <1>8. /\ db[n] # NoRecord /\ db[n].cidr = want[p] /\ link[n].owned /\ link[n].addrs = {want[p]}
    BY <1>1, <1>6, <1>7 DEF Held
  <1>9. Exclusive(n)'
    BY <1>1, <1>2, <1>6, <1>7, ExclusiveKept DEF Good
  <1>10. Settled(n)'
    BY <1>2, <1>4, <1>8 DEF Settled, Owned
  <1>11. ASSUME NEW q \in Procs, net[q] = n PROVE Held(n, q)'
    <2>1. CASE q = p
      BY <1>1, <1>7, <2>1 DEF Held, Named, Rolling
    <2>2. CASE q # p
      <3>1. ~HoldsLink(q) /\ ~HoldsRecord(q) /\ InOrder(q)
        BY <1>2, <1>6, <1>7, <1>11, <2>2 DEF Good, Exclusive, CommandsInOrder
      <3>2. pc[q] \notin Charged \cup Named
        BY <3>1 DEF HoldsLink, HoldsRecord, Charged, Making, Rolling, Named, InOrder
      <3>3. pc'[q] = pc[q] /\ ~HoldsLink(q)' /\ ~HoldsRecord(q)'
        BY <1>1, <2>2, <3>1, Others
      <3> QED
        BY <3>2, <3>3 DEF Held, Charged, Making, Rolling
    <2> QED
      BY <2>1, <2>2
  <1>12. ASSUME n = Default PROVE DefaultStands'
    <2>1. to = "setup" => want[p] = DefaultCidr
      BY <1>1 DEF CommandsInOrder, InOrder, Busy, Resting
    <2>2. Stands(p)'
      BY <1>1, <1>2, <1>4, <1>8, <1>12, <2>1 DEF Stands, Owned, Rolling
    <2> QED
      BY <1>1, <1>2, <1>4, <1>6, <1>12, <2>2, DefaultKept DEF Owned
  <1> QED
    BY <1>2, <1>9, <1>10, <1>11, <1>12 DEF Good

\* The creator makes the bridge.
LEMMA AddBridgeAccounted ==
    ASSUME TypeOK, CommandsInOrder, NEW p \in Procs, Accounted(net[p]),
           At(p, "addbr", "index"), link[net[p]] = NoLink, made < MaxLinks,
           link' = [link EXCEPT ![net[p]] = NewLink(FALSE)], made' = made + 1,
           UNCHANGED <<db, masq, frame, scars, count>>
    PROVE  Accounted(net[p])'
  <1> DEFINE n == net[p]
  <1>1. Local(p, "index") /\ pc[p] = "addbr" /\ pc'[p] = "index" /\ "index" \in Places
    BY DEF TypeOK, At, Local, frame, Busy, Places, Resting
  <1>2. db' = db /\ scars' = scars /\ net' = net /\ n \in Nets /\ count' = count
    BY DEF frame, TypeOK
  <1>3. link'[n] = NewLink(FALSE) /\ link'[n] # NoLink
    <2>1. link'[n] = NewLink(FALSE) /\ NewLink(FALSE) \in Links
      BY <1>2, NewLinkTyped DEF TypeOK
    <2> QED
      BY <2>1, NoLinkAssumption
  <1>4. ~link'[n].owned /\ link'[n].addrs = {}
    BY <1>3 DEF NewLink
  <1>5. SUFFICES ASSUME scars[n] = {} PROVE Good(n)' /\ (n = Default => DefaultStands')
    BY <1>2 DEF Accounted
  <1>6. Good(n) /\ (n = Default => DefaultStands)
    BY <1>5, Finds
  <1>7. ~HoldsLink(p) /\ HoldsLink(p)' /\ ~HoldsRecord(p) /\ ~HoldsRecord(p)'
    BY <1>1 DEF HoldsLink, HoldsRecord, Making, Rolling
  <1>8. \A q \in Procs : net[q] = n => ~HoldsLink(q)
    BY <1>6 DEF Good, Held
  <1>9. Exclusive(n)'
    BY <1>1, <1>2, <1>6, <1>7, <1>8, ExclusiveKept DEF Good
  <1>10. Settled(n)'
    BY <1>2, <1>7 DEF Settled
  <1>11. db[n] # NoRecord => Leaving(n)'
    <2>1. SUFFICES ASSUME db[n] # NoRecord PROVE Leaving(n)'
      OBVIOUS
    <2>2. PICK q \in Procs : net[q] = n /\ HoldsRecord(q)
      BY <1>6, <1>8, <2>1 DEF Good, Settled, Owned
    <2>3. pc[q] = "forget" /\ q # p
      BY <1>1, <1>8, <2>2 DEF HoldsRecord, HoldsLink, Making
    <2> QED
      BY <1>1, <1>2, <2>2, <2>3, Others DEF Leaving
  <1>12. CaredFor(n)'
    BY <1>2, <1>7 DEF CaredFor
  <1>13. ASSUME NEW q \in Procs, net[q] = n PROVE Held(n, q)'
    <2>1. CASE q = p
      BY <1>1, <1>2, <1>3, <1>4, <1>7, <1>11, <2>1 DEF Held, Named, Rolling
    <2>2. CASE q # p
      <3>1. ~HoldsLink(q) /\ Held(n, q)
        BY <1>6, <1>8, <1>13 DEF Good
      <3>2. pc[q] \notin Making \cup Rolling \cup Named
        BY <3>1 DEF HoldsLink, Making, Rolling, Named
      <3>3. pc'[q] = pc[q] /\ ~HoldsLink(q)' /\ (HoldsRecord(q)' <=> HoldsRecord(q))
        BY <1>1, <2>2, <3>1, Others
      <3> QED
        BY <1>2, <1>12, <3>1, <3>2, <3>3 DEF Held, Making, Rolling
    <2> QED
      BY <2>1, <2>2
  <1>14. ASSUME n = Default PROVE DefaultStands'
    <2>1. Stands(p)'
      BY <1>1 DEF Stands, Rolling
    <2> QED
      BY <1>1, <1>2, <1>6, <1>14, <2>1, DefaultKept DEF Owned
  <1> QED
    BY <1>2, <1>9, <1>10, <1>13, <1>14 DEF Good

\* A responsible command deletes the bridge.
LEMMA DeleteAccounted ==
    ASSUME TypeOK, CommandsInOrder, NEW p \in Procs, Accounted(net[p]),
           NEW from \in {"undo", "delbr"}, NEW to \in {"failed", "forget"}, Delete(p, from, to),
           to = "forget" <=> from = "delbr" /\ after[p] # "unrecorded"
    PROVE  Accounted(net[p])'
  <1> DEFINE n == net[p]
  <1>1. /\ Local(p, to) /\ pc[p] = from /\ pc'[p] = to /\ to \in Places /\ after' = after
    BY DEF TypeOK, Delete, At, Local, frame, bounds, Busy, Places, Resting
  <1>2. /\ db' = db /\ scars' = scars /\ net' = net /\ n \in Nets /\ count' = count
        /\ link'[n] = NoLink
    BY DEF Delete, frame, bounds, TypeOK
  <1>5. SUFFICES ASSUME scars[n] = {} PROVE Good(n)' /\ (n = Default => DefaultStands')
    BY <1>2 DEF Accounted
  <1>6. Good(n) /\ Held(n, p) /\ (n = Default => DefaultStands)
    BY <1>5, Finds
  <1>7. /\ HoldsLink(p) /\ ~HoldsLink(p)' /\ (HoldsRecord(p)' <=> HoldsRecord(p))
        /\ HoldsRecord(p) <=> to = "forget"
    BY <1>1 DEF HoldsLink, HoldsRecord, Making, Rolling
  <1>8. \A q \in Procs : q # p /\ net[q] = n => ~HoldsLink(q)
    BY <1>2, <1>6, <1>7 DEF Good, Exclusive
  <1>9. Exclusive(n)'
    BY <1>1, <1>2, <1>6, <1>7, ExclusiveKept DEF Good
  <1>10. Settled(n)'
    <2>1. SUFFICES ASSUME db[n] # NoRecord, \A q \in Procs : net[q] = n => ~HoldsRecord(q)'
                   PROVE  FALSE
      BY <1>2 DEF Settled, Owned
    <2>2. ~HoldsRecord(p)
      BY <1>7, <2>1
    <2>3. PICK q \in Procs : net[q] = n /\ pc[q] = "forget"
      BY <1>6, <1>7, <2>1, <2>2 DEF Held, Leaving
    <2>4. q # p /\ HoldsRecord(q)
      BY <1>1, <2>3 DEF HoldsRecord, CommandsInOrder, InOrder
    <2> QED
      BY <1>1, <2>1, <2>3, <2>4, Others
  <1>12. CaredFor(n)'
    BY <1>2 DEF CaredFor
  <1>13. ASSUME NEW q \in Procs, net[q] = n PROVE Held(n, q)'
    <2>1. CASE q = p
      BY <1>1, <1>2, <1>6, <1>7, <1>12, <2>1 DEF Held, Named, Rolling
    <2>2. CASE q # p
      <3>1. ~HoldsLink(q) /\ Held(n, q)
        BY <1>6, <1>8, <1>13, <2>2 DEF Good
      <3>2. pc[q] \notin Making \cup Rolling \cup Named
        BY <3>1 DEF HoldsLink, Making, Rolling, Named
      <3>3. pc'[q] = pc[q] /\ ~HoldsLink(q)' /\ (HoldsRecord(q)' <=> HoldsRecord(q))
        BY <1>1, <2>2, <3>1, Others
      <3> QED
        BY <1>2, <1>12, <3>1, <3>2, <3>3 DEF Held, Making, Rolling
    <2> QED
      BY <2>1, <2>2
  <1>14. ASSUME n = Default PROVE DefaultStands'
    <2>1. count'["fault"] = 0 => Stands(p)'
      BY <1>1, <1>2, <1>6, <1>14 DEF DefaultStands, Stands, Rolling
    <2>2. ASSUME count'["fault"] = 0, NEW q \in Procs, q # p, net[q] = Default,
                 pc[q] \in {"setup", "rule", "addrule"}
          PROVE  ~Owned(Default)
      <3>1. CASE from = "undo"
        BY <1>1, <1>6, <1>14, <3>1 DEF Held, Owned
      <3>2. CASE from = "delbr"
        BY <1>1, <1>2, <1>6, <1>14, <2>2, <3>2, Alone DEF Rolling
      <3> QED
        BY <3>1, <3>2
    <2> QED
      BY <1>1, <1>2, <1>6, <1>14, <2>1, <2>2, DefaultKept
  <1> QED
    BY <1>2, <1>9, <1>10, <1>13, <1>14 DEF Good

\* The creator records the network.
LEMMA AddRecordAccounted ==
    ASSUME TypeOK, CommandsInOrder, NEW p \in Procs, Accounted(net[p]),
           At(p, "record", "address"), CanAdd(db, net[p]),
           db' = WithAdded(db, net[p], want[p]), UNCHANGED <<link, masq, frame, scars, bounds>>
    PROVE  Accounted(net[p])'
  <1> DEFINE n == net[p]
  <1>1. Local(p, "address") /\ pc[p] = "record" /\ pc'[p] = "address" /\ "address" \in Places
    BY DEF TypeOK, At, Local, frame, bounds, Busy, Places, Resting, WithAdded, Databases
  <1>2. /\ link' = link /\ scars' = scars /\ net' = net /\ n \in Nets /\ count' = count
        /\ want' = want
    BY DEF frame, bounds, TypeOK
  <1>3. db[n] = NoRecord /\ db'[n] # NoRecord /\ db'[n].cidr = want[p]
    <2>1. db[n] = NoRecord /\ db'[n] = [cidr |-> want[p], used |-> {}]
      BY <1>2 DEF CanAdd, WithAdded, TypeOK, Databases
    <2>2. [cidr |-> want[p], used |-> {}] \in Record
      BY DEF Record, TypeOK
    <2> QED
      BY <2>1, <2>2, NoRecordAssumption
  <1>5. SUFFICES ASSUME scars[n] = {} PROVE Good(n)' /\ (n = Default => DefaultStands')
    BY <1>2 DEF Accounted
  <1>6. Good(n) /\ Held(n, p) /\ (n = Default => DefaultStands)
    BY <1>5, Finds
  <1>7. HoldsLink(p) /\ HoldsLink(p)' /\ ~HoldsRecord(p) /\ HoldsRecord(p)'
    BY <1>1 DEF HoldsLink, HoldsRecord, Making, Rolling
  <1>8. \A q \in Procs : q # p /\ net[q] = n => ~HoldsLink(q) /\ ~HoldsRecord(q)
    BY <1>2, <1>3, <1>6, <1>7 DEF Good, Exclusive, Held
  <1>9. Exclusive(n)'
    BY <1>1, <1>2, <1>6, <1>7, <1>8, ExclusiveKept DEF Good
  <1>10. Settled(n)'
    BY <1>2, <1>7 DEF Settled
  <1>11. ASSUME NEW q \in Procs, net[q] = n PROVE Held(n, q)'
    <2>1. CASE q = p
      BY <1>1, <1>2, <1>3, <1>6, <1>7, <2>1 DEF Held, Named, Rolling
    <2>2. CASE q # p
      <3>1. ~HoldsLink(q) /\ ~HoldsRecord(q) /\ InOrder(q)
        BY <1>8, <1>11, <2>2 DEF CommandsInOrder
      <3>2. pc[q] \notin Charged \cup Named
        BY <3>1 DEF HoldsLink, HoldsRecord, Charged, Making, Rolling, Named, InOrder
      <3>3. pc'[q] = pc[q] /\ ~HoldsLink(q)' /\ ~HoldsRecord(q)'
        BY <1>1, <2>2, <3>1, Others
      <3> QED
        BY <3>2, <3>3 DEF Held, Charged, Making, Rolling
    <2> QED
      BY <2>1, <2>2
  <1>12. ASSUME n = Default PROVE DefaultStands'
    <2>1. Stands(p)'
      BY <1>1 DEF Stands, Rolling
    <2> QED
      BY <1>1, <1>2, <1>3, <1>6, <1>12, <2>1, DefaultKept DEF Owned
  <1> QED
    BY <1>2, <1>9, <1>10, <1>11, <1>12 DEF Good

\* An rm takes charge of a network that is whole, and of nobody else's.
LEMMA TrackedAccounted ==
    ASSUME TypeOK, CommandsInOrder, NEW p \in Procs, Accounted(net[p]),
           db[net[p]] # NoRecord, Unowned(p, "tracked", "rm"),
           UNCHANGED <<db, link, masq, cmd, net, want, idx, blind, scars, bounds>>
    PROVE  Accounted(net[p])'
  <1> DEFINE n == net[p]
  <1>1. /\ Local(p, "own") /\ pc[p] = "tracked" /\ pc'[p] = "own" /\ after'[p] = "rm"
        /\ "own" \in Places
    BY DEF TypeOK, Unowned, At, Local, bounds, Busy, Places, Resting
  <1>2. n \in Nets
    BY DEF TypeOK
  <1>5. SUFFICES ASSUME scars[n] = {} PROVE Good(n)' /\ (n = Default => DefaultStands')
    BY DEF Accounted
  <1>6. Good(n) /\ (n = Default => DefaultStands)
    BY <1>5, Finds
  <1>7. ~HoldsLink(p) /\ HoldsLink(p)' /\ ~HoldsRecord(p) /\ HoldsRecord(p)'
    BY <1>1 DEF HoldsLink, HoldsRecord, Making, Rolling
  <1>8. \A q \in Procs : q # p /\ net[q] = n => pc[q] \in Resting
    <2>1. cmd[p] = "rm" /\ p \in Busy
      BY <1>1 DEF CommandsInOrder, InOrder, Busy, Resting
    <2> QED
      BY <1>2, <1>6, <2>1 DEF Good, Exclusive, Busy
  <1>9. \A q \in Procs : net[q] = n => ~HoldsLink(q) /\ ~HoldsRecord(q)
    BY <1>7, <1>8 DEF HoldsLink, HoldsRecord, Resting, Making, Rolling
  <1>10. Owned(n)
    BY <1>6, <1>9 DEF Good, Settled
  <1>11. Exclusive(n)'
    BY <1>1, <1>2, <1>6, <1>7, <1>9, ExclusiveKept DEF Good
  <1>12. Settled(n)'
    BY <1>7 DEF Settled
  <1>13. ASSUME NEW q \in Procs, net[q] = n PROVE Held(n, q)'
    <2>1. CASE q = p
      BY <1>1, <1>7, <1>10, <2>1 DEF Held, Named, Rolling, Owned
    <2>2. CASE q # p
      <3>1. pc'[q] \in Resting /\ ~HoldsLink(q)' /\ ~HoldsRecord(q)'
        BY <1>1, <1>8, <1>9, <1>13, <2>2, Others
      <3> QED
        BY <3>1 DEF Held, Resting, Rolling, Named
    <2> QED
      BY <2>1, <2>2
  <1>14. ASSUME n = Default PROVE DefaultStands'
    <2>1. Stands(p)'
      BY <1>1 DEF Stands, Rolling
    <2> QED
      BY <1>1, <1>6, <1>14, <2>1, DefaultKept DEF Owned
  <1> QED
    BY <1>11, <1>12, <1>13, <1>14 DEF Good

\* The record of a deleted bridge goes.
LEMMA ForgetAccounted ==
    ASSUME TypeOK, CommandsInOrder, NEW p \in Procs, Accounted(net[p]), NEW to \in {"ok", "failed"},
           At(p, "forget", to), db' = WithDeleted(db, net[p]),
           UNCHANGED <<link, masq, frame, scars, bounds>>
    PROVE  Accounted(net[p])'
  <1> DEFINE n == net[p]
  <1>1. Local(p, to) /\ pc[p] = "forget" /\ pc'[p] = to /\ to \in Places
    BY DEF TypeOK, At, Local, frame, bounds, Busy, Places, Resting, WithDeleted, Databases
  <1>2. /\ link' = link /\ scars' = scars /\ net' = net /\ n \in Nets /\ count' = count
        /\ db'[n] = NoRecord
    BY DEF frame, bounds, TypeOK, WithDeleted, Databases
  <1>5. SUFFICES ASSUME scars[n] = {} PROVE Good(n)' /\ (n = Default => DefaultStands')
    BY <1>2 DEF Accounted
  <1>6. Good(n) /\ Held(n, p) /\ (n = Default => DefaultStands)
    BY <1>5, Finds
  <1>7. ~HoldsLink(p) /\ ~HoldsLink(p)' /\ HoldsRecord(p) /\ ~HoldsRecord(p)'
    BY <1>1 DEF HoldsLink, HoldsRecord, Making, Rolling, CommandsInOrder, InOrder
  <1>8. \A q \in Procs : q # p /\ net[q] = n => ~HoldsRecord(q) /\ pc[q] # "forget"
    BY <1>2, <1>6, <1>7 DEF Good, Exclusive, HoldsRecord, CommandsInOrder, InOrder
  <1>9. Exclusive(n)'
    BY <1>1, <1>2, <1>6, <1>7, ExclusiveKept DEF Good
  <1>10. Settled(n)'
    <2>1. link[n] = NoLink \/ \E q \in Procs : net[q] = n /\ HoldsLink(q)
      BY <1>1, <1>6 DEF Held, CaredFor
    <2> QED
      BY <1>1, <1>2, <1>7, <2>1, Others DEF Settled, Owned
  <1>11. ASSUME NEW q \in Procs, net[q] = n PROVE Held(n, q)'
    <2>1. CASE q = p
      BY <1>1, <1>7, <2>1 DEF Held, Named, Rolling
    <2>2. CASE q # p
      <3>1. /\ pc'[q] = pc[q] /\ (HoldsLink(q)' <=> HoldsLink(q)) /\ ~HoldsRecord(q)'
            /\ pc[q] # "forget" /\ pc[q] \notin {"address", "up"} /\ idx'[q] = idx[q]
        BY <1>1, <1>8, <1>11, <2>2, Others DEF HoldsRecord
      <3>2. Held(n, q)
        BY <1>6, <1>11 DEF Good
      <3> QED
        BY <1>2, <3>1, <3>2 DEF Held
    <2> QED
      BY <2>1, <2>2
  <1>12. ASSUME n = Default PROVE DefaultStands'
    <2>1. Stands(p)'
      BY <1>1 DEF Stands, Rolling
    <2>2. ASSUME count'["fault"] = 0, NEW q \in Procs, q # p, net[q] = Default
          PROVE  pc[q] \notin {"adoptlink", "setup", "rule", "addrule"}
      BY <1>1, <1>2, <1>6, <1>12, <2>2, Alone
    <2> QED
      BY <1>1, <1>2, <1>6, <1>12, <2>1, <2>2, DefaultKept
  <1> QED
    BY <1>2, <1>9, <1>10, <1>11, <1>12 DEF Good

-----------------------------------------------------------------------------
\* brctl delbr, done or not.
LEMMA DeletionAccounted ==
    ASSUME TypeOK, CommandsInOrder, NEW p \in Procs, Accounted(net[p]),
           NEW from \in {"undo", "delbr"}, NEW to \in {"failed", "forget"},
           Delete(p, from, to) \/ NotDeleted(p, from),
           to = "forget" <=> from = "delbr" /\ after[p] # "unrecorded"
    PROVE  Accounted(net[p])'
  <1>1. CASE Delete(p, from, to)
    BY <1>1, DeleteAccounted
  <1>2. CASE NoSuchLink(p, from, "failed")
    BY <1>2, Impossible DEF NoSuchLink, Moves, frame, At, HoldsLink, Making, Rolling
  <1>3. CASE Scar(net[p], "fault") /\ net' = net
    BY <1>3, Excused DEF Scar, TypeOK
  <1> QED
    BY <1>1, <1>2, <1>3 DEF NotDeleted, LeavingFault, frame

\* create_network.
LEMMA CreateAccounted ==
    ASSUME TypeOK, CommandsInOrder, NEW p \in Procs, Create(p), Accounted(net[p])
    PROVE  Accounted(net[p])'
  <1> USE DEF Places, Resting, Charged, Making, Rolling, EnvOnly
  <1>1. CASE CheckRecord(p)
    BY <1>1, BystanderMoves DEF CheckRecord
  <1>2. CASE CheckLink(p)
    BY <1>2, BystanderMoves DEF CheckLink
  <1>3. CASE AddBridge(p)
    <2>1. CASE Moves(p, "addbr", "failed") \/ Fault(p, "addbr", "failed")
      BY <2>1, BystanderMoves
    <2> QED
      BY <1>3, <2>1, AddBridgeAccounted DEF AddBridge
  <1>4. CASE ReadIndex(p)
    BY <1>4, IndexAccounted
  <1>5. CASE SetAlias(p)
    <2>1. CASE NoSuchLink(p, "alias", "check")
      BY <2>1, Impossible DEF NoSuchLink, Moves, frame, At, HoldsLink
    <2>2. CASE Fault(p, "alias", "check")
      BY <2>2, HolderMoves
    <2> QED
      BY <1>5, <2>1, <2>2, SetAliasAccounted DEF SetAlias
  <1>6. CASE CheckCreated(p)
    <2>1. CASE Moves(p, "check", "undo")
      BY <2>1, HolderMoves
    <2>2. CASE Index(net[p]) # idx[p] /\ Moves(p, "check", "failed")
      BY <2>2, Impossible DEF Moves, frame, At, Named
    <2> QED
      BY <1>6, <2>1, <2>2 DEF CheckCreated
  <1>7. CASE UndoBridge(p)
    BY <1>7, DeletionAccounted DEF UndoBridge
  <1>8. CASE AddRecord(p)
    <2>1. CASE /\ At(p, "record", "address") /\ CanAdd(db, net[p])
               /\ db' = WithAdded(db, net[p], want[p])
               /\ UNCHANGED <<link, masq, frame, scars, bounds>>
      BY <2>1, AddRecordAccounted
    <2> QED
      BY <1>8, <2>1, TurnsBack DEF AddRecord
  <1>9. CASE SetAddress(p)
    <2>1. CASE link[net[p]] # NoLink
               /\ SetLink(p, "address", "up", "addrs", link[net[p]].addrs \cup {want[p]})
      BY <2>1, SetAddressAccounted
    <2>2. CASE /\ ~(link[net[p]] # NoLink /\ want[p] \notin link[net[p]].addrs)
               /\ pc[p] = "address" /\ net' = net /\ scars' = scars
      <3>1. CASE scars[net[p]] = {}
        <4>1. HoldsLink(p) /\ Held(net[p], p)
          BY <2>2, <3>1, Finds DEF HoldsLink
        <4> QED
          BY <2>2, <4>1 DEF Held
      <3> QED
        BY <2>2, <3>1, Excused
    <2> QED
      BY <1>9, <2>1, <2>2, TurnsBack DEF SetAddress, Unconfigured, Unowned, At
  <1>10. CASE BringUp(p)
    <2>1. CASE SetLink(p, "up", IF cmd[p] = "run" THEN "setup" ELSE "ok", "up", TRUE)
      BY <2>1, BringUpAccounted
    <2>2. CASE link[net[p]] = NoLink /\ pc[p] = "up" /\ net' = net /\ scars' = scars
      BY <2>2, Impossible DEF HoldsLink
    <2> QED
      BY <1>10, <2>1, <2>2, TurnsBack DEF BringUp, Unconfigured, Unowned, At
  <1> QED
    BY <1>1, <1>2, <1>3, <1>4, <1>5, <1>6, <1>7, <1>8, <1>9, <1>10 DEF Create

\* delte_network and delete_owned_bridge.
LEMMA RemoveAccounted ==
    ASSUME TypeOK, CommandsInOrder, NEW p \in Procs, Remove(p), Accounted(net[p])
    PROVE  Accounted(net[p])'
  <1> USE DEF Places, Resting, Charged, Making, Rolling, EnvOnly
  <1>0. ASSUME NEW from, NEW to, LeavingFault(p, from, to) PROVE Accounted(net[p])'
    <2>1. net' = net /\ scars' = [scars EXCEPT ![net[p]] = @ \cup {"fault"}]
      BY <1>0 DEF LeavingFault, Scar, frame
    <2>2. scars'[net[p]] # {}
      BY <2>1 DEF TypeOK
    <2> QED
      BY <2>1, <2>2, Excused
  <1>1. CASE CheckTracked(p)
    <2>1. CASE Moves(p, "tracked", "failed") \/ Fault(p, "tracked", "failed")
      BY <2>1, BystanderMoves
    <2> QED
      BY <1>1, <2>1, TrackedAccounted DEF CheckTracked
  <1>2. CASE OriginalIndex(p)
    BY <1>2, IndexAccounted
  <1>3. CASE Verify(p)
    <2>1. CASE Moves(p, "verify", "down")
      BY <2>1, HolderMoves
    <2>2. CASE ~Owned(net[p]) /\ Moves(p, "verify", "failed")
      BY <2>2, Impossible DEF Moves, frame, At
    <2> QED
      BY <1>0, <1>3, <2>1, <2>2 DEF Verify
  <1>4. CASE SetDown(p)
    <2>1. CASE NoSuchLink(p, "down", "recheck")
      BY <2>1, Impossible DEF NoSuchLink, Moves, frame, At, HoldsLink
    <2>2. CASE Fault(p, "down", "recheck")
      BY <2>2, HolderMoves
    <2> QED
      BY <1>4, <2>1, <2>2, SetDownAccounted DEF SetDown
  <1>5. CASE Recheck(p)
    <2>1. CASE Moves(p, "recheck", "delbr")
      BY <2>1, HolderMoves
    <2>2. CASE ~(Index(net[p]) = idx[p] /\ Owned(net[p])) /\ Moves(p, "recheck", "failed")
      BY <2>2, Impossible DEF Moves, frame, At, Named
    <2> QED
      BY <1>0, <1>5, <2>1, <2>2 DEF Recheck
  <1>6. CASE DeleteBridge(p)
    BY <1>6, DeletionAccounted DEF DeleteBridge, Deleted
  <1>7. CASE Forget(p)
    <2>1. CASE /\ At(p, "forget", IF after[p] = "rm" THEN "ok" ELSE "failed")
               /\ db' = WithDeleted(db, net[p])
               /\ UNCHANGED <<link, masq, frame, scars, bounds>>
      BY <2>1, ForgetAccounted
    <2> QED
      BY <1>0, <1>7, <2>1 DEF Forget
  <1> QED
    BY <1>1, <1>2, <1>3, <1>4, <1>5, <1>6, <1>7 DEF Remove

\* Every step of a command, and every network.
LEMMA StepAccounted ==
    ASSUME TypeOK, CommandsInOrder, NEW p \in Procs, Step(p), \A n \in Nets : Accounted(n)
    PROVE  \A n \in Nets : Accounted(n)'
  <1>1. Advances(p)
    BY StepAdvances
  <1>2. PICK to \in Places : Local(p, to)
    BY <1>1 DEF Advances
  <1>3. net[p] \in Nets /\ net' = net
    BY <1>2, Others DEF TypeOK
  <1>4. Accounted(net[p])'
    <2>1. CASE Crash(p)
      BY <1>3, <2>1, Excused DEF Crash, Scar, TypeOK
    <2>2. CASE InitEnv(p)
      BY <1>3, <2>2, InitEnvAccounted, SetUpAccounted
    <2> QED
      BY <1>3, <2>1, <2>2, CreateAccounted, RemoveAccounted DEF Step
  <1>5. \A n \in Nets : n # net[p] => Accounted(n)'
    BY <1>2, Elsewhere
  <1> QED
    BY <1>3, <1>4, <1>5

\* A new command is responsible for nothing, and no rm joins or is joined
\* without its network being marked.
LEMMA BeginAccounted ==
    ASSUME TypeOK, CommandsInOrder, NEW p \in Procs, Command(p), \A n \in Nets : Accounted(n)
    PROVE  \A n \in Nets : Accounted(n)'
  <1>1. PICK n \in Nets, c \in Cidrs, k \in {"create", "rm", "run"} : Begin(p, k, n, c)
    BY DEF Command
  <1>2. /\ link' = link /\ db' = db /\ pc[p] \in Resting
        /\ pc'[p] \in {"default", "exists", "tracked"}
        /\ idx' = idx /\ after' = after /\ cmd'[p] = k /\ net'[p] = n
        /\ \A q \in Procs : q # p => /\ pc'[q] = pc[q] /\ net'[q] = net[q] /\ want'[q] = want[q]
                                     /\ cmd'[q] = cmd[q]
    BY <1>1 DEF Begin, TypeOK
  <1>3. count'["fault"] = count["fault"]
    BY <1>1 DEF Begin, Counted, TypeOK, Events
  <1>4. /\ ~HoldsLink(p) /\ ~HoldsLink(p)' /\ ~HoldsRecord(p) /\ ~HoldsRecord(p)'
        /\ pc[p] \notin Charged \cup Named /\ pc'[p] \notin Charged \cup Named
        /\ p \notin Busy
    BY <1>2 DEF HoldsLink, HoldsRecord, Resting, Making, Rolling, Charged, Named, Busy
  <1>5. \A q \in Procs : q # p => /\ HoldsLink(q)' <=> HoldsLink(q)
                                  /\ HoldsRecord(q)' <=> HoldsRecord(q)
                                  /\ q \in Busy' <=> q \in Busy
    BY <1>2 DEF HoldsLink, HoldsRecord, Busy
  <1>6. SUFFICES ASSUME NEW m \in Nets, scars'[m] = {}
                 PROVE  Good(m)' /\ (m = Default => DefaultStands')
    BY DEF Accounted
  <1>7. scars[m] = {}
    BY <1>1, <1>6 DEF Begin, Scar, TypeOK
  <1>8. Good(m) /\ (m = Default => DefaultStands)
    BY <1>7 DEF Accounted
  <1>9. Exclusive(m)'
    <2>1. ASSUME NEW q \in Procs, q # p, net[q] = m, q \in Busy, m = n
          PROVE  k # "rm" /\ cmd[q] # "rm"
      <3>1. q \in AtWork(n)
        BY <2>1 DEF AtWork, Busy
      <3>2. scars'[n] # scars[n] \cup {"race"}
        BY <1>6, <2>1
      <3>3. ~(k = "rm" \/ \E r \in AtWork(n) : cmd[r] = "rm")
        BY <1>1, <3>1, <3>2 DEF Begin, Scar, TypeOK
      <3> QED
        BY <3>1, <3>3
    <2>2. SUFFICES ASSUME NEW q \in Procs, NEW r \in Procs, net'[q] = m, net'[r] = m, q # r
                   PROVE  /\ q \in Busy' /\ r \in Busy' => cmd'[q] # "rm"
                          /\ ~(HoldsLink(q)' /\ HoldsLink(r)')
                          /\ ~(HoldsRecord(q)' /\ HoldsRecord(r)')
      BY DEF Exclusive
    <2>3. CASE q = p
      BY <1>2, <1>4, <1>5, <2>1, <2>2, <2>3
    <2>4. CASE r = p
      BY <1>2, <1>4, <1>5, <2>1, <2>2, <2>4
    <2>5. CASE q # p /\ r # p
      BY <1>2, <1>5, <1>8, <2>2, <2>5 DEF Good, Exclusive
    <2> QED
      BY <2>3, <2>4, <2>5
  <1>10. Settled(m)'
    <2>1. (\A q \in Procs : net'[q] = m => ~HoldsLink(q)') =>
              \A q \in Procs : net[q] = m => ~HoldsLink(q)
      BY <1>2, <1>4, <1>5
    <2>2. (\A q \in Procs : net'[q] = m => ~HoldsRecord(q)') =>
              \A q \in Procs : net[q] = m => ~HoldsRecord(q)
      BY <1>2, <1>4, <1>5
    <2> QED
      BY <1>2, <1>8, <2>1, <2>2 DEF Good, Settled, Owned
  <1>11. (Leaving(m) => Leaving(m)') /\ (CaredFor(m) => CaredFor(m)')
    BY <1>2, <1>4, <1>5 DEF Leaving, CaredFor, Charged
  <1>12. ASSUME NEW q \in Procs, net'[q] = m PROVE Held(m, q)'
    <2>1. CASE q = p
      BY <1>4, <2>1 DEF Held, Charged, Making, Rolling
    <2>2. CASE q # p
      <3>1. Held(m, q)
        BY <1>2, <1>8, <1>12, <2>2 DEF Good
      <3> QED
        BY <1>2, <1>5, <1>11, <2>2, <3>1 DEF Held
    <2> QED
      BY <2>1, <2>2
  <1>13. ASSUME m = Default PROVE DefaultStands'
    BY <1>2, <1>3, <1>8, <1>13 DEF DefaultStands, Stands, Owned, Rolling
  <1> QED
    BY <1>9, <1>10, <1>12, <1>13 DEF Good

\* After a reboot nobody is at work, and what is recorded is excused.
LEMMA RebootAccounted ==
    ASSUME TypeOK, Reboot
    PROVE  \A n \in Nets : Accounted(n)'
  <1>1. SUFFICES ASSUME NEW n \in Nets, scars'[n] = {} PROVE Good(n)' /\ DefaultStands'
    BY DEF Accounted
  <1>2. db'[n] = NoRecord /\ link'[n] = NoLink /\ \A p \in Procs : pc'[p] = "idle"
    BY <1>1 DEF Reboot
  <1>3. \A p \in Procs : ~HoldsLink(p)' /\ ~HoldsRecord(p)' /\ p \notin Busy'
    BY <1>2 DEF HoldsLink, HoldsRecord, Making, Rolling, Busy, Resting
  <1>4. Exclusive(n)' /\ Settled(n)'
    BY <1>2, <1>3 DEF Exclusive, Settled, Owned
  <1>5. \A p \in Procs : Held(n, p)'
    BY <1>2, <1>3 DEF Held, Named, Rolling
  <1>6. DefaultStands'
    BY <1>2 DEF DefaultStands, Stands, Rolling
  <1> QED
    BY <1>4, <1>5, <1>6 DEF Good

\* The administrator takes a name nobody is at work on, or is an excuse.
LEMMA AdminAccounted ==
    ASSUME TypeOK, NEW m \in Nets, AdminAdds(m), \A n \in Nets : Accounted(n)
    PROVE  \A n \in Nets : Accounted(n)'
  <1>0. /\ \A n \in Nets : scars'[n] = {} => scars[n] = {}
        /\ AtWork(m) # {} \/ link[m] # NoLink => scars'[m] # {}
    <2>1. CASE AtWork(m) # {} \/ link[m] # NoLink
      <3>1. scars' = [scars EXCEPT ![m] = @ \cup {"admin"}]
        BY <2>1 DEF AdminAdds, Scar
      <3> QED
        BY <3>1 DEF TypeOK
    <2>2. CASE ~(AtWork(m) # {} \/ link[m] # NoLink)
      BY <2>2 DEF AdminAdds
    <2> QED
      BY <2>1, <2>2
  <1>1. SUFFICES ASSUME NEW n \in Nets, scars[n] = {},
                        n = m => AtWork(m) = {} /\ link[m] = NoLink
                 PROVE  Good(n)' /\ (n = Default => DefaultStands')
    BY <1>0 DEF Accounted
  <1>2. Good(n) /\ (n = Default => DefaultStands)
    BY <1>1 DEF Accounted
  <1>3. /\ db' = db /\ pc' = pc /\ cmd' = cmd /\ net' = net /\ want' = want /\ idx' = idx
        /\ after' = after /\ count' = count
        /\ \A k \in Nets : k # m => link'[k] = link[k]
    BY DEF AdminAdds, TypeOK
  <1>4. ~link'[m].owned
    BY DEF AdminAdds, NewLink, TypeOK
  <1>5. \A p \in Procs : (HoldsLink(p)' <=> HoldsLink(p)) /\ (HoldsRecord(p)' <=> HoldsRecord(p))
                         /\ (p \in Busy' <=> p \in Busy)
    BY <1>3 DEF HoldsLink, HoldsRecord, Busy
  <1>6. Exclusive(n)'
    BY <1>2, <1>3, <1>5 DEF Good, Exclusive
  <1>7. CASE n # m
    <2>1. Settled(n)'
      BY <1>2, <1>3, <1>5, <1>7 DEF Good, Settled, Owned
    <2>2. (Leaving(n)' <=> Leaving(n)) /\ (CaredFor(n)' <=> CaredFor(n))
      BY <1>3, <1>5, <1>7 DEF Leaving, CaredFor
    <2>3. \A p \in Procs : net[p] = n => Held(n, p)'
      BY <1>2, <1>3, <1>5, <1>7, <2>2 DEF Good, Held
    <2>4. n = Default => DefaultStands'
      BY <1>2, <1>3, <1>7 DEF DefaultStands, Stands, Owned
    <2> QED
      BY <1>3, <1>6, <2>1, <2>3, <2>4 DEF Good
  <1>8. CASE n = m
    <2>1. \A p \in Procs : net[p] = n => pc[p] \in Resting
      BY <1>1, <1>8 DEF AtWork
    <2>2. \A p \in Procs : net[p] = n => ~HoldsLink(p) /\ ~HoldsRecord(p)
      BY <2>1 DEF HoldsLink, HoldsRecord, Resting, Making, Rolling
    <2>3. db[n] = NoRecord
      BY <1>1, <1>2, <1>8, <2>2 DEF Good, Settled, Owned
    <2>4. Settled(n)'
      BY <1>3, <1>4, <1>8, <2>3 DEF Settled, Owned
    <2>5. \A p \in Procs : net[p] = n => Held(n, p)'
      BY <1>3, <1>5, <2>1, <2>2 DEF Held, Resting, Named, Rolling
    <2>6. n = Default => DefaultStands'
      BY <1>3, <2>1 DEF DefaultStands, Stands, Resting, Rolling
    <2> QED
      BY <1>3, <1>6, <2>4, <2>5, <2>6 DEF Good
  <1> QED
    BY <1>7, <1>8

-----------------------------------------------------------------------------
\* Every step keeps the invariant.
LEMMA NextBInv == BInv /\ [Next]_vars => BInv'
  <1> SUFFICES ASSUME BInv, [Next]_vars PROVE BInv'
    OBVIOUS
  <1>0. Frame /\ Indexed /\ StrayApart /\ \A n \in Nets : Accounted(n)
    BY DEF BInv, Frame
  <1>1. CASE UNCHANGED vars
    BY <1>1 DEF vars, frame, bounds, BInv, TypeOK, RulesCounted, Busy, CommandsInOrder, InOrder,
       Indexed, StrayApart, Stray, Apart, Accounted, Good, Exclusive, Settled, Held, HoldsLink, HoldsRecord,
       Leaving, CaredFor, Owned, DefaultStands, Stands
  <1>2. CASE Next
    <2>1. StrayApart' /\ Indexed'
      BY <1>0, <1>2, StrayKept, IndexedKept DEF Frame
    <2>2. ASSUME NEW p \in Procs, Step(p) PROVE Frame' /\ \A n \in Nets : Accounted(n)'
      BY <1>0, <2>2, StepFrame, StepAccounted DEF Frame
    <2>3. ASSUME NEW p \in Procs, Command(p) PROVE Frame' /\ \A n \in Nets : Accounted(n)'
      BY <1>0, <2>3, BeginFrame, BeginAccounted DEF Frame
    <2>4. ASSUME Reboot PROVE Frame' /\ \A n \in Nets : Accounted(n)'
      BY <1>0, <2>4, RebootFrame, RebootAccounted DEF Frame
    <2>5. ASSUME NEW m \in Nets, AdminAdds(m) PROVE Frame' /\ \A n \in Nets : Accounted(n)'
      BY <1>0, <2>5, AdminFrame, AdminAccounted DEF Frame
    <2>6. Frame' /\ \A n \in Nets : Accounted(n)'
      BY <1>2, <2>2, <2>3, <2>4, <2>5 DEF Next, Step
    <2> QED
      BY <2>1, <2>6 DEF BInv, Frame
  <1> QED
    BY <1>1, <1>2

\* The invariant holds always.
THEOREM BridgeInvariance == Spec => []BInv
  BY InitBInv, NextBInv, PTL DEF Spec

\* The variables keep their types: there is at most one MASQUERADE rule for
\* each command that was issued.
THEOREM BridgeTyped == Spec => []TypeOK
  <1>1. BInv => TypeOK
    BY DEF BInv
  <1> QED
    BY <1>1, BridgeInvariance, PTL

\* Interface and record of a network agree whenever no command is at work on it,
\* however many creates and runs raced and whichever call of theirs failed, but
\* for what a failed deletion, a crash, a reboot, an overlapping rm or an
\* administrator left.
THEOREM Agreement == Spec => []NetworkIsWhole
  <1>1. BInv => NetworkIsWhole
    <2>1. SUFFICES ASSUME BInv, NEW n \in Nets, AtWork(n) = {}, scars[n] = {}
                   PROVE  IF db[n] = NoRecord
                          THEN ~Owned(n)
                          ELSE Owned(n) /\ link[n].up /\ link[n].addrs = {db[n].cidr}
      BY DEF NetworkIsWhole
    <2>2. Settled(n)
      BY <2>1 DEF BInv, Accounted, Good
    <2>3. \A p \in Procs : net[p] = n => ~HoldsLink(p) /\ ~HoldsRecord(p)
      BY <2>1 DEF AtWork, Resting, HoldsLink, HoldsRecord, Making, Rolling
    <2> QED
      BY <2>2, <2>3 DEF Settled
  <1> QED
    BY <1>1, BridgeInvariance, PTL

\* A command that changes an interface goes on to its next place.
LEMMA StepMoves ==
    ASSUME TypeOK, NEW p \in Procs, Step(p), link'[net[p]] # link[net[p]]
    PROVE  pc'[p] # pc[p]
  <1>1. ASSUME NEW from, NEW to, from # to, At(p, from, to) PROVE pc'[p] # pc[p]
    BY <1>1 DEF At, TypeOK
  <1>2. CASE InitEnv(p)
    <2>1. SetUp(p)
      BY <1>2 DEF InitEnv, DefaultBridge, AdoptRecord, AdoptLink, CheckRule, AddRule, Moves, Fault
    <2> QED
      BY <1>1, <2>1 DEF SetUp, SetLink, NoSuchLink, Moves, Fault
  <1>3. CASE Create(p)
    <2>1. CASE AddBridge(p) \/ SetAlias(p) \/ UndoBridge(p)
      BY <1>1, <2>1 DEF AddBridge, SetAlias, UndoBridge, SetLink, NoSuchLink, Delete, NotDeleted,
         Moves, Fault, LeavingFault
    <2>2. CASE SetAddress(p) \/ BringUp(p)
      BY <1>1, <2>2 DEF SetAddress, BringUp, SetLink, Unconfigured
    <2>3. CASE CheckRecord(p) \/ CheckLink(p) \/ ReadIndex(p) \/ CheckCreated(p) \/ AddRecord(p)
      BY <2>3 DEF CheckRecord, CheckLink, ReadIndex, CheckCreated, AddRecord, Moves, Fault
    <2> QED
      BY <1>3, <2>1, <2>2, <2>3 DEF Create
  <1>4. CASE Remove(p)
    <2>1. CASE SetDown(p)
      BY <1>1, <2>1 DEF SetDown, SetLink, NoSuchLink, Moves, Fault
    <2>2. CASE DeleteBridge(p)
      <3>1. Deleted(p) # "delbr"
        BY DEF Deleted
      <3> QED
        BY <1>1, <2>2, <3>1 DEF DeleteBridge, Delete, NotDeleted, NoSuchLink, Moves, LeavingFault
    <2>3. CASE CheckTracked(p) \/ OriginalIndex(p) \/ Verify(p) \/ Recheck(p) \/ Forget(p)
      BY <2>3 DEF CheckTracked, OriginalIndex, Verify, Recheck, Forget, Moves, Fault, LeavingFault
    <2> QED
      BY <1>4, <2>1, <2>2, <2>3 DEF Remove
  <1>5. CASE Crash(p)
    BY <1>5 DEF Crash
  <1> QED
    BY <1>2, <1>3, <1>4, <1>5 DEF Step

\* No create, rm, rollback or adoption changes or deletes a bridge somebody else
\* made, whoever else is at work on its name, but for a command that was past its
\* last look when the bridge was made.
THEOREM ForeignSafety == Spec => ForeignSpared
  <1>1. ASSUME BInv, [Next]_vars, NEW n \in Nets, Stray(n), link'[n] # link[n]
        PROVE  \/ count'["reboot"] > count["reboot"]
               \/ Stray(n)' /\ link'[n].index # link[n].index
               \/ \E p \in blind : net[p] = n /\ pc'[p] # pc[p]
    <2>0. TypeOK /\ CommandsInOrder /\ StrayApart /\ Indexed
      BY <1>1 DEF BInv
    <2>1. ASSUME NEW p \in Procs, Step(p) PROVE p \in blind /\ net[p] = n /\ pc'[p] # pc[p]
      <3>1. Spares(p) /\ Advances(p)
        BY <2>0, <2>1, StepSpares, StepAdvances
      <3>2. n = net[p]
        BY <1>1, <3>1 DEF Advances, Local
      <3>3. p \in blind
        BY <1>1, <3>1, <3>2 DEF Spares
      <3>4. pc'[p] # pc[p]
        BY <1>1, <2>0, <2>1, <3>2, StepMoves
      <3> QED
        BY <3>2, <3>3, <3>4
    <2>2. ASSUME NEW p \in Procs, Command(p) PROVE FALSE
      BY <1>1, <2>2 DEF Command, Begin
    <2>3. ASSUME Reboot PROVE count'["reboot"] > count["reboot"]
      BY <2>0, <2>3 DEF Reboot, Counted, TypeOK, Events
    <2>4. ASSUME NEW m \in Nets, AdminAdds(m) PROVE Stray(n)' /\ link'[n].index # link[n].index
      <3>1. m = n /\ link'[n] = NewLink(TRUE) /\ made \in Nat
        <4>1. link' = [link EXCEPT ![m] = NewLink(TRUE)] /\ made \in Nat
          BY <2>0, <2>4, LimitAssumption DEF AdminAdds, TypeOK
        <4> QED
          BY <1>1, <2>0, <4>1 DEF TypeOK
      <3>2. link[n].index <= made /\ link[n].index \in Nat
        BY <1>1, <2>0 DEF Stray, Indexed, TypeOK, Links
      <3>3. NewLink(TRUE) \in Links
        BY <2>0, <2>4, NewLinkTyped DEF AdminAdds
      <3>4. NewLink(TRUE).index # link[n].index /\ NewLink(TRUE).foreign /\ ~NewLink(TRUE).owned
        BY <3>1, <3>2 DEF NewLink
      <3> QED
        BY <3>1, <3>3, <3>4, NoLinkAssumption DEF Stray
    <2>5. ~UNCHANGED vars
      BY <1>1 DEF vars
    <2> QED
      BY <1>1, <2>1, <2>2, <2>3, <2>4, <2>5 DEF Next, Step
  <1>2. BInv /\ [Next]_vars =>
            [\A n \in Nets :
                Stray(n) /\ link'[n] # link[n] =>
                    \/ count'["reboot"] > count["reboot"]
                    \/ Stray(n)' /\ link'[n].index # link[n].index
                    \/ \E p \in blind : net[p] = n /\ pc'[p] # pc[p]]_vars
    BY <1>1
  <1> QED
    BY <1>2, BridgeInvariance, PTL DEF Spec, ForeignSpared

\* The step by which a run ends init_docker_env.
LEMMA RunEnds ==
    ASSUME TypeOK, CommandsInOrder, [Next]_vars, NEW p \in Procs, cmd[p] = "run",
           pc[p] # "ok", pc'[p] = "ok"
    PROVE  CheckRule(p) \/ AddRule(p)
  <1>1. ASSUME NEW q \in Procs, Step(q) PROVE q = p
    <2>1. PICK to \in Places : Local(q, to)
      BY <1>1, StepAdvances DEF Advances
    <2> QED
      BY <2>1, Others
  <1>2. ASSUME NEW q \in Procs, Command(q) PROVE FALSE
    <2>1. PICK n \in Nets, c \in Cidrs, k \in {"create", "rm", "run"} : Begin(q, k, n, c)
      BY <1>2 DEF Command
    <2>2. PICK to \in {"default", "exists", "tracked"} : pc' = [pc EXCEPT ![q] = to]
      BY <2>1 DEF Begin
    <2> QED
      BY <2>2 DEF TypeOK
  <1>3. ~Reboot /\ (\A n \in Nets : ~AdminAdds(n)) /\ ~UNCHANGED vars
    BY DEF Reboot, AdminAdds, vars
  <1>4. Step(p)
    BY <1>1, <1>2, <1>3 DEF Next, Step
  <1>5. ~Crash(p)
    BY DEF Crash, TypeOK
  <1>6. ASSUME NEW from, NEW to, to # "ok" PROVE ~At(p, from, to)
    BY <1>6 DEF At, TypeOK
  <1>7. /\ ~DefaultBridge(p) /\ ~AdoptRecord(p) /\ ~AdoptLink(p)
        /\ ~CheckRecord(p) /\ ~CheckLink(p) /\ ~AddBridge(p) /\ ~ReadIndex(p)
        /\ ~CheckCreated(p) /\ ~UndoBridge(p) /\ ~AddRecord(p)
    BY <1>6 DEF DefaultBridge, AdoptRecord, AdoptLink, Moves, Fault, LeavingFault, NoSuchLink,
       CheckRecord, CheckLink, AddBridge, ReadIndex, CheckCreated, UndoBridge, AddRecord, Delete,
       NotDeleted, Unowned
  <1>8. ~SetUp(p) /\ ~SetAlias(p) /\ ~SetDown(p)
    BY <1>6 DEF SetUp, SetAlias, SetDown, SetLink, NoSuchLink, Moves, Fault
  <1>9. ~SetAddress(p)
    BY <1>6 DEF SetAddress, Unconfigured, Unowned, SetLink
  <1>10. ~BringUp(p)
    BY <1>6 DEF BringUp, Unconfigured, Unowned, SetLink
  <1>11. ~CheckTracked(p) /\ ~Verify(p) /\ ~Recheck(p)
    BY <1>6 DEF CheckTracked, Unowned, Verify, Recheck, Moves, Fault, LeavingFault
  <1>12. ~OriginalIndex(p) /\ ~DeleteBridge(p)
    BY <1>6 DEF OriginalIndex, DeleteBridge, Deleted, Delete, NotDeleted, NoSuchLink, Moves,
       LeavingFault
  <1>13. ~Forget(p)
    <2>1. pc[p] = "forget" => after[p] # "rm"
      BY DEF CommandsInOrder, InOrder
    <2> QED
      BY <1>6, <2>1 DEF Forget, LeavingFault, At, TypeOK
  <1> QED
    BY <1>4, <1>5, <1>7, <1>8, <1>9, <1>10, <1>11, <1>12, <1>13 DEF Step, InitEnv, Create, Remove

\* A run leaves init_docker_env with the default bridge owned, up and recorded,
\* and with its MASQUERADE rule, if no call failed and nothing scarred the default
\* network.
THEOREM EnvironmentReady == Spec => EnvironmentIsReady
  <1>1. ASSUME BInv, [Next]_vars, NEW p \in Procs, cmd[p] = "run", pc[p] # "ok", pc'[p] = "ok",
               scars[Default] = {}, count["fault"] = 0
        PROVE  /\ Owned(Default)' /\ link'[Default].up
               /\ db'[Default] # NoRecord /\ db'[Default].cidr = DefaultCidr
               /\ masq' > 0
    <2>0. TypeOK /\ CommandsInOrder /\ Accounted(Default)
      BY <1>1, DefaultAssumption DEF BInv
    <2>1. CheckRule(p) \/ AddRule(p)
      BY <1>1, <2>0, RunEnds
    <2>2. /\ pc[p] \in {"rule", "addrule"} /\ link' = link /\ db' = db /\ masq' > 0
      BY <1>1, <2>0, <2>1 DEF CheckRule, AddRule, Moves, Fault, At, TypeOK
    <2>3. net[p] = Default
      BY <1>1, <2>0, <2>2 DEF CommandsInOrder, InOrder, Busy, Resting
    <2>4. Stands(p)
      BY <1>1, <2>0, <2>3 DEF Accounted, DefaultStands
    <2> QED
      BY <2>2, <2>4 DEF Stands, Owned
  <1>2. BInv /\ [Next]_vars =>
            [\A p \in Procs :
                /\ cmd[p] = "run" /\ pc[p] # "ok" /\ pc'[p] = "ok"
                /\ scars[Default] = {} /\ count["fault"] = 0
                => /\ Owned(Default)' /\ link'[Default].up
                   /\ db'[Default] # NoRecord /\ db'[Default].cidr = DefaultCidr
                   /\ masq' > 0]_vars
    BY <1>1
  <1> QED
    BY <1>2, BridgeInvariance, PTL DEF Spec, EnvironmentIsReady
=============================================================================
