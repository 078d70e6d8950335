------------------------- MODULE NetworkStateProofs -------------------------
(***************************************************************************)
(* Proofs about NetworkState for any number of processes, networks and     *)
(* addresses: the lock protocol loses no update, the file stays loadable,  *)
(* an address on a network nobody removes is never handed out twice, and   *)
(* the protocol implements the atomic table of module Ipam.                *)
(***************************************************************************)
EXTENDS NetworkState, FiniteSetTheorems, TLAPS

\* A call that has not reached its result has not set its reply.
ReplyIsUnset ==
    \A p \in Procs : pc[p] \in {"called", "locked", "loaded"} => reply[p] = Failed

\* The temporary file got one of the MaxAttempts names.
TempIsFresh == \A p \in Procs : pc[p] = "written" => stale[p] < MaxAttempts

\* Nobody is removing a permanent network.
PermanentIsKept ==
    \A p \in Procs : op[p].kind = "delete" => op[p].net \notin Permanent

PendingRelease(p) ==
    /\ pc[p] \in {"called", "locked", "loaded", "written"}
    /\ op[p].kind = "release"
    /\ op[p].net \in Permanent

\* An address that is being given back is still marked used, is not leased,
\* and is being given back by one process only.
ReleaseIsExclusive ==
    \A p \in Procs : PendingRelease(p) =>
        /\ <<op[p].net, op[p].addr>> \notin leased
        /\ file[op[p].net] # NoRecord
        /\ op[p].addr \in file[op[p].net].used
        /\ \A q \in Procs : q # p /\ PendingRelease(q) =>
              <<op[q].net, op[q].addr>> # <<op[p].net, op[p].addr>>

IInv ==
    /\ TypeOK
    /\ MutualExclusion
    /\ CopyIsCurrent
    /\ FileStaysLoadable
    /\ LeaseIsRecorded
    /\ ReplyIsUnset
    /\ TempIsFresh
    /\ PermanentIsKept
    /\ ReleaseIsExclusive

-----------------------------------------------------------------------------
(***************************************************************************)
(* The records.                                                            *)
(***************************************************************************)

\* A new, empty record fits in a valid file with room for one more network.
LEMMA AddedIsValid ==
    ASSUME NEW d \in Databases, ValidDatabase(d), NEW n \in Nets, NEW c \in Cidrs,
           CanAdd(d, n)
    PROVE  /\ WithAdded(d, n, c) \in Databases
           /\ ValidDatabase(WithAdded(d, n, c))
  <1> DEFINE e == WithAdded(d, n, c)
  <1> DEFINE r == [cidr |-> c, used |-> {}]
  <1>1. r \in Record
    BY DEF Record
  <1>2. e \in Databases
    BY <1>1 DEF WithAdded, Databases
  <1>3. e[n] = r /\ \A m \in Nets \ {n} : e[m] = d[m]
    BY DEF WithAdded, Databases
  <1>4. Tracked(e) = Tracked(d) \cup {n}
    BY <1>1, <1>3, NoRecordAssumption DEF Tracked
  <1>5. IsFiniteSet(Tracked(d)) /\ n \notin Tracked(d)
    BY NetsAssumption, FS_Subset DEF Tracked, CanAdd
  <1>6. Cardinality(Tracked(e)) <= MaxRecords
    <2>1. Cardinality(Tracked(e)) = Cardinality(Tracked(d)) + 1
      BY <1>4, <1>5, FS_AddElement
    <2>2. Cardinality(Tracked(d)) \in Nat
      BY <1>5, FS_CardinalityType
    <2> QED
      BY <2>1, <2>2, BoundAssumption DEF CanAdd
  <1>7. ValidRecord(r)
    BY FS_EmptySet, BoundAssumption DEF ValidRecord
  <1>8. \A m \in Tracked(e) : ValidRecord(e[m])
    BY <1>3, <1>4, <1>7 DEF ValidDatabase, Tracked
  <1> QED
    BY <1>2, <1>6, <1>8 DEF ValidDatabase

\* Dropping a record keeps a file valid.
LEMMA DeletedIsValid ==
    ASSUME NEW d \in Databases, ValidDatabase(d), NEW n \in Nets
    PROVE  /\ WithDeleted(d, n) \in Databases
           /\ ValidDatabase(WithDeleted(d, n))
  <1> DEFINE e == WithDeleted(d, n)
  <1>1. e \in Databases
    BY DEF WithDeleted, Databases
  <1>2. e[n] = NoRecord /\ \A m \in Nets \ {n} : e[m] = d[m]
    BY DEF WithDeleted, Databases
  <1>3. Tracked(e) \in SUBSET Tracked(d)
    BY <1>2 DEF Tracked
  <1>4. IsFiniteSet(Tracked(d))
    BY NetsAssumption, FS_Subset DEF Tracked
  <1>5. Cardinality(Tracked(e)) <= Cardinality(Tracked(d))
    BY <1>3, <1>4, FS_Subset
  <1>6. Cardinality(Tracked(d)) \in Nat /\ Cardinality(Tracked(e)) \in Nat
    BY <1>3, <1>4, FS_Subset, FS_CardinalityType
  <1>7. Cardinality(Tracked(e)) <= MaxRecords
    BY <1>5, <1>6, BoundAssumption DEF ValidDatabase
  <1>8. \A m \in Tracked(e) : ValidRecord(e[m])
    BY <1>2, <1>3 DEF ValidDatabase, Tracked
  <1> QED
    BY <1>1, <1>7, <1>8 DEF ValidDatabase

\* Changing the used addresses of one record changes nothing else.
LEMMA UsedIsReplaced ==
    ASSUME NEW d \in Databases, NEW n \in Nets, d[n] # NoRecord,
           NEW u \in SUBSET Nat, NEW e, e = WithUsedSet(d, n, u)
    PROVE  /\ e \in Databases
           /\ e[n] = [cidr |-> d[n].cidr, used |-> u]
           /\ e[n] # NoRecord
           /\ \A m \in Nets \ {n} : e[m] = d[m]
           /\ Tracked(e) = Tracked(d)
  <1>1. d[n] \in Record
    BY DEF Databases
  <1>2. [cidr |-> d[n].cidr, used |-> u] \in Record
    BY <1>1 DEF Record
  <1>3. e[n] = [cidr |-> d[n].cidr, used |-> u]
    BY DEF Databases, WithUsedSet
  <1>4. e[n] # NoRecord
    BY <1>2, <1>3, NoRecordAssumption
  <1>5. \A m \in Nets \ {n} : e[m] = d[m]
    BY DEF Databases, WithUsedSet
  <1>6. e \in Databases
    BY <1>2 DEF Databases, WithUsedSet
  <1>7. Tracked(e) = Tracked(d)
    BY <1>4, <1>5 DEF Tracked
  <1> QED
    BY <1>3, <1>4, <1>5, <1>6, <1>7

\* Marking a free candidate used keeps a file valid.
LEMMA UsedIsValid ==
    ASSUME NEW d \in Databases, ValidDatabase(d), NEW n \in Nets, CanAlloc(d, n),
           NEW a \in Free(d[n])
    PROVE  /\ WithUsed(d, n, a) \in Databases
           /\ ValidDatabase(WithUsed(d, n, a))
  <1> DEFINE u == d[n].used \cup {a}
  <1> DEFINE e == WithUsedSet(d, n, u)
  <1>1. d[n] \in Record /\ n \in Tracked(d) /\ ValidRecord(d[n])
    BY DEF Databases, CanAlloc, Tracked, ValidDatabase
  <1>2. d[n].cidr.min \in Nat /\ d[n].cidr.max \in Nat
    BY <1>1, CidrAssumption DEF Record
  <1>3. a \in Nat /\ d[n].cidr.min + 1 < a /\ a < d[n].cidr.max
    BY <1>2 DEF Free, Candidates
  <1>4. u \in SUBSET Nat
    BY <1>1, <1>3 DEF Record
  <1>5. /\ e \in Databases
        /\ e[n] = [cidr |-> d[n].cidr, used |-> u]
        /\ \A m \in Nets \ {n} : e[m] = d[m]
        /\ Tracked(e) = Tracked(d)
    <2>1. d[n] # NoRecord
      BY DEF CanAlloc
    <2>2. e = WithUsedSet(d, n, u)
      OBVIOUS
    <2> HIDE DEF u, e
    <2> QED
      BY <1>4, <2>1, <2>2, UsedIsReplaced
  <1>6. IsFiniteSet(u) /\ Cardinality(u) <= MaxUsed
    <2>1. IsFiniteSet(d[n].used) /\ a \notin d[n].used
      BY <1>1 DEF ValidRecord, Free
    <2>2. IsFiniteSet(u) /\ Cardinality(u) = Cardinality(d[n].used) + 1
      BY <2>1, FS_AddElement
    <2>3. Cardinality(d[n].used) \in Nat
      BY <2>1, FS_CardinalityType
    <2> QED
      BY <2>2, <2>3, BoundAssumption DEF CanAlloc
  <1>7. ValidRecord(e[n])
    <2>1. \A b \in u : d[n].cidr.min + 1 < b /\ b < d[n].cidr.max
      BY <1>1, <1>3 DEF ValidRecord
    <2> HIDE DEF u, e
    <2> QED
      BY <1>5, <1>6, <2>1 DEF ValidRecord
  <1>8. \A m \in Tracked(e) : ValidRecord(e[m])
    BY <1>5, <1>7 DEF ValidDatabase, Tracked
  <1> QED
    BY <1>5, <1>8 DEF ValidDatabase, WithUsed

\* Giving an address back keeps a file valid.
LEMMA ReleasedIsValid ==
    ASSUME NEW d \in Databases, ValidDatabase(d), NEW n \in Nets, d[n] # NoRecord,
           NEW a \in Nat
    PROVE  /\ WithReleased(d, n, a) \in Databases
           /\ ValidDatabase(WithReleased(d, n, a))
  <1> DEFINE u == d[n].used \ {a}
  <1> DEFINE e == WithUsedSet(d, n, u)
  <1>1. d[n] \in Record /\ n \in Tracked(d) /\ ValidRecord(d[n])
    BY DEF Databases, Tracked, ValidDatabase
  <1>2. u \in SUBSET Nat
    BY <1>1 DEF Record
  <1>3. /\ e \in Databases
        /\ e[n] = [cidr |-> d[n].cidr, used |-> u]
        /\ \A m \in Nets \ {n} : e[m] = d[m]
        /\ Tracked(e) = Tracked(d)
    <2>1. d[n] # NoRecord
      OBVIOUS
    <2>2. e = WithUsedSet(d, n, u)
      OBVIOUS
    <2> HIDE DEF u, e
    <2> QED
      BY <1>2, <2>1, <2>2, UsedIsReplaced
  <1>4. IsFiniteSet(u) /\ Cardinality(u) <= MaxUsed
    <2>1. IsFiniteSet(d[n].used) /\ Cardinality(d[n].used) <= MaxUsed
      BY <1>1 DEF ValidRecord
    <2>2. IsFiniteSet(u) /\ Cardinality(u) <= Cardinality(d[n].used)
      BY <2>1, FS_Subset
    <2>3. Cardinality(d[n].used) \in Nat /\ Cardinality(u) \in Nat
      BY <2>1, <2>2, FS_CardinalityType
    <2> QED
      BY <2>1, <2>2, <2>3, BoundAssumption
  <1>5. ValidRecord(e[n])
    <2>1. \A b \in u : d[n].cidr.min + 1 < b /\ b < d[n].cidr.max
      BY <1>1 DEF ValidRecord
    <2> HIDE DEF u, e
    <2> QED
      BY <1>3, <1>4, <2>1 DEF ValidRecord
  <1>6. \A m \in Tracked(e) : ValidRecord(e[m])
    BY <1>3, <1>5 DEF ValidDatabase, Tracked
  <1> QED
    BY <1>3, <1>6 DEF ValidDatabase, WithReleased

\* Whatever a writer accepted, the array it writes back is valid.
LEMMA EditedIsValid ==
    ASSUME NEW d \in Databases, ValidDatabase(d), NEW o \in Operations,
           Accepts(o, d), NEW a \in Picked(o, d)
    PROVE  /\ Edited(o, d, a) \in Databases
           /\ ValidDatabase(Edited(o, d, a))
           /\ a \in Nat
  <1>1. o.kind \in Kinds /\ o.net \in Nets /\ o.cidr \in Cidrs /\ o.addr \in Nat
    BY DEF Operations
  <1>2. CASE o.kind = "add"
    BY <1>1, <1>2, AddedIsValid DEF Accepts, Edited, Picked
  <1>3. CASE o.kind = "delete"
    BY <1>1, <1>3, DeletedIsValid DEF Accepts, Edited, Picked
  <1>4. CASE o.kind = "alloc"
    <2>1. CanAlloc(d, o.net) /\ a \in Free(d[o.net])
      BY <1>4 DEF Accepts, Picked
    <2>2. d[o.net] \in Record
      BY <1>1, <2>1 DEF CanAlloc, Databases
    <2>3. a \in Nat
      BY <2>1, <2>2, CidrAssumption DEF Free, Candidates, Record
    <2> QED
      BY <1>1, <1>4, <2>1, <2>3, UsedIsValid DEF Edited
  <1>5. CASE o.kind = "release"
    BY <1>1, <1>5, ReleasedIsValid DEF Accepts, Edited, Picked
  <1>6. CASE o.kind = "read"
    BY <1>6 DEF Accepts
  <1> QED
    BY <1>1, <1>2, <1>3, <1>4, <1>5, <1>6 DEF Kinds

\* The file's effect on the other records: a call touches its own network only.
LEMMA EditedIsLocal ==
    ASSUME NEW d \in Databases, NEW o \in Operations, Accepts(o, d), NEW a
    PROVE  \A m \in Nets \ {o.net} : Edited(o, d, a)[m] = d[m]
  BY DEF Databases, Operations, Edited, WithAdded, WithDeleted, WithUsed,
         WithReleased, WithUsedSet

\* What an edit leaves of the used addresses of the call's own network.
LEMMA EditedKeepsUsed ==
    ASSUME NEW d \in Databases, NEW o \in Operations, Accepts(o, d),
           NEW a \in Picked(o, d), d[o.net] # NoRecord, o.kind # "delete",
           NEW b \in d[o.net].used, o.kind = "release" => b # o.addr
    PROVE  /\ Edited(o, d, a)[o.net] # NoRecord
           /\ b \in Edited(o, d, a)[o.net].used
  <1>1. o.kind \in Kinds /\ o.net \in Nets /\ d[o.net] \in Record
    BY DEF Operations, Databases
  <1>2. CASE o.kind = "add"
    BY <1>2 DEF Accepts, CanAdd
  <1>3. CASE o.kind = "alloc"
    <2> DEFINE u == d[o.net].used \cup {a}
    <2>1. a \in Nat
      BY <1>1, <1>3, CidrAssumption DEF Picked, Free, Candidates, Record
    <2>2. u \in SUBSET Nat /\ b \in u
      BY <1>1, <2>1 DEF Record
    <2>3. Edited(o, d, a) = WithUsedSet(d, o.net, u)
      BY <1>3 DEF Edited, WithUsed
    <2> HIDE DEF u
    <2>4. /\ WithUsedSet(d, o.net, u)[o.net] = [cidr |-> d[o.net].cidr, used |-> u]
          /\ WithUsedSet(d, o.net, u)[o.net] # NoRecord
      BY <1>1, <2>2, UsedIsReplaced
    <2> QED
      BY <2>2, <2>3, <2>4
  <1>4. CASE o.kind = "release"
    <2> DEFINE u == d[o.net].used \ {o.addr}
    <2>1. u \in SUBSET Nat /\ b \in u
      BY <1>1, <1>4 DEF Record
    <2>2. Edited(o, d, a) = WithUsedSet(d, o.net, u)
      BY <1>4 DEF Edited, WithReleased
    <2> HIDE DEF u
    <2>3. /\ WithUsedSet(d, o.net, u)[o.net] = [cidr |-> d[o.net].cidr, used |-> u]
          /\ WithUsedSet(d, o.net, u)[o.net] # NoRecord
      BY <1>1, <2>1, UsedIsReplaced
    <2> QED
      BY <2>1, <2>2, <2>3
  <1>5. CASE o.kind = "read"
    BY <1>5 DEF Accepts
  <1> QED
    BY <1>1, <1>2, <1>3, <1>4, <1>5 DEF Kinds

\* alloc_new_ip's address is in its record once the record is written.
LEMMA EditedHasPicked ==
    ASSUME NEW d \in Databases, NEW o \in Operations, Accepts(o, d),
           NEW a \in Picked(o, d), o.kind = "alloc"
    PROVE  /\ a \notin d[o.net].used
           /\ Edited(o, d, a)[o.net] # NoRecord
           /\ a \in Edited(o, d, a)[o.net].used
  <1>1. o.net \in Nets /\ d[o.net] # NoRecord /\ d[o.net] \in Record
    BY DEF Operations, Databases, Accepts, CanAlloc
  <1> DEFINE u == d[o.net].used \cup {a}
  <1>2. a \notin d[o.net].used /\ a \in Nat
    BY <1>1, CidrAssumption DEF Picked, Free, Candidates, Record
  <1>3. u \in SUBSET Nat /\ a \in u
    BY <1>1, <1>2 DEF Record
  <1>4. Edited(o, d, a) = WithUsedSet(d, o.net, u)
    BY DEF Edited, WithUsed
  <1> HIDE DEF u
  <1>5. /\ WithUsedSet(d, o.net, u)[o.net] = [cidr |-> d[o.net].cidr, used |-> u]
        /\ WithUsedSet(d, o.net, u)[o.net] # NoRecord
    BY <1>1, <1>3, UsedIsReplaced
  <1> QED
    BY <1>2, <1>3, <1>4, <1>5

-----------------------------------------------------------------------------
(***************************************************************************)
(* The inductive invariant, one lemma per group of steps.                  *)
(***************************************************************************)

\* The empty networks file, with no process in a call, satisfies the invariant.
LEMMA InitIInv == Init => IInv
  <1> SUFFICES ASSUME Init PROVE IInv
    OBVIOUS
  <1>1. EmptyDatabase \in Databases
    BY DEF EmptyDatabase, Databases
  <1>2. PICK n \in Nets : op = [p \in Procs |-> Request("read", n, AnyCidr, 0)]
    BY DEF Init
  <1>3. Request("read", n, AnyCidr, 0) \in Operations
    BY CidrAssumption DEF Request, Operations, Kinds, AnyCidr
  <1>4. Failed \in Replies
    BY DEF Failed, Replies
  <1>5. TypeOK
    BY <1>1, <1>2, <1>3, <1>4, LimitAssumption DEF TypeOK, Init, Steps
  <1>6. FileStaysLoadable
    <2>1. Tracked(EmptyDatabase) = {}
      BY DEF Tracked, EmptyDatabase
    <2> QED
      BY <2>1, FS_EmptySet, BoundAssumption DEF FileStaysLoadable, ValidDatabase, Init
  <1>7. \A p \in Procs : op[p].kind = "read" /\ pc[p] = "idle"
    BY <1>2 DEF Request, Init
  <1> QED
    BY <1>5, <1>6, <1>7
    DEF IInv, MutualExclusion, InCritical, CopyIsCurrent, LeaseIsRecorded, Init,
        ReplyIsUnset, TempIsFresh, PermanentIsKept, ReleaseIsExclusive, PendingRelease

\* Entering a call, for every request the callers' contract allows.
LEMMA EnterIInv ==
    ASSUME IInv, NEW p \in Procs, NEW o \in Operations, Enter(p, o),
           o.kind = "delete" => o.net \notin Permanent,
           o.kind = "release" => <<o.net, o.addr>> \in leased,
           leased' = IF o.kind = "release" THEN leased \ {<<o.net, o.addr>>} ELSE leased
    PROVE  IInv'
  <1> USE DEF IInv
  <1>1. TypeOK'
    BY LimitAssumption DEF TypeOK, Enter, Steps, Failed, Replies
  <1>2. MutualExclusion'
    BY DEF MutualExclusion, InCritical, Enter, TypeOK
  <1>3. CopyIsCurrent'
    BY DEF CopyIsCurrent, Enter, TypeOK
  <1>4. FileStaysLoadable'
    BY DEF FileStaysLoadable, Enter
  <1>5. LeaseIsRecorded'
    BY DEF LeaseIsRecorded, Enter
  <1>6. ReplyIsUnset' /\ TempIsFresh'
    BY DEF ReplyIsUnset, TempIsFresh, Enter, TypeOK
  <1>7. PermanentIsKept'
    BY DEF PermanentIsKept, Enter, TypeOK
  <1>8. ReleaseIsExclusive'
    <2>1. op'[p] = o /\ \A q \in Procs \ {p} : op'[q] = op[q] /\ pc'[q] = pc[q]
      BY DEF Enter, TypeOK
    <2>2. \A q \in Procs \ {p} : PendingRelease(q)' <=> PendingRelease(q)
      BY <2>1 DEF PendingRelease
    <2>3. PendingRelease(p)' => <<o.net, o.addr>> \in leased /\ o.net \in Permanent
                                  /\ o.kind = "release"
      BY <2>1 DEF PendingRelease
    <2>4. file' = file
      BY DEF Enter
    <2>5. PendingRelease(p)' => file[o.net] # NoRecord /\ o.addr \in file[o.net].used
      BY <2>3 DEF LeaseIsRecorded
    <2>6. \A q \in Procs : PendingRelease(q) => <<op[q].net, op[q].addr>> \notin leased
      BY DEF ReleaseIsExclusive
    <2> QED
      BY <2>1, <2>2, <2>3, <2>4, <2>5, <2>6 DEF ReleaseIsExclusive
  <1> QED
    BY <1>1, <1>2, <1>3, <1>4, <1>5, <1>6, <1>7, <1>8

\* Entering one of the five calls keeps the invariant.
LEMMA CallIInv ==
    ASSUME IInv, NEW p \in Procs, Call(p)
    PROVE  IInv'
  <1>1. AnyCidr \in Cidrs
    BY CidrAssumption DEF AnyCidr
  <1>2. leased \subseteq Nets \X Nat
    BY DEF IInv, TypeOK
  <1>3. ASSUME CallAdd(p) PROVE IInv'
    <2>1. PICK n \in Nets, c \in Cidrs : Enter(p, Request("add", n, c, 0))
      BY <1>3 DEF CallAdd
    <2>2. /\ Request("add", n, c, 0) \in Operations
          /\ Request("add", n, c, 0).kind = "add"
      BY DEF Request, Operations, Kinds
    <2> QED
      BY <1>3, <2>1, <2>2, EnterIInv DEF CallAdd
  <1>4. ASSUME CallDelete(p) PROVE IInv'
    <2>1. PICK n \in Nets \ Permanent : Enter(p, Request("delete", n, AnyCidr, 0))
      BY <1>4 DEF CallDelete
    <2>2. /\ Request("delete", n, AnyCidr, 0) \in Operations
          /\ Request("delete", n, AnyCidr, 0).kind = "delete"
          /\ Request("delete", n, AnyCidr, 0).net = n
      BY <1>1 DEF Request, Operations, Kinds
    <2> QED
      BY <1>4, <2>1, <2>2, EnterIInv DEF CallDelete
  <1>5. ASSUME CallAlloc(p) PROVE IInv'
    <2>1. PICK n \in Nets : Enter(p, Request("alloc", n, AnyCidr, 0))
      BY <1>5 DEF CallAlloc
    <2>2. /\ Request("alloc", n, AnyCidr, 0) \in Operations
          /\ Request("alloc", n, AnyCidr, 0).kind = "alloc"
      BY <1>1 DEF Request, Operations, Kinds
    <2> QED
      BY <1>5, <2>1, <2>2, EnterIInv DEF CallAlloc
  <1>6. ASSUME CallRelease(p) PROVE IInv'
    <2>1. PICK x \in leased : /\ Enter(p, Request("release", x[1], AnyCidr, x[2]))
                              /\ leased' = leased \ {x}
      BY <1>6 DEF CallRelease
    <2>2. x[1] \in Nets /\ x[2] \in Nat /\ x = <<x[1], x[2]>>
      BY <1>2
    <2> DEFINE o == Request("release", x[1], AnyCidr, x[2])
    <2>3. o \in Operations /\ o.kind = "release" /\ o.net = x[1] /\ o.addr = x[2]
      BY <1>1, <2>2 DEF Request, Operations, Kinds
    <2>4. <<o.net, o.addr>> = x
      BY <2>2, <2>3
    <2> HIDE DEF o
    <2> QED
      BY <2>1, <2>3, <2>4, EnterIInv DEF o
  <1>7. ASSUME CallRead(p) PROVE IInv'
    <2>1. PICK n \in Nets : Enter(p, Request("read", n, AnyCidr, 0))
      BY <1>7 DEF CallRead
    <2>2. /\ Request("read", n, AnyCidr, 0) \in Operations
          /\ Request("read", n, AnyCidr, 0).kind = "read"
      BY <1>1 DEF Request, Operations, Kinds
    <2> QED
      BY <1>7, <2>1, <2>2, EnterIInv DEF CallRead
  <1> QED
    BY <1>3, <1>4, <1>5, <1>6, <1>7 DEF Call

\* Steps that touch neither the file, nor the leases, nor the calls, and by
\* which no call turns pending, keep the parts of the invariant about those.
LEMMA FileUntouched ==
    ASSUME IInv, UNCHANGED <<file, leased, op>>,
           \A q \in Procs : PendingRelease(q)' => PendingRelease(q)
    PROVE  /\ FileStaysLoadable'
           /\ LeaseIsRecorded'
           /\ PermanentIsKept'
           /\ ReleaseIsExclusive'
  BY DEF IInv, FileStaysLoadable, LeaseIsRecorded, PermanentIsKept, ReleaseIsExclusive

\* lock_network_state keeps the invariant, whether it gets the lock or fails.
LEMMA LockIInv ==
    ASSUME IInv, NEW p \in Procs, Lock(p) \/ LockError(p)
    PROVE  IInv'
  <1> USE DEF IInv, Lock, LockError
  <1>1. TypeOK'
    BY DEF TypeOK, Steps
  <1>2. MutualExclusion'
    BY ProcsAssumption DEF MutualExclusion, InCritical, TypeOK
  <1>3. CopyIsCurrent'
    BY DEF CopyIsCurrent, TypeOK
  <1>4. ReplyIsUnset' /\ TempIsFresh'
    BY DEF ReplyIsUnset, TempIsFresh, TypeOK
  <1>5. \A q \in Procs : PendingRelease(q)' => PendingRelease(q)
    BY DEF PendingRelease, TypeOK
  <1> QED
    BY <1>1, <1>2, <1>3, <1>4, <1>5, FileUntouched

\* load_network_records under the lock keeps the invariant; so does its failure.
LEMMA LoadIInv ==
    ASSUME IInv, NEW p \in Procs, Load(p) \/ LoadError(p) \/ WriteError(p)
    PROVE  IInv'
  <1> USE DEF IInv, Load, LoadError, WriteError
  <1>1. TypeOK'
    BY DEF TypeOK, Steps
  <1>2. MutualExclusion'
    BY DEF MutualExclusion, InCritical, TypeOK
  <1>3. CopyIsCurrent'
    BY DEF CopyIsCurrent, TypeOK
  <1>4. ReplyIsUnset' /\ TempIsFresh'
    BY DEF ReplyIsUnset, TempIsFresh, TypeOK
  <1>5. \A q \in Procs : PendingRelease(q)' => PendingRelease(q)
    BY DEF PendingRelease, TypeOK
  <1> QED
    BY <1>1, <1>2, <1>3, <1>4, <1>5, FileUntouched

\* The lock-free readers keep the invariant.
LEMMA ReadIInv ==
    ASSUME IInv, NEW p \in Procs, Read(p)
    PROVE  IInv'
  <1> USE DEF IInv, Read
  <1>1. TypeOK'
    <2>1. file[op[p].net] # NoRecord => Found(file[op[p].net]) \in Replies
      BY DEF TypeOK, Operations, Databases, Found, Replies
    <2> QED
      BY <2>1 DEF TypeOK, Steps
  <1>2. MutualExclusion'
    BY DEF MutualExclusion, InCritical, TypeOK
  <1>3. CopyIsCurrent'
    BY DEF CopyIsCurrent, TypeOK
  <1>4. ReplyIsUnset' /\ TempIsFresh'
    BY DEF ReplyIsUnset, TempIsFresh, TypeOK
  <1>5. \A q \in Procs : PendingRelease(q)' => PendingRelease(q)
    BY DEF PendingRelease, TypeOK
  <1> QED
    BY <1>1, <1>2, <1>3, <1>4, <1>5, FileUntouched

\* Writing the temporary file, or failing to, keeps the invariant.
LEMMA WriteTempIInv ==
    ASSUME IInv, NEW p \in Procs, WriteTemp(p)
    PROVE  IInv'
  <1> USE DEF IInv
  <1>1. copy[p] = file /\ Accepts(op[p], file) /\ op[p] \in Operations
        /\ file \in Databases /\ ValidDatabase(file)
    BY DEF WriteTemp, CopyIsCurrent, TypeOK, FileStaysLoadable
  <1>2. PICK a \in Picked(op[p], file) :
            /\ temp' = [temp EXCEPT ![p] = Edited(op[p], file, a)]
            /\ reply' = [reply EXCEPT ![p] = Granted(a)]
    BY <1>1 DEF WriteTemp
  <1>3. Edited(op[p], file, a) \in Databases /\ a \in Nat
    BY <1>1, EditedIsValid
  <1>4. TypeOK'
    BY <1>2, <1>3 DEF TypeOK, WriteTemp, Steps, Granted, Replies
  <1>5. MutualExclusion'
    BY DEF MutualExclusion, InCritical, TypeOK, WriteTemp
  <1>6. CopyIsCurrent'
    <2>1. /\ temp'[p] = Edited(op[p], file, a) /\ reply'[p] = Granted(a)
          /\ pc'[p] = "written"
          /\ \A q \in Procs \ {p} : /\ temp'[q] = temp[q] /\ reply'[q] = reply[q]
                                    /\ pc'[q] = pc[q]
          /\ UNCHANGED <<file, op, copy>>
      BY <1>2 DEF TypeOK, WriteTemp
    <2> QED
      BY <1>1, <2>1 DEF CopyIsCurrent
  <1>7. ReplyIsUnset' /\ TempIsFresh'
    BY <1>2 DEF ReplyIsUnset, TempIsFresh, TypeOK, WriteTemp
  <1>8. \A q \in Procs : PendingRelease(q)' => PendingRelease(q)
    BY DEF PendingRelease, TypeOK, WriteTemp
  <1>9. UNCHANGED <<file, leased, op>>
    BY DEF WriteTemp
  <1> QED
    BY <1>4, <1>5, <1>6, <1>7, <1>8, <1>9, FileUntouched

\* Closing the lock descriptor and returning keep the invariant.
LEMMA CloseIInv ==
    ASSUME IInv, NEW p \in Procs, RenameError(p) \/ Close(p) \/ Return(p)
    PROVE  IInv'
  <1> USE DEF IInv, RenameError, Close, Return
  <1>1. TypeOK'
    <2>1. Failed \in Replies
      BY DEF Failed, Replies
    <2> QED
      BY <2>1 DEF TypeOK, Steps
  <1>2. MutualExclusion'
    BY ProcsAssumption DEF MutualExclusion, InCritical, TypeOK
  <1>3. CopyIsCurrent'
    BY DEF CopyIsCurrent, TypeOK
  <1>4. ReplyIsUnset' /\ TempIsFresh'
    BY DEF ReplyIsUnset, TempIsFresh, TypeOK
  <1>5. \A q \in Procs : PendingRelease(q)' => PendingRelease(q)
    BY DEF PendingRelease, TypeOK
  <1> QED
    BY <1>1, <1>2, <1>3, <1>4, <1>5, FileUntouched

\* The death of a process at any point keeps the invariant.
LEMMA CrashIInv ==
    ASSUME IInv, NEW p \in Procs, Crash(p)
    PROVE  IInv'
  <1> USE DEF IInv, Crash
  <1>1. TypeOK'
    <2>1. Failed \in Replies
      BY DEF Failed, Replies
    <2>2. stale' \in [Procs -> 0 .. MaxAttempts]
      BY LimitAssumption DEF TypeOK, TempIsFresh
    <2> QED
      BY <2>1, <2>2 DEF TypeOK, Steps
  <1>2. MutualExclusion'
    BY ProcsAssumption DEF MutualExclusion, InCritical, TypeOK
  <1>3. CopyIsCurrent'
    BY DEF CopyIsCurrent, TypeOK
  <1>4. ReplyIsUnset' /\ TempIsFresh'
    BY DEF ReplyIsUnset, TempIsFresh, TypeOK
  <1>5. \A q \in Procs : PendingRelease(q)' => PendingRelease(q)
    BY DEF PendingRelease, TypeOK
  <1> QED
    BY <1>1, <1>2, <1>3, <1>4, <1>5, FileUntouched

\* The rename that publishes an edit keeps the invariant; so does its failure.
LEMMA PublishIInv ==
    ASSUME IInv, NEW p \in Procs, Publish(p)
    PROVE  IInv'
  <1> DEFINE o == op[p]
  <1> USE DEF IInv
  <1>1. PICK a \in Picked(o, file) : temp[p] = Edited(o, file, a) /\ reply[p] = Granted(a)
    BY DEF Publish, CopyIsCurrent
  <1>2. o \in Operations /\ file \in Databases /\ ValidDatabase(file) /\ Accepts(o, file)
    BY DEF Publish, CopyIsCurrent, TypeOK, FileStaysLoadable
  <1>3. file' = Edited(o, file, a)
    BY <1>1 DEF Publish
  <1>4. file' \in Databases /\ ValidDatabase(file') /\ a \in Nat
    BY <1>2, <1>3, EditedIsValid
  <1>5. leased' = LeasesAfter(o, leased, Granted(a))
    BY <1>1 DEF Publish
  <1>6. UNCHANGED <<lock, op, copy, temp, reply, stale, calls>>
        /\ pc'[p] = "closing" /\ \A q \in Procs \ {p} : pc'[q] = pc[q]
    BY DEF Publish, TypeOK
  <1>7. o.kind \in Kinds /\ o.net \in Nets /\ Granted(a).addr = a
    BY <1>2 DEF Operations, Granted
  <1>8. TypeOK'
    <2>1. leased' \subseteq Nets \X Nat
      BY <1>4, <1>5, <1>7 DEF TypeOK, LeasesAfter
    <2>2. pc' \in [Procs -> Steps]
      BY DEF Publish, TypeOK, Steps
    <2> QED
      BY <1>4, <1>6, <2>1, <2>2 DEF TypeOK
  <1>9. MutualExclusion'
    BY DEF MutualExclusion, InCritical, TypeOK, Publish
  <1>10. CopyIsCurrent'
    <2>1. \A q \in Procs \ {p} : pc[q] \notin {"loaded", "written"}
      BY DEF MutualExclusion, InCritical, Publish
    <2> QED
      BY <1>6, <2>1 DEF CopyIsCurrent
  <1>11. FileStaysLoadable'
    BY <1>4 DEF FileStaysLoadable
  <1>12. ReplyIsUnset' /\ TempIsFresh' /\ PermanentIsKept'
    BY <1>6 DEF ReplyIsUnset, TempIsFresh, PermanentIsKept
  <1>13. LeaseIsRecorded'
    <2> SUFFICES ASSUME NEW x \in leased', x[1] \in Permanent
                 PROVE  file'[x[1]] # NoRecord /\ x[2] \in file'[x[1]].used
      BY DEF LeaseIsRecorded
    <2>1. CASE x \in leased /\ x[1] # o.net
      <3>1. file[x[1]] # NoRecord /\ x[2] \in file[x[1]].used
        BY <2>1 DEF LeaseIsRecorded
      <3>2. file'[x[1]] = file[x[1]]
        BY <1>2, <1>3, <2>1, PermanentAssumption, EditedIsLocal
      <3> QED
        BY <3>1, <3>2
    <2>2. CASE x \in leased /\ x[1] = o.net
      <3>1. file[o.net] # NoRecord /\ x[2] \in file[o.net].used
        BY <2>2 DEF LeaseIsRecorded
      <3>2. o.kind # "delete"
        BY <2>2 DEF PermanentIsKept
      <3>3. o.kind = "release" => x[2] # o.addr
        <4>1. o.kind = "release" => <<o.net, o.addr>> \notin leased
          BY <2>2 DEF ReleaseIsExclusive, PendingRelease, Publish
        <4>2. x = <<x[1], x[2]>>
          BY <2>2 DEF TypeOK
        <4> QED
          BY <2>2, <4>1, <4>2
      <3> HIDE DEF o
      <3> QED
        BY <1>2, <1>3, <2>2, <3>1, <3>2, <3>3, EditedKeepsUsed
    <2>3. CASE x \notin leased
      <3>1. o.kind = "alloc" /\ x = <<o.net, a>>
        BY <1>5, <1>7, <2>3 DEF LeasesAfter
      <3> QED
        BY <1>2, <1>3, <3>1, EditedHasPicked
    <2> QED
      BY <2>1, <2>2, <2>3
  <1>14. ReleaseIsExclusive'
    <2> SUFFICES ASSUME NEW q \in Procs, PendingRelease(q)'
                 PROVE  /\ <<op[q].net, op[q].addr>> \notin leased'
                        /\ file'[op[q].net] # NoRecord
                        /\ op[q].addr \in file'[op[q].net].used
                        /\ \A r \in Procs : r # q /\ PendingRelease(r)' =>
                              <<op[r].net, op[r].addr>> # <<op[q].net, op[q].addr>>
      BY <1>6 DEF ReleaseIsExclusive
    <2>1. q # p /\ \A r \in Procs : PendingRelease(r)' => PendingRelease(r)
      BY <1>6 DEF PendingRelease
    <2>2. /\ <<op[q].net, op[q].addr>> \notin leased
          /\ file[op[q].net] # NoRecord
          /\ op[q].addr \in file[op[q].net].used
          /\ op[q].net \in Permanent
          /\ \A r \in Procs : r # q /\ PendingRelease(r) =>
                <<op[r].net, op[r].addr>> # <<op[q].net, op[q].addr>>
      BY <2>1 DEF ReleaseIsExclusive, PendingRelease
    <2>3. CASE op[q].net # o.net
      <3>1. file'[op[q].net] = file[op[q].net]
        BY <1>2, <1>3, <2>2, <2>3, PermanentAssumption, EditedIsLocal
      <3>2. <<op[q].net, op[q].addr>> \notin leased'
        BY <1>5, <1>7, <2>2, <2>3 DEF LeasesAfter
      <3> QED
        BY <2>1, <2>2, <3>1, <3>2
    <2>4. CASE op[q].net = o.net
      <3>1. o.kind # "delete"
        BY <2>2, <2>4 DEF PermanentIsKept
      <3>2. o.kind = "release" => op[q].addr # o.addr
        <4>1. o.kind = "release" => PendingRelease(p)
          BY <2>2, <2>4 DEF PendingRelease, Publish
        <4> QED
          BY <2>1, <2>2, <2>4, <4>1
      <3>3. o.kind = "alloc" => a # op[q].addr
        <4>1. o.kind = "alloc" => a \notin file[o.net].used
          BY <1>2, EditedHasPicked
        <4> QED
          BY <2>2, <2>4, <4>1
      <3>4. <<op[q].net, op[q].addr>> \notin leased'
        BY <1>5, <1>7, <2>2, <2>4, <3>1, <3>3 DEF LeasesAfter
      <3>5. file'[o.net] # NoRecord /\ op[q].addr \in file'[o.net].used
        <4>1. file[o.net] # NoRecord /\ op[q].addr \in file[o.net].used
          BY <2>2, <2>4
        <4> HIDE DEF o
        <4> QED
          BY <1>2, <1>3, <3>1, <3>2, <4>1, EditedKeepsUsed
      <3> QED
        BY <2>1, <2>2, <2>4, <3>4, <3>5
    <2> QED
      BY <2>3, <2>4
  <1> QED
    BY <1>8, <1>9, <1>10, <1>11, <1>12, <1>13, <1>14

\* The invariant is inductive.
LEMMA NextIInv == IInv /\ [Next]_vars => IInv'
  <1> SUFFICES ASSUME IInv, [Next]_vars PROVE IInv'
    OBVIOUS
  <1>1. CASE UNCHANGED vars
    BY <1>1 DEF IInv, vars, TypeOK, MutualExclusion, InCritical, CopyIsCurrent,
                FileStaysLoadable, LeaseIsRecorded, ReplyIsUnset, TempIsFresh,
                PermanentIsKept, ReleaseIsExclusive, PendingRelease
  <1>2. CASE Next
    <2>1. PICK p \in Procs : Call(p) \/ Advance(p) \/ LockError(p) \/ Crash(p)
      BY <1>2 DEF Next
    <2>2. CASE Call(p)
      BY <2>2, CallIInv
    <2>3. CASE Advance(p) \/ LockError(p)
      BY <2>3, LockIInv, LoadIInv, ReadIInv, WriteTempIInv, PublishIInv, CloseIInv
      DEF Advance
    <2>4. CASE Crash(p)
      BY <2>4, CrashIInv
    <2> QED
      BY <2>1, <2>2, <2>3, <2>4
  <1> QED
    BY <1>1, <1>2

\* The inductive invariant holds of every reachable state of the lock, load,
\* edit, rename protocol of docker/network.c.
THEOREM Invariance == Spec => []IInv
  <1>1. Init => IInv
    BY InitIInv
  <1>2. IInv /\ [Next]_vars => IInv'
    BY NextIInv
  <1> QED
    BY <1>1, <1>2, PTL DEF Spec

\* Type correctness; in particular a process never leaves more temporary files
\* behind than write_network_records has names for.
THEOREM TypeCorrect == Spec => []TypeOK
  <1>1. IInv => TypeOK
    BY DEF IInv
  <1> QED
    BY <1>1, Invariance, PTL

\* At most one process is between lock_network_state and close(lock_fd).
THEOREM Exclusion == Spec => []MutualExclusion
  <1>1. IInv => MutualExclusion
    BY DEF IInv
  <1> QED
    BY <1>1, Invariance, PTL

\* No writer of the networks file loses another writer's update.
THEOREM NoLostUpdate == Spec => []CopyIsCurrent
  <1>1. IInv => CopyIsCurrent
    BY DEF IInv
  <1> QED
    BY <1>1, Invariance, PTL

\* load_network_records never rejects a file the program itself wrote.
THEOREM Loadable == Spec => []FileStaysLoadable
  <1>1. IInv => FileStaysLoadable
    BY DEF IInv
  <1> QED
    BY <1>1, Invariance, PTL

\* An address in use on a network that nobody removes stays recorded.
THEOREM Recorded == Spec => []LeaseIsRecorded
  <1>1. IInv => LeaseIsRecorded
    BY DEF IInv
  <1> QED
    BY <1>1, Invariance, PTL

\* alloc_new_ip never hands out an address that is in use on such a network.
THEOREM NeverLeasedTwice == Spec => NoDoubleLease
  <1>1. ASSUME IInv, NEW p \in Procs, Publish(p), op[p].kind = "alloc",
               op[p].net \in Permanent
        PROVE  <<op[p].net, reply[p].addr>> \notin leased
    <2>1. PICK a \in Picked(op[p], file) : reply[p] = Granted(a)
      BY <1>1 DEF IInv, Publish, CopyIsCurrent
    <2>2. op[p] \in Operations /\ file \in Databases /\ Accepts(op[p], file)
      BY <1>1 DEF IInv, Publish, CopyIsCurrent, TypeOK
    <2>3. a \notin file[op[p].net].used /\ reply[p].addr = a
      BY <1>1, <2>1, <2>2, EditedHasPicked DEF Granted
    <2> QED
      BY <1>1, <2>3 DEF IInv, LeaseIsRecorded
  <1>2. IInv /\ [Next]_vars =>
          [\A p \in Procs : Publish(p) /\ op[p].kind = "alloc" /\ op[p].net \in Permanent
              => <<op[p].net, reply[p].addr>> \notin leased]_vars
    BY <1>1
  <1> QED
    BY <1>2, Invariance, PTL DEF Spec, NoDoubleLease

-----------------------------------------------------------------------------
(***************************************************************************)
(* Refinement of Ipam: the rename is the instant a successful writer takes *)
(* effect, the load that of a reader; every other step of the protocol is  *)
(* a call, a failure, a return, a death or invisible.                      *)
(***************************************************************************)

\* Only p's position and reply change in a step of p.
LEMMA MappedStep ==
    ASSUME TypeOK, NEW p \in Procs, NEW x \in Steps, NEW y,
           pc' = [pc EXCEPT ![p] = x], reply' = [reply EXCEPT ![p] = y]
    PROVE  /\ CallState' = [CallState EXCEPT ![p] = CallState'[p]]
           /\ VisibleReply' = [VisibleReply EXCEPT ![p] = VisibleReply'[p]]
           /\ CallState'[p] = CASE x = "idle" -> "idle"
                                [] x \in {"closing", "done"} -> "done"
                                [] OTHER -> "busy"
           /\ VisibleReply'[p] = IF x = "written" THEN Failed ELSE y
  BY DEF TypeOK, CallState, VisibleReply

\* A step that leaves the file, the leases and the call alone, and p in the
\* same abstract state with the same visible reply, is invisible.
LEMMA InvisibleStep ==
    ASSUME TypeOK, NEW p \in Procs, UNCHANGED <<file, leased, op>>,
           CallState' = [CallState EXCEPT ![p] = CallState[p]],
           VisibleReply' = [VisibleReply EXCEPT ![p] = VisibleReply[p]]
    PROVE  UNCHANGED Abstract!ipamVars
  BY DEF Abstract!ipamVars, CallState, VisibleReply

\* Module Ipam speaks of the same records, calls and replies.
LEMMA SameData ==
    /\ Abstract!Operations = Operations
    /\ Abstract!Failed = Failed
    /\ Abstract!EmptyDatabase = EmptyDatabase
  BY DEF Abstract!Operations, Operations, Abstract!Kinds, Kinds, Abstract!Failed,
         Failed, Abstract!EmptyDatabase, EmptyDatabase

\* The initial states of the file protocol are initial states of the table.
LEMMA InitRefines == Init => Abstract!IpamInit
  <1> SUFFICES ASSUME Init PROVE Abstract!IpamInit
    OBVIOUS
  <1>1. op \in [Procs -> Operations]
    BY InitIInv DEF IInv, TypeOK
  <1>2. CallState = [p \in Procs |-> "idle"] /\ VisibleReply = [p \in Procs |-> Failed]
    BY DEF Init, CallState, VisibleReply
  <1> QED
    BY <1>1, <1>2, SameData DEF Init, Abstract!IpamInit

\* Entering a call that the contract allows is an Invoke step.
LEMMA EnterRefines ==
    ASSUME IInv, NEW p \in Procs, NEW o \in Operations, Enter(p, o),
           o.kind = "delete" => o.net \notin Permanent,
           o.kind = "release" => <<o.net, o.addr>> \in leased,
           leased' = IF o.kind = "release" THEN leased \ {<<o.net, o.addr>>} ELSE leased
    PROVE  Abstract!Invoke(p)
  <1>1. TypeOK /\ pc[p] = "idle" /\ "called" \in Steps
    BY DEF IInv, Enter, Steps
  <1>2. op'[p] = o /\ op' = [op EXCEPT ![p] = op'[p]] /\ file' = file
    BY <1>1 DEF Enter, TypeOK
  <1>3. CallState[p] = "idle"
    BY <1>1 DEF CallState
  <1>4. /\ CallState' = [CallState EXCEPT ![p] = "busy"]
        /\ VisibleReply' = [VisibleReply EXCEPT ![p] = Failed]
    BY <1>1, MappedStep DEF Enter
  <1> QED
    BY <1>2, <1>3, <1>4, SameData DEF Abstract!Invoke, Abstract!MayInvoke

\* Each of the five calls is an Invoke step of the table.
LEMMA CallRefines ==
    ASSUME IInv, NEW p \in Procs, Call(p)
    PROVE  Abstract!Invoke(p)
  <1>1. AnyCidr \in Cidrs
    BY CidrAssumption DEF AnyCidr
  <1>2. CASE CallRelease(p)
    <2>1. PICK x \in leased : /\ Enter(p, Request("release", x[1], AnyCidr, x[2]))
                              /\ leased' = leased \ {x}
      BY <1>2 DEF CallRelease
    <2>2. x[1] \in Nets /\ x[2] \in Nat /\ x = <<x[1], x[2]>>
      BY DEF IInv, TypeOK
    <2> DEFINE o == Request("release", x[1], AnyCidr, x[2])
    <2>3. o \in Operations /\ o.kind = "release" /\ o.net = x[1] /\ o.addr = x[2]
      BY <1>1, <2>2 DEF Request, Operations, Kinds
    <2>4. <<o.net, o.addr>> = x
      BY <2>2, <2>3
    <2> HIDE DEF o
    <2> QED
      BY <2>1, <2>3, <2>4, EnterRefines DEF o
  <1>3. CASE ~CallRelease(p)
    <2>1. PICK k \in {"add", "delete", "alloc", "read"}, n \in Nets, c \in Cidrs :
             /\ Enter(p, Request(k, n, c, 0))
             /\ k = "delete" => n \notin Permanent
             /\ UNCHANGED leased
      BY <1>1, <1>3 DEF Call, CallAdd, CallDelete, CallAlloc, CallRead
    <2> DEFINE o == Request(k, n, c, 0)
    <2>2. o \in Operations /\ o.kind = k /\ o.net = n
      BY DEF Request, Operations, Kinds
    <2> HIDE DEF o
    <2> QED
      BY <2>1, <2>2, EnterRefines DEF o
  <1> QED
    BY <1>2, <1>3

\* The rename is the instant at which a writer takes effect.
LEMMA PublishRefines ==
    ASSUME IInv, NEW p \in Procs, Publish(p)
    PROVE  Abstract!Commit(p)
  <1>1. TypeOK /\ pc[p] = "written" /\ "closing" \in Steps
    BY DEF IInv, Publish, Steps
  <1>2. PICK a \in Picked(op[p], file) :
           temp[p] = Edited(op[p], file, a) /\ reply[p] = Granted(a)
    BY DEF IInv, Publish, CopyIsCurrent
  <1>3. Accepts(op[p], file) /\ op[p] \in Operations /\ file' = Edited(op[p], file, a)
    BY <1>2 DEF IInv, Publish, CopyIsCurrent, TypeOK
  <1>4. /\ pc' = [pc EXCEPT ![p] = "closing"]
        /\ reply' = [reply EXCEPT ![p] = Granted(a)]
        /\ UNCHANGED op
    BY <1>1, <1>2 DEF Publish, TypeOK
  <1>5. /\ CallState' = [CallState EXCEPT ![p] = "done"]
        /\ VisibleReply' = [VisibleReply EXCEPT ![p] = VisibleReply'[p]]
        /\ VisibleReply'[p] = Granted(a)
    BY <1>1, <1>4, MappedStep
  <1>6. CallState[p] = "busy"
    BY <1>1 DEF CallState
  <1>7. Abstract!Effect(op[p], file, file', Granted(a))
    <2>1. op[p].kind \in Kinds /\ Granted(a).addr = a
      BY <1>3 DEF Operations, Granted
    <2>2. Granted(a) = Abstract!Granted(a) /\ Granted(0) = Abstract!Succeeded
      BY DEF Granted, Abstract!Granted, Abstract!Succeeded
    <2>3. CASE op[p].kind = "add"
      <3>1. file[op[p].net] = NoRecord
        BY <1>3, <2>3 DEF Accepts, CanAdd
      <3>2. file' = Abstract!WithAdded(file, op[p].net, op[p].cidr)
        BY <1>3, <2>3 DEF Edited, WithAdded, Abstract!WithAdded
      <3>3. a = 0
        BY <2>3 DEF Picked
      <3> QED
        BY <2>2, <2>3, <3>1, <3>2, <3>3 DEF Abstract!Effect
    <2>4. CASE op[p].kind = "delete"
      <3>1. file' = Abstract!WithDeleted(file, op[p].net)
        BY <1>3, <2>4 DEF Edited, WithDeleted, Abstract!WithDeleted
      <3>2. a = 0
        BY <2>4 DEF Picked
      <3> QED
        BY <2>2, <2>4, <3>1, <3>2 DEF Abstract!Effect
    <2>5. CASE op[p].kind = "alloc"
      <3>1. a \in Abstract!Free(file[op[p].net])
        BY <2>5 DEF Picked, Free, Candidates, Abstract!Free, Abstract!Candidates
      <3>2. file[op[p].net] # NoRecord
        BY <1>3, <2>5 DEF Accepts, CanAlloc
      <3>3. file' = Abstract!WithUsed(file, op[p].net, a)
        BY <1>3, <2>5 DEF Edited, WithUsed, WithUsedSet, Abstract!WithUsed,
                          Abstract!WithUsedSet
      <3> QED
        BY <2>1, <2>2, <2>5, <3>1, <3>2, <3>3 DEF Abstract!Effect
    <2>6. CASE op[p].kind = "release"
      <3>1. file[op[p].net] # NoRecord
        BY <1>3, <2>6 DEF Accepts
      <3>2. file' = Abstract!WithReleased(file, op[p].net, op[p].addr)
        BY <1>3, <2>6 DEF Edited, WithReleased, WithUsedSet, Abstract!WithReleased,
                          Abstract!WithUsedSet
      <3>3. a = 0
        BY <2>6 DEF Picked
      <3> QED
        BY <2>2, <2>6, <3>1, <3>2, <3>3 DEF Abstract!Effect
    <2>7. op[p].kind # "read"
      BY <1>3 DEF Accepts
    <2> QED
      BY <2>1, <2>3, <2>4, <2>5, <2>6, <2>7 DEF Kinds
  <1>8. leased' = Abstract!LeasesAfter(op[p], leased, Granted(a))
    BY <1>2 DEF Publish, LeasesAfter, Abstract!LeasesAfter
  <1> QED
    BY <1>4, <1>5, <1>6, <1>7, <1>8 DEF Abstract!Commit

\* The load of a reader is the instant at which it takes effect.
LEMMA ReadRefines ==
    ASSUME IInv, NEW p \in Procs, Read(p)
    PROVE  Abstract!Commit(p) \/ Abstract!Fail(p)
  <1>1. TypeOK /\ pc[p] = "called" /\ "done" \in Steps /\ op[p].kind = "read"
        /\ UNCHANGED <<file, leased, op>> /\ pc' = [pc EXCEPT ![p] = "done"]
    BY DEF IInv, Read, Steps
  <1>2. CallState[p] = "busy" /\ VisibleReply[p] = reply[p]
    BY <1>1 DEF CallState, VisibleReply
  <1>3. CASE file[op[p].net] # NoRecord
             /\ reply' = [reply EXCEPT ![p] = Found(file[op[p].net])]
    <2>1. /\ CallState' = [CallState EXCEPT ![p] = "done"]
          /\ VisibleReply' = [VisibleReply EXCEPT ![p] = VisibleReply'[p]]
          /\ VisibleReply'[p] = Found(file[op[p].net])
      BY <1>1, <1>3, MappedStep
    <2>2. Abstract!Effect(op[p], file, file', Found(file[op[p].net]))
      BY <1>1, <1>3 DEF Abstract!Effect, Abstract!Found, Found
    <2>3. leased' = Abstract!LeasesAfter(op[p], leased, Found(file[op[p].net]))
      BY <1>1 DEF Abstract!LeasesAfter
    <2> QED
      BY <1>1, <1>2, <2>1, <2>2, <2>3 DEF Abstract!Commit
  <1>4. CASE UNCHANGED reply
    <2>1. reply' = [reply EXCEPT ![p] = reply[p]]
      BY <1>1, <1>4 DEF TypeOK
    <2>2. /\ CallState' = [CallState EXCEPT ![p] = "done"]
          /\ VisibleReply' = [VisibleReply EXCEPT ![p] = VisibleReply[p]]
      BY <1>1, <1>2, <2>1, MappedStep
    <2>3. VisibleReply' = VisibleReply
      BY <2>2 DEF VisibleReply
    <2> QED
      BY <1>1, <1>2, <2>2, <2>3 DEF Abstract!Fail
  <1> QED
    BY <1>3, <1>4 DEF Read

\* The remaining steps: a failing call ends, a call goes on unseen, returns or
\* dies with its process.
LEMMA OtherStepsRefine ==
    ASSUME IInv, NEW p \in Procs,
           \/ Lock(p) \/ LockError(p) \/ Load(p) \/ LoadError(p) \/ WriteTemp(p)
           \/ WriteError(p) \/ RenameError(p) \/ Close(p) \/ Return(p) \/ Crash(p)
    PROVE  \/ Abstract!Fail(p) \/ Abstract!Return(p) \/ Abstract!Die(p)
           \/ UNCHANGED Abstract!ipamVars
  <1>1. TypeOK /\ Failed = Abstract!Failed
    BY SameData DEF IInv
  <1>2. UNCHANGED <<file, leased, op>>
    BY DEF Lock, LockError, Load, LoadError, WriteTemp, WriteError, RenameError,
           Close, Return, Crash
  <1>3. PICK x \in Steps, y \in {reply'[p]} :
           pc' = [pc EXCEPT ![p] = x] /\ reply' = [reply EXCEPT ![p] = y]
    <2>1. reply = [reply EXCEPT ![p] = reply[p]]
      BY <1>1 DEF TypeOK
    <2> QED
      BY <2>1 DEF Lock, LockError, Load, LoadError, WriteTemp, WriteError, RenameError,
                  Close, Return, Crash, Steps
  <1>4. x = pc'[p] /\ y = reply'[p]
    BY <1>1, <1>3 DEF TypeOK
  <1>5. /\ CallState' = [CallState EXCEPT ![p] = CallState'[p]]
        /\ VisibleReply' = [VisibleReply EXCEPT ![p] = VisibleReply'[p]]
        /\ CallState'[p] = CASE x = "idle" -> "idle"
                             [] x \in {"closing", "done"} -> "done"
                             [] OTHER -> "busy"
        /\ VisibleReply'[p] = IF x = "written" THEN Failed ELSE y
    BY <1>1, <1>3, MappedStep
  <1>6. /\ CallState[p] = CASE pc[p] = "idle" -> "idle"
                            [] pc[p] \in {"closing", "done"} -> "done"
                            [] OTHER -> "busy"
        /\ VisibleReply[p] = IF pc[p] = "written" THEN Failed ELSE reply[p]
        /\ [VisibleReply EXCEPT ![p] = VisibleReply[p]] = VisibleReply
    BY DEF CallState, VisibleReply
  <1>7. CASE Lock(p) \/ WriteTemp(p) \/ Close(p)
    <2>1. CallState'[p] = CallState[p]
      BY <1>4, <1>5, <1>6, <1>7, <1>1 DEF Lock, WriteTemp, Close, TypeOK
    <2>2. VisibleReply'[p] = VisibleReply[p]
      <3>1. reply[p] = Failed \/ reply'[p] = reply[p]
        BY <1>7 DEF IInv, ReplyIsUnset, Lock, WriteTemp, Close
      <3> QED
        BY <1>1, <1>4, <1>5, <1>6, <1>7, <3>1
        DEF Lock, WriteTemp, Close, TypeOK, IInv, ReplyIsUnset
    <2> QED
      BY <1>1, <1>2, <1>5, <2>1, <2>2, InvisibleStep
  <1>8. CASE LockError(p) \/ Load(p) \/ LoadError(p) \/ WriteError(p) \/ RenameError(p)
    <2>1. CallState[p] = "busy" /\ x \in {"loaded", "closing", "done"}
      BY <1>1, <1>4, <1>6, <1>8
      DEF LockError, Load, LoadError, WriteError, RenameError, TypeOK
    <2>2. VisibleReply'[p] = VisibleReply[p]
      BY <1>1, <1>4, <1>5, <1>6, <1>8
      DEF LockError, Load, LoadError, WriteError, RenameError, TypeOK
    <2>3. VisibleReply' = VisibleReply
      BY <1>5, <1>6, <2>2
    <2>4. CASE x = "loaded"
      <3>1. CallState'[p] = CallState[p]
        BY <1>5, <2>1, <2>4
      <3> QED
        BY <1>1, <1>2, <1>5, <2>2, <3>1, InvisibleStep
    <2>5. CASE x # "loaded"
      <3>1. CallState'[p] = "done"
        BY <1>5, <2>1, <2>5
      <3> QED
        BY <1>2, <1>5, <2>1, <2>3, <3>1 DEF Abstract!Fail
    <2> QED
      BY <2>4, <2>5
  <1>9. CASE Return(p)
    <2>1. CallState[p] = "done" /\ CallState'[p] = "idle"
      BY <1>1, <1>4, <1>5, <1>6, <1>9 DEF Return, TypeOK
    <2>2. VisibleReply'[p] = VisibleReply[p]
      BY <1>1, <1>4, <1>5, <1>6, <1>9 DEF Return, TypeOK
    <2> QED
      BY <1>2, <1>5, <1>6, <2>1, <2>2 DEF Abstract!Return
  <1>10. CASE Crash(p)
    <2>1. CallState[p] # "idle" /\ CallState'[p] = "idle"
      BY <1>1, <1>4, <1>5, <1>6, <1>10 DEF Crash, TypeOK
    <2>2. VisibleReply'[p] = Failed
      BY <1>1, <1>4, <1>5, <1>10 DEF Crash, TypeOK
    <2> QED
      BY <1>1, <1>2, <1>5, <2>1, <2>2 DEF Abstract!Die
  <1> QED
    BY <1>7, <1>8, <1>9, <1>10

\* The flock protocol over the networks file implements the atomic table.
THEOREM Refinement == Spec => ImplementsIpam
  <1>1. Init => Abstract!IpamInit
    BY InitRefines
  <1>2. IInv /\ [Next]_vars => [Abstract!IpamNext]_(Abstract!ipamVars)
    <2> SUFFICES ASSUME IInv, [Next]_vars
                 PROVE  [Abstract!IpamNext]_(Abstract!ipamVars)
      OBVIOUS
    <2>1. CASE UNCHANGED vars
      BY <2>1 DEF vars, Abstract!ipamVars, CallState, VisibleReply
    <2>2. CASE Next
      <3>1. PICK p \in Procs : Call(p) \/ Advance(p) \/ LockError(p) \/ Crash(p)
        BY <2>2 DEF Next
      <3>2. \/ Abstract!Invoke(p) \/ Abstract!Commit(p) \/ Abstract!Fail(p)
            \/ Abstract!Return(p) \/ Abstract!Die(p) \/ UNCHANGED Abstract!ipamVars
        BY <3>1, CallRefines, PublishRefines, ReadRefines, OtherStepsRefine DEF Advance
      <3> QED
        BY <3>2 DEF Abstract!IpamNext
    <2> QED
      BY <2>1, <2>2
  <1> QED
    BY <1>1, <1>2, Invariance, PTL DEF Spec, ImplementsIpam, Abstract!IpamSpec
=============================================================================
