--------------------------- MODULE NetworkRecords ---------------------------
(***************************************************************************)
(* The contents of the networks file (CONTAINER_NETWORKS_FILE): one record *)
(* per network with its CIDR and the addresses handed out, and the checks  *)
(* and in-memory edits the code performs on a loaded array of records.     *)
(*                                                                         *)
(* A record array is a function from network names to records or NoRecord: *)
(* td_network_record_names_are_unique makes the order and repetition of    *)
(* records unobservable.  used_ips[0..used_ip_count) is a set:             *)
(* td_parse_network_record rejects a repeated address.                     *)
(***************************************************************************)
EXTENDS Naturals, FiniteSets

CONSTANTS
    Nets,        \* network names
    Cidrs,       \* the CIDRs a caller may ask for, as [min, max] ranges
    MaxRecords,  \* TD_NETWORK_MAX_RECORDS
    MaxUsed,     \* TD_NETWORK_MAX_USED_IPS
    NoRecord     \* "this name has no record"

\* validate_cidr accepts prefixes up to 30 only, so a range holds at least four
\* addresses; 32-bit wrap-around of minimum + 2 is thereby excluded.
ASSUME CidrAssumption ==
    /\ Cidrs # {}
    /\ \A c \in Cidrs : c \in [min : Nat, max : Nat] /\ c.min + 3 <= c.max

ASSUME BoundAssumption == MaxRecords \in Nat /\ MaxUsed \in Nat

ASSUME NetsAssumption == IsFiniteSet(Nets)

Record == [cidr : Cidrs, used : SUBSET Nat]

ASSUME NoRecordAssumption == NoRecord \notin Record

Databases == [Nets -> Record \cup {NoRecord}]

EmptyDatabase == [n \in Nets |-> NoRecord]

Tracked(db) == {n \in Nets : db[n] # NoRecord}

\* What td_parse_network_record and validate_allocated_addresses accept.
ValidRecord(r) ==
    /\ \A a \in r.used : r.cidr.min + 1 < a /\ a < r.cidr.max
    /\ IsFiniteSet(r.used)
    /\ Cardinality(r.used) <= MaxUsed

\* What load_network_records accepts of a whole file.
ValidDatabase(db) ==
    /\ Cardinality(Tracked(db)) <= MaxRecords
    /\ \A n \in Tracked(db) : ValidRecord(db[n])

(***************************************************************************)
(* alloc_new_ip: candidates run from minimum + 2 (after the network        *)
(* address and the gateway) up to, not including, the broadcast address.   *)
(***************************************************************************)
Candidates(cidr) == (cidr.min + 2) .. (cidr.max - 1)

\* Mutant of Free: the search does not skip used addresses.
FreeOrUsed(r) == Candidates(r.cidr)

Free(r) == Candidates(r.cidr) \ r.used

IsFirstFree(r, a) == a \in Free(r) /\ \A b \in Free(r) : a <= b

\* Mutant of CanAlloc: one address more than there is room for.
CanAllocOneMore(db, n) ==
    /\ db[n] # NoRecord
    /\ Cardinality(db[n].used) <= MaxUsed
    /\ Free(db[n]) # {}

CanAlloc(db, n) ==
    /\ db[n] # NoRecord
    /\ Cardinality(db[n].used) < MaxUsed
    /\ Free(db[n]) # {}

CanAdd(db, n) ==
    /\ Cardinality(Tracked(db)) < MaxRecords
    /\ db[n] = NoRecord

WithAdded(db, n, cidr) == [db EXCEPT ![n] = [cidr |-> cidr, used |-> {}]]

\* delete_network_info succeeds, and rewrites the file, when nothing matches.
WithDeleted(db, n) == [db EXCEPT ![n] = NoRecord]

WithUsedSet(db, n, u) == [db EXCEPT ![n] = [cidr |-> db[n].cidr, used |-> u]]

\* Mutant of WithUsed: the new address is written over the others.
WithOnlyUsed(db, n, a) == WithUsedSet(db, n, {a})

WithUsed(db, n, a) == WithUsedSet(db, n, db[n].used \cup {a})

WithReleased(db, n, a) == WithUsedSet(db, n, db[n].used \ {a})

(***************************************************************************)
(* The calls: add_network_info, delete_network_info, alloc_new_ip,         *)
(* release_used_ip, and "read" for the lock-free readers.  The fields a    *)
(* call does not use hold AnyCidr and 0.  A reply carries the return code, *)
(* the address of an allocation and the record of a read.                  *)
(***************************************************************************)
Kinds == {"add", "delete", "alloc", "release", "read"}
Operations == [kind : Kinds, net : Nets, cidr : Cidrs, addr : Nat]
Replies == [ok : BOOLEAN, addr : Nat, rec : Record \cup {NoRecord}]

Failed == [ok |-> FALSE, addr |-> 0, rec |-> NoRecord]
Granted(a) == [ok |-> TRUE, addr |-> a, rec |-> NoRecord]
Found(r) == [ok |-> TRUE, addr |-> 0, rec |-> r]
Succeeded == Granted(0)

AnyCidr == CHOOSE c \in Cidrs : TRUE

Request(kind, n, cidr, a) == [kind |-> kind, net |-> n, cidr |-> cidr, addr |-> a]
=============================================================================
