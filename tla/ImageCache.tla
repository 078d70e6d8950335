----------------------------- MODULE ImageCache -----------------------------
(***************************************************************************)
(* The read-only layer of a container (create_readonly_layer): a tar image *)
(* is extracted once, into a directory named by the SHA-256 of the file,   *)
(* and every run of the same image shares that directory as its lowerdir.  *)
(* There is no lock: runs extract into temporary directories of their own  *)
(* and publish by rename.                                                  *)
(*                                                                         *)
(* The digest of a file is its content itself (no collisions).  A          *)
(* directory is the set of archives that files in it come from, and        *)
(* whether the last extraction into it was completed.  A process is its    *)
(* PID: a process that begins again has got the PID of an earlier one.     *)
(***************************************************************************)
EXTENDS Naturals, FiniteSets

CONSTANTS
    Procs,        \* PIDs of runs
    Images,       \* paths of tar images
    Folders,      \* paths of directories given as images
    Tars,         \* contents a file can have
    Unsafe,       \* archives with an entry that td_archive_entry_is_safe refuses
    Broken,       \* contents that tar rejects
    Empty,        \* archives without an entry
    ListingSize,  \* bytes that tar -tf prints
    MaxCapture,   \* MAX_CAPTURE_SIZE
    Cut,          \* Cut[t]: what a read error leaves of t
    NoDir,        \* no such directory
    NoKey,        \* not hashed yet
    MaxRuns,      \* bound: runs
    MaxFaults,    \* bound: failing calls
    MaxCrashes,   \* bound: killed processes
    MaxChanges    \* bound: image files replaced

ASSUME ContentAssumption ==
    /\ Unsafe \cup Broken \cup Empty \subseteq Tars
    /\ ListingSize \in [Tars -> Nat] /\ MaxCapture \in Nat
    /\ Cut \in [Tars -> Tars]

ASSUME KeyAssumption ==
    /\ NoKey \notin Tars /\ Images \cap Folders = {}
    /\ NoDir \notin [from : SUBSET Tars, whole : BOOLEAN]

ASSUME LimitAssumption == {MaxRuns, MaxFaults, MaxCrashes, MaxChanges} \subseteq Nat

VARIABLES
    file,    \* file[i]: what the image file i contains
    runtime, \* the runtime directories exist
    cache,   \* cache[k]: images/<k>
    temp,    \* temp[d]: images/<k>.tmp.<pid>
    errno,   \* what the file system answers to a rename onto a filled directory
    pc,      \* pc[p]: where p is
    image,   \* image[p]: the image it was given
    key,     \* key[p]: image_hash
    source,  \* source[p]: what its tar -xf opened
    hurt,    \* processes one of whose own calls failed
    count    \* events so far

disk == <<file, runtime, cache, temp, errno>>
frame == <<image, key, source>>
vars == <<disk, pc, frame, hurt, count>>

Directories == [from : SUBSET Tars, whole : BOOLEAN]
Resting == {"idle", "ok", "failed"}
Places == Resting \cup {"dirs", "mkdir", "hash", "lookup", "clear", "make", "list",
    "extract", "fill", "publish", "drop", "abandon"}
Events == {"run", "fault", "short", "crash", "change", "swap"}

TypeOK ==
    /\ file \in [Images -> Tars]
    /\ runtime \in BOOLEAN
    /\ cache \in [Tars -> Directories \cup {NoDir}]
    /\ temp \in [Tars \X Procs -> Directories \cup {NoDir}]
    /\ errno \in {"EEXIST", "ENOTEMPTY"}
    /\ pc \in [Procs -> Places]
    /\ image \in [Procs -> Images \cup Folders]
    /\ key \in [Procs -> Tars \cup {NoKey}]
    /\ source \in [Procs -> Tars \cup {NoKey}]
    /\ hurt \in SUBSET Procs
    /\ count \in [Events -> Nat]
    /\ count["run"] <= MaxRuns
    /\ \A p \in Procs : pc[p] \in {"lookup", "clear", "make", "list", "extract", "fill", "publish"}
                            => key[p] \in Tars

Init ==
    /\ file \in [Images -> Tars]
    /\ runtime \in BOOLEAN
    /\ cache = [k \in Tars |-> NoDir]
    /\ temp = [d \in Tars \X Procs |-> NoDir]
    /\ errno \in {"EEXIST", "ENOTEMPTY"}
    /\ pc = [p \in Procs |-> "idle"]
    /\ image \in [Procs -> Folders]
    /\ key = [p \in Procs |-> NoKey]
    /\ source = [p \in Procs |-> NoKey]
    /\ hurt = {}
    /\ count = [e \in Events |-> 0]

-----------------------------------------------------------------------------
At(p, from, to) == pc[p] = from /\ pc' = [pc EXCEPT ![p] = to]

Counted(e, max) == count[e] < max /\ count' = [count EXCEPT ![e] = @ + 1]

\* p goes on and changes nothing.
Moves(p, from, to) == At(p, from, to) /\ UNCHANGED <<disk, frame, hurt, count>>

\* A call of p fails without effect.
Fault(p, from, to) ==
    /\ At(p, from, to)
    /\ hurt' = hurt \cup {p}
    /\ Counted("fault", MaxFaults)
    /\ UNCHANGED <<disk, frame>>

\* temporary_dir.
TempOf(p) == <<key[p], p>>

\* The temporary directory becomes d.
SetTemp(p, from, to, d) ==
    /\ At(p, from, to)
    /\ temp' = [temp EXCEPT ![TempOf(p)] = d]
    /\ UNCHANGED <<file, runtime, cache, errno, frame, hurt, count>>

-----------------------------------------------------------------------------
Begin(p, i) ==
    /\ pc[p] \in Resting
    /\ Counted("run", MaxRuns)
    /\ pc' = [pc EXCEPT ![p] = "dirs"]
    /\ image' = [image EXCEPT ![p] = i]
    /\ key' = [key EXCEPT ![p] = NoKey]
    /\ source' = [source EXCEPT ![p] = NoKey]
    /\ hurt' = hurt \ {p}
    /\ UNCHANGED disk

\* init_runtime_dirs: path_exist ...
FindDirs(p) ==
    \/ runtime /\ Moves(p, "dirs", "hash")
    \/ ~runtime /\ Moves(p, "dirs", "mkdir")

\* ... then make_path, whose mkdir fails when another run was quicker.  The
\* five directories are one: each is checked and made alike.
MakeDirs(p) ==
    \/ /\ ~runtime
       /\ At(p, "mkdir", "hash")
       /\ runtime' = TRUE
       /\ UNCHANGED <<file, cache, temp, errno, frame, hurt, count>>
    \/ runtime /\ Moves(p, "mkdir", "failed")
    \/ Fault(p, "mkdir", "failed")

\* is_folder: a directory is used as it is.
UseFolder(p) == image[p] \in Folders /\ Moves(p, "hash", "ok")

\* Mutant of Hash: the digest of nothing.
HashNothing(p) ==
    /\ At(p, "hash", "lookup") /\ image[p] \in Images
    /\ key' = [key EXCEPT ![p] = CHOOSE t \in Tars : TRUE]
    /\ UNCHANGED <<disk, image, source, hurt, count>>

\* Mutant of Hash: a NULL digest is not noticed.
HashUnchecked(p) == image[p] \in Images /\ Fault(p, "hash", "lookup")

\* calculate_sha256 takes a read error for the end of the file.
Hash(p) ==
    /\ image[p] \in Images
    /\ \/ /\ At(p, "hash", "lookup")
          /\ \/ key' = [key EXCEPT ![p] = file[image[p]]] /\ UNCHANGED count
             \/ /\ key' = [key EXCEPT ![p] = Cut[file[image[p]]]]
                /\ Counted("short", MaxFaults)
          /\ UNCHANGED <<disk, image, source, hurt>>
       \/ Fault(p, "hash", "failed")

\* An extracted image is used again.
Lookup(p) ==
    /\ pc[p] = "lookup"
    /\ \/ cache[key[p]] # NoDir /\ Moves(p, "lookup", "ok")
       \/ cache[key[p]] = NoDir /\ Moves(p, "lookup", "clear")

\* Mutant of ClearTemp: the leftovers stay.
ClearTempNot(p) == Moves(p, "clear", "make")

\* remove_dir of what an earlier process of this PID left.
ClearTemp(p) == SetTemp(p, "clear", "make", NoDir) \/ Fault(p, "clear", "failed")

\* make_path, which is content with a directory that exists.
MakeTemp(p) ==
    \/ SetTemp(p, "make", "list", IF temp[TempOf(p)] = NoDir
                                  THEN [from |-> {}, whole |-> FALSE]
                                  ELSE temp[TempOf(p)])
    \/ Fault(p, "make", "failed")

\* td_capture_command doubles its buffer up to MAX_CAPTURE_SIZE and stops once
\* only the byte for the final NUL is left.
Captured(size) == size + 1 < MaxCapture

\* What extract_tar lets pass.
Acceptable(t) == t \notin Broken /\ Captured(ListingSize[t]) /\ t \notin Unsafe

\* extract_tar lists the archive and looks at every entry ...
List(p) ==
    /\ pc[p] = "list"
    /\ \/ Acceptable(file[image[p]]) /\ Moves(p, "list", "extract")
       \/ ~Acceptable(file[image[p]]) /\ Moves(p, "list", "abandon")
       \/ Fault(p, "list", "abandon")

\* ... then opens it again ...
Extract(p) ==
    \/ /\ At(p, "extract", "fill")
       /\ source' = [source EXCEPT ![p] = file[image[p]]]
       /\ temp' = [temp EXCEPT ![TempOf(p)] =
                      [from |-> @.from \cup ({file[image[p]]} \ Empty), whole |-> FALSE]]
       /\ UNCHANGED <<file, runtime, cache, errno, image, key, hurt, count>>
    \/ Fault(p, "extract", "abandon")

\* ... and writes its files.
Fill(p) ==
    /\ pc[p] = "fill"
    /\ \/ /\ source[p] \notin Broken
          /\ SetTemp(p, "fill", "publish", [temp[TempOf(p)] EXCEPT !.whole = TRUE])
       \/ source[p] \in Broken /\ Moves(p, "fill", "abandon")
       \/ Fault(p, "fill", "abandon")

\* rename replaces an empty directory and no other.
Filled(k) == cache[k] # NoDir /\ cache[k].from # {}

Renamed(p) ==
    /\ At(p, "publish", "ok")
    /\ cache' = [cache EXCEPT ![key[p]] = temp[TempOf(p)]]
    /\ temp' = [temp EXCEPT ![TempOf(p)] = NoDir]
    /\ UNCHANGED <<file, runtime, errno, frame, hurt, count>>

\* Mutant of Publish: whatever is in the way is replaced.
PublishOver(p) == Renamed(p)

\* Mutant of Publish: only the winner succeeds.
PublishOrFail(p) ==
    /\ pc[p] = "publish"
    /\ \/ ~Filled(key[p]) /\ Renamed(p)
       \/ Filled(key[p]) /\ Moves(p, "publish", "abandon")

\* Mutant of Publish: the loser leaves its copy.
PublishAndLeave(p) ==
    /\ pc[p] = "publish"
    /\ \/ ~Filled(key[p]) /\ Renamed(p)
       \/ Filled(key[p]) /\ Moves(p, "publish", "ok")

\* The loser of a race takes the winner's directory, if rename said EEXIST.
Publish(p) ==
    /\ pc[p] = "publish"
    /\ \/ ~Filled(key[p]) /\ Renamed(p)
       \/ Filled(key[p]) /\ errno = "EEXIST" /\ Moves(p, "publish", "drop")
       \/ Filled(key[p]) /\ errno # "EEXIST" /\ Moves(p, "publish", "abandon")
       \/ Fault(p, "publish", "abandon")

\* remove_dir of the temporary directory, whose result is ignored.
DropTemp(p) ==
    \E from \in {"drop", "abandon"} :
        LET to == IF from = "drop" THEN "ok" ELSE "failed"
        IN SetTemp(p, from, to, NoDir) \/ Fault(p, from, to)

-----------------------------------------------------------------------------
\* A process is killed.
Crash(p) ==
    /\ pc[p] \notin Resting
    /\ pc' = [pc EXCEPT ![p] = "idle"]
    /\ Counted("crash", MaxCrashes)
    /\ UNCHANGED <<disk, frame, hurt>>

\* The user puts another file in place of image i, between runs of it or
\* (swap) during one.
Replace(i, t) ==
    /\ t # file[i]
    /\ file' = [file EXCEPT ![i] = t]
    /\ IF \E p \in Procs : image[p] = i /\ pc[p] \notin Resting
       THEN Counted("swap", MaxChanges) ELSE Counted("change", MaxChanges)
    /\ UNCHANGED <<runtime, cache, temp, errno, pc, frame, hurt>>

InitDirs(p) == FindDirs(p) \/ MakeDirs(p)

ReadonlyLayer(p) ==
    UseFolder(p) \/ Hash(p) \/ Lookup(p) \/ ClearTemp(p) \/ MakeTemp(p) \/ List(p)
        \/ Extract(p) \/ Fill(p) \/ Publish(p) \/ DropTemp(p)

Next ==
    \/ \E p \in Procs :
          \/ \E i \in Images \cup Folders : Begin(p, i)
          \/ InitDirs(p) \/ ReadonlyLayer(p) \/ Crash(p)
    \/ \E i \in Images, t \in Tars : Replace(i, t)

Spec == Init /\ [][Next]_vars

-----------------------------------------------------------------------------
\* A directory under its final name is one complete extraction of one archive:
\* no crash, failing call, reused PID, concurrent run or replaced file ever
\* publishes a part of an image or a mixture of two.
CacheIsWhole ==
    \A k \in Tars :
        cache[k] # NoDir => cache[k].whole /\ Cardinality(cache[k].from) <= 1

\* A run that succeeds gets the tree of the image file it was given, whichever
\* run extracted it and whatever failed, crashed or was replaced before; unless
\* a file was swapped during a run, or a read error cut a digest short.
RunGetsItsImage ==
    [][\A p \in Procs :
          /\ pc[p] \notin Resting /\ pc'[p] = "ok" /\ image[p] \in Images
          /\ count["swap"] = 0 /\ count["short"] = 0
          => /\ cache'[key[p]] # NoDir
             /\ cache'[key[p]].from = {file[image[p]]} \ Empty]_vars

\* A directory that containers may have mounted never changes again.
PublishedIsStable ==
    [][\A k \in Tars : Filled(k) => cache'[k] = cache[k]]_vars

\* A run fails only for a reason: a call of its own failed, the archive is one that
\* extract_tar refuses, the runtime directories were made under its hands, or
\* it lost the race for the rename on a file system that says ENOTEMPTY.  Where
\* rename says EEXIST, every concurrent run of a good image succeeds, whatever
\* fails or crashes in the others.
FailureHasCause ==
    [][\A p \in Procs :
          pc[p] # "failed" /\ pc'[p] = "failed" =>
              \/ p \in hurt' \/ count["swap"] > 0
              \/ pc[p] = "mkdir"
              \/ ~Acceptable(file[image[p]])
              \/ errno = "ENOTEMPTY" /\ Filled(key[p])]_vars

\* A run that returned has left no temporary directory; only a crash or a
\* failing call leaves one behind.
NothingLeftBehind ==
    \A p \in Procs, k \in Tars :
        pc[p] \in Resting /\ count["fault"] = 0 /\ count["crash"] = 0
            => temp[<<k, p>>] = NoDir
=============================================================================
