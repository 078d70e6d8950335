-------------------------- MODULE ImageCacheProofs --------------------------
(***************************************************************************)
(* What create_readonly_layer promises for any number of runs, images and  *)
(* archives, and any number of failing calls, crashes and replaced files:  *)
(* the cache holds only whole images, a published one never changes, a run *)
(* gets the image it was given, fails only for a reason and leaves nothing *)
(* behind.                                                                 *)
(***************************************************************************)
EXTENDS ImageCache, FiniteSetTheorems, TLAPS

\* Places after the digest is known; places where the temporary directory may
\* exist; places where it has been written to.
Keyed == {"lookup", "clear", "make", "list", "extract", "fill", "publish", "drop", "abandon"}
Holding == {"list", "extract", "fill", "publish", "drop", "abandon"}
Written == {"fill", "publish"}

\* From the digest on, the run has a key and was given a file.
KeyKnown == \A p \in Procs : pc[p] \in Keyed => key[p] \in Tars /\ image[p] \in Images

\* The temporary directory of a run is its own and starts empty, whatever an
\* earlier process of the same PID left; then it holds the one archive that tar
\* opened, and all of it when the rename is tried.
TempIsOwn ==
    \A p \in Procs :
        /\ pc[p] = "make" => temp[TempOf(p)] = NoDir
        /\ pc[p] \in {"list", "extract"} => temp[TempOf(p)] # NoDir /\ temp[TempOf(p)].from = {}
        /\ pc[p] \in Written => /\ source[p] \in Tars
                                /\ temp[TempOf(p)] # NoDir
                                /\ temp[TempOf(p)].from = {source[p]} \ Empty
        /\ pc[p] = "publish" => temp[TempOf(p)].whole

\* While no file is swapped during a run, tar opens the file that was given.
SourceIsImage ==
    count["swap"] = 0 =>
        \A p \in Procs : pc[p] \in Written => source[p] = file[image[p]]

\* When also no read error cuts a digest short, the keys are the digests of the
\* given files, and every directory is named after its content.
KeyIsDigest ==
    count["swap"] = 0 /\ count["short"] = 0 =>
        /\ \A p \in Procs : pc[p] \in Keyed => key[p] = file[image[p]]
        /\ \A k \in Tars : cache[k] # NoDir => cache[k].from = {k} \ Empty

\* A run that lost the race found the winner's directory; one that gives up
\* has a reason.
Cause(p) ==
    \/ p \in hurt \/ count["swap"] > 0
    \/ ~Acceptable(file[image[p]])
    \/ errno = "ENOTEMPTY" /\ Filled(key[p])

LosersHaveCause ==
    \A p \in Procs :
        /\ pc[p] = "drop" => Filled(key[p])
        /\ pc[p] = "abandon" => Cause(p)

\* Without faults and crashes a temporary directory belongs to a run that is
\* about to publish or to remove it.
TempIsHeld ==
    count["fault"] = 0 /\ count["crash"] = 0 =>
        \A p \in Procs, k \in Tars :
            temp[<<k, p>>] # NoDir => pc[p] \in Holding /\ k = key[p]

CInv ==
    /\ TypeOK /\ KeyKnown /\ TempIsOwn /\ CacheIsWhole /\ SourceIsImage
    /\ KeyIsDigest /\ LosersHaveCause /\ TempIsHeld

\* Before any run the invariant holds.
LEMMA InitCInv == Init => CInv
  <1> SUFFICES ASSUME Init PROVE CInv
    OBVIOUS
  <1> USE DEF Init
  <1>1. TypeOK
    BY LimitAssumption DEF TypeOK, Places, Resting, Events
  <1>2. KeyKnown /\ TempIsOwn /\ SourceIsImage /\ LosersHaveCause
    BY DEF KeyKnown, TempIsOwn, SourceIsImage, LosersHaveCause, Keyed, Written
  <1>3. CacheIsWhole /\ KeyIsDigest /\ TempIsHeld
    BY DEF CacheIsWhole, KeyIsDigest, TempIsHeld, Keyed
  <1> QED
    BY <1>1, <1>2, <1>3 DEF CInv

\* An archive that is not empty, and one that is, leave at most one element.
LEMMA AtMostOne ==
    ASSUME NEW t, NEW S
    PROVE  Cardinality({t} \ S) <= 1
  <1>1. CASE t \in S
    <2>1. {t} \ S = {}
      BY <1>1
    <2> QED
      BY <2>1, FS_EmptySet
  <1>2. CASE t \notin S
    <2>1. {t} \ S = {t}
      BY <1>2
    <2>2. Cardinality({t}) = 1
      BY FS_Singleton
    <2> QED
      BY <2>1, <2>2
  <1> QED
    BY <1>1, <1>2

\* NoDir is no directory.
LEMMA NoDirIsNone == \A d \in Directories : d # NoDir
  BY KeyAssumption DEF Directories

\* What a step onward from one place to another needs to keep the invariant
\* when it changes nothing else.
Onward(p, from, to) ==
    /\ to \in Places
    /\ to \in Keyed => from \in Keyed
    /\ to \notin {"make", "list", "fill", "publish"}
    /\ to = "extract" => from = "list"
    /\ from \in Holding => to \in Holding
    /\ to = "drop" => Filled(key[p])
    /\ to = "abandon" => Cause(p)

\* A step that only goes onward keeps the invariant.
LEMMA MovesCInv ==
    ASSUME CInv, NEW p \in Procs, NEW from, NEW to, Moves(p, from, to), Onward(p, from, to)
    PROVE  CInv'
  <1> USE DEF Moves, At, Onward, disk, frame
  <1>1. TypeOK'
    BY DEF CInv, TypeOK, KeyKnown, Keyed
  <1>2. KeyKnown' /\ SourceIsImage' /\ KeyIsDigest'
    BY DEF CInv, TypeOK, KeyKnown, SourceIsImage, KeyIsDigest, Written
  <1>3. TempIsOwn'
    BY DEF CInv, TypeOK, TempIsOwn, TempOf, Written
  <1>4. CacheIsWhole'
    BY DEF CInv, CacheIsWhole
  <1>5. LosersHaveCause'
    BY DEF CInv, TypeOK, LosersHaveCause, Cause, Filled
  <1>6. TempIsHeld'
    BY DEF CInv, TypeOK, TempIsHeld, Holding
  <1> QED
    BY <1>1, <1>2, <1>3, <1>4, <1>5, <1>6 DEF CInv

\* A call that fails sends the run to the place where it fails or gives up.
LEMMA FaultCInv ==
    ASSUME CInv, NEW p \in Procs, NEW from, NEW to, Fault(p, from, to),
           to \in {"ok", "failed", "abandon"}, to = "abandon" => from \in Keyed
    PROVE  CInv'
  <1> USE DEF Fault, At, Counted, disk, frame
  <1>1. TypeOK'
    BY DEF CInv, TypeOK, KeyKnown, Keyed, Places, Resting, Events
  <1>2. KeyKnown' /\ SourceIsImage' /\ KeyIsDigest'
    BY DEF CInv, TypeOK, KeyKnown, SourceIsImage, KeyIsDigest, Written, Keyed, Events
  <1>3. TempIsOwn'
    BY DEF CInv, TypeOK, TempIsOwn, TempOf, Written
  <1>4. CacheIsWhole'
    BY DEF CInv, CacheIsWhole
  <1>5. LosersHaveCause'
    BY DEF CInv, TypeOK, LosersHaveCause, Cause, Filled, Events
  <1>6. TempIsHeld'
    BY DEF CInv, TypeOK, TempIsHeld, Holding, Events
  <1> QED
    BY <1>1, <1>2, <1>3, <1>4, <1>5, <1>6 DEF CInv

\* A new run knows nothing yet.
LEMMA BeginCInv ==
    ASSUME CInv, NEW p \in Procs, NEW i \in Images \cup Folders, Begin(p, i)
    PROVE  CInv'
  <1> USE DEF Begin, Counted, disk
  <1>1. TypeOK'
    <2>1. count' \in [Events -> Nat] /\ count'["run"] <= MaxRuns
      BY LimitAssumption DEF CInv, TypeOK, Events
    <2> QED
      BY <2>1 DEF CInv, TypeOK, Places
  <1>2. KeyKnown' /\ SourceIsImage' /\ KeyIsDigest'
    BY DEF CInv, TypeOK, KeyKnown, SourceIsImage, KeyIsDigest, Written, Keyed, Events
  <1>3. TempIsOwn'
    BY DEF CInv, TypeOK, TempIsOwn, TempOf, Written
  <1>4. CacheIsWhole'
    BY DEF CInv, CacheIsWhole
  <1>5. LosersHaveCause'
    BY DEF CInv, TypeOK, LosersHaveCause, Cause, Filled, Events
  <1>6. TempIsHeld'
    BY DEF CInv, TypeOK, TempIsHeld, Holding, Resting, Events
  <1> QED
    BY <1>1, <1>2, <1>3, <1>4, <1>5, <1>6 DEF CInv

\* The runtime directories are no part of the invariant.
LEMMA MakeDirsCInv ==
    ASSUME CInv, NEW p \in Procs, MakeDirs(p)
    PROVE  CInv'
  <1>1. CASE At(p, "mkdir", "hash") /\ runtime' = TRUE
             /\ UNCHANGED <<file, cache, temp, errno, frame, hurt, count>>
    <2> USE <1>1 DEF At, frame
    <2>1. TypeOK'
      BY DEF CInv, TypeOK, Places
    <2>2. KeyKnown' /\ SourceIsImage' /\ KeyIsDigest'
      BY DEF CInv, TypeOK, KeyKnown, SourceIsImage, KeyIsDigest, Written, Keyed
    <2>3. TempIsOwn'
      BY DEF CInv, TypeOK, TempIsOwn, TempOf, Written
    <2>4. CacheIsWhole'
      BY DEF CInv, CacheIsWhole
    <2>5. LosersHaveCause'
      BY DEF CInv, TypeOK, LosersHaveCause, Cause, Filled
    <2>6. TempIsHeld'
      BY DEF CInv, TypeOK, TempIsHeld, Holding
    <2> QED
      BY <2>1, <2>2, <2>3, <2>4, <2>5, <2>6 DEF CInv
  <1>2. CASE Moves(p, "mkdir", "failed")
    BY <1>2, MovesCInv DEF Onward, Places, Resting, Keyed, Holding
  <1>3. CASE Fault(p, "mkdir", "failed")
    BY <1>3, FaultCInv
  <1> QED
    BY <1>1, <1>2, <1>3 DEF MakeDirs

\* The digest becomes the key.
LEMMA HashCInv ==
    ASSUME CInv, NEW p \in Procs, Hash(p)
    PROVE  CInv'
  <1>1. CASE Fault(p, "hash", "failed")
    BY <1>1, FaultCInv
  <1>2. CASE ~Fault(p, "hash", "failed")
    <2>1. /\ image[p] \in Images /\ At(p, "hash", "lookup")
          /\ UNCHANGED <<disk, image, source, hurt>>
          /\ key' = [key EXCEPT ![p] = key'[p]]
      BY <1>2 DEF Hash, CInv, TypeOK
    <2>2. /\ key'[p] \in Tars /\ count' \in [Events -> Nat]
          /\ count["run"]' = count["run"] /\ count["swap"]' = count["swap"]
          /\ count["fault"]' = count["fault"] /\ count["crash"]' = count["crash"]
          /\ \/ key'[p] = file[image[p]] /\ count["short"]' = count["short"]
             \/ count["short"]' # 0
      BY <1>2, <2>1, ContentAssumption DEF Hash, Counted, CInv, TypeOK, Events
    <2> USE <2>1, <2>2 DEF At, disk
    <2>3. TypeOK'
      BY DEF CInv, TypeOK, Places
    <2>4. KeyKnown' /\ SourceIsImage'
      BY DEF CInv, TypeOK, KeyKnown, SourceIsImage, Written, Keyed
    <2>5. KeyIsDigest'
      BY DEF CInv, TypeOK, KeyIsDigest, Keyed
    <2>6. TempIsOwn'
      BY DEF CInv, TypeOK, TempIsOwn, TempOf, Written
    <2>7. CacheIsWhole'
      BY DEF CInv, CacheIsWhole
    <2>8. LosersHaveCause'
      BY DEF CInv, TypeOK, LosersHaveCause, Cause, Filled
    <2>9. TempIsHeld'
      BY DEF CInv, TypeOK, TempIsHeld, Holding
    <2> QED
      BY <2>3, <2>4, <2>5, <2>6, <2>7, <2>8, <2>9 DEF CInv
  <1> QED
    BY <1>1, <1>2

\* Writing one's own temporary directory leaves the others alone.
LEMMA OthersTemp ==
    ASSUME CInv, NEW p \in Procs, pc[p] \in Keyed, NEW d,
           temp' = [temp EXCEPT ![TempOf(p)] = d], UNCHANGED key
    PROVE  /\ temp'[TempOf(p)] = d
           /\ \A q \in Procs, k \in Tars :
                 q # p \/ k # key[p] => temp'[<<k, q>>] = temp[<<k, q>>]
           /\ \A q \in Procs : q # p /\ pc[q] \in Keyed => temp'[TempOf(q)] = temp[TempOf(q)]
           /\ temp' \in [Tars \X Procs -> Directories \cup {NoDir, d}]
  <1>1. /\ \A q \in Procs : pc[q] \in Keyed => <<key[q], q>> \in Tars \X Procs
        /\ DOMAIN temp = Tars \X Procs
        /\ \A x \in Tars \X Procs : temp[x] \in Directories \cup {NoDir}
    BY DEF CInv, TypeOK, KeyKnown
  <1> QED
    BY <1>1 DEF TempOf

\* What a step that gives the temporary directory the content d needs.
Prepares(p, from, to, d) ==
    /\ from \in Keyed /\ to \in {"make", "list", "publish", "ok", "failed"}
    /\ d \in Directories \cup {NoDir}
    /\ to \in {"make", "ok", "failed"} => d = NoDir
    /\ to = "list" => d # NoDir /\ d.from = {}
    /\ to = "publish" => /\ from = "fill" /\ d # NoDir /\ d.whole
                         /\ d.from = temp[TempOf(p)].from

\* The steps on the temporary directory keep the invariant.
LEMMA SetTempCInv ==
    ASSUME CInv, NEW p \in Procs, NEW from, NEW to, NEW d,
           SetTemp(p, from, to, d), Prepares(p, from, to, d)
    PROVE  CInv'
  <1> USE DEF SetTemp, At, frame, Prepares
  <1>0. /\ temp'[TempOf(p)] = d
        /\ \A q \in Procs, k \in Tars :
              q # p \/ k # key[p] => temp'[<<k, q>>] = temp[<<k, q>>]
        /\ \A q \in Procs : q # p /\ pc[q] \in Keyed => temp'[TempOf(q)] = temp[TempOf(q)]
        /\ temp' \in [Tars \X Procs -> Directories \cup {NoDir}]
    <2>1. Directories \cup {NoDir, d} = Directories \cup {NoDir}
      OBVIOUS
    <2> QED
      BY <2>1, OthersTemp
  <1>1. TypeOK'
    BY <1>0 DEF CInv, TypeOK, KeyKnown, Keyed, Places, Resting
  <1>2. KeyKnown' /\ SourceIsImage' /\ KeyIsDigest'
    BY DEF CInv, TypeOK, KeyKnown, SourceIsImage, KeyIsDigest, Written, Keyed
  <1>3. TempIsOwn'
    <2>1. \A q \in Procs : TempOf(q)' = TempOf(q)
      BY DEF TempOf
    <2> QED
      BY <1>0, <2>1 DEF CInv, TypeOK, TempIsOwn, Written, Keyed
  <1>4. CacheIsWhole'
    BY DEF CInv, CacheIsWhole
  <1>5. LosersHaveCause'
    BY DEF CInv, TypeOK, LosersHaveCause, Cause, Filled
  <1>6. TempIsHeld'
    <2> SUFFICES ASSUME count["fault"] = 0, count["crash"] = 0,
                        NEW q \in Procs, NEW k \in Tars, temp'[<<k, q>>] # NoDir
                 PROVE  pc'[q] \in Holding /\ k = key[q]
      BY DEF TempIsHeld
    <2>1. CASE q = p /\ k = key[p]
      <3>1. d # NoDir
        BY <1>0, <2>1 DEF TempOf
      <3> QED
        BY <2>1, <3>1 DEF CInv, TypeOK, Holding
    <2>2. CASE q # p \/ k # key[p]
      BY <1>0, <2>2 DEF CInv, TypeOK, TempIsHeld, Holding, Keyed
    <2> QED
      BY <2>1, <2>2
  <1> QED
    BY <1>1, <1>2, <1>3, <1>4, <1>5, <1>6 DEF CInv

\* The steps that prepare, complete or remove the temporary directory.
LEMMA TempCInv ==
    ASSUME CInv, NEW p \in Procs,
           ClearTemp(p) \/ MakeTemp(p) \/ Fill(p) \/ DropTemp(p)
    PROVE  CInv'
  <1> USE DEF Keyed
  <1>1. CASE ClearTemp(p)
    BY <1>1, SetTempCInv, FaultCInv DEF ClearTemp, Prepares
  <1>2. CASE MakeTemp(p)
    <2>1. CASE Fault(p, "make", "failed")
      BY <2>1, FaultCInv
    <2>2. CASE ~Fault(p, "make", "failed")
      <3>1. pc[p] = "make"
        BY <1>2, <2>2 DEF MakeTemp, SetTemp, At
      <3>2. SetTemp(p, "make", "list", [from |-> {}, whole |-> FALSE])
        BY <1>2, <2>2, <3>1 DEF MakeTemp, CInv, TempIsOwn
      <3>3. [from |-> {}, whole |-> FALSE] \in Directories
        BY DEF Directories
      <3>4. [from |-> {}, whole |-> FALSE] # NoDir
        BY <3>3, NoDirIsNone
      <3>5. Prepares(p, "make", "list", [from |-> {}, whole |-> FALSE])
        BY <3>3, <3>4 DEF Prepares
      <3> QED
        BY <3>2, <3>5, SetTempCInv
    <2> QED
      BY <2>1, <2>2
  <1>3. CASE Fill(p)
    <2>1. CASE Fault(p, "fill", "abandon")
      BY <2>1, FaultCInv
    <2>2. CASE source[p] \in Broken /\ Moves(p, "fill", "abandon")
      <3>1. pc[p] = "fill"
        BY <2>2 DEF Moves, At
      <3>2. Cause(p)
        <4>1. CASE count["swap"] = 0
          BY <2>2, <3>1, <4>1 DEF CInv, SourceIsImage, Written, Cause, Acceptable
        <4>2. CASE count["swap"] # 0
          BY <4>2 DEF CInv, TypeOK, Events, Cause
        <4> QED
          BY <4>1, <4>2
      <3> QED
        BY <2>2, <3>2, MovesCInv DEF Onward, Places, Resting, Holding
    <2>3. CASE SetTemp(p, "fill", "publish", [temp[TempOf(p)] EXCEPT !.whole = TRUE])
      <3> DEFINE d == [temp[TempOf(p)] EXCEPT !.whole = TRUE]
      <3>1. temp[TempOf(p)] \in Directories
        <4>1. <<key[p], p>> \in Tars \X Procs /\ pc[p] = "fill"
          BY <2>3 DEF SetTemp, At, CInv, KeyKnown
        <4> QED
          BY <4>1 DEF CInv, TypeOK, TempIsOwn, TempOf, Written
      <3>2. d \in Directories /\ d.whole /\ d.from = temp[TempOf(p)].from
        BY <3>1 DEF Directories
      <3>3. d # NoDir
        BY <3>2, NoDirIsNone
      <3>4. Prepares(p, "fill", "publish", d)
        BY <3>2, <3>3 DEF Prepares
      <3> QED
        BY <2>3, <3>4, SetTempCInv
    <2> QED
      BY <1>3, <2>1, <2>2, <2>3 DEF Fill
  <1>4. CASE DropTemp(p)
    <2>1. PICK from \in {"drop", "abandon"}, to \in {"ok", "failed"} :
             SetTemp(p, from, to, NoDir) \/ Fault(p, from, to)
      BY <1>4 DEF DropTemp
    <2> QED
      BY <2>1, SetTempCInv, FaultCInv DEF Prepares
  <1> QED
    BY <1>1, <1>2, <1>3, <1>4

\* tar opens the file again and writes to the empty directory.
LEMMA ExtractCInv ==
    ASSUME CInv, NEW p \in Procs, Extract(p)
    PROVE  CInv'
  <1>1. CASE Fault(p, "extract", "abandon")
    BY <1>1, FaultCInv DEF Keyed
  <1>2. CASE ~Fault(p, "extract", "abandon")
    <2> DEFINE t == file[image[p]]
               d == [from |-> temp[TempOf(p)].from \cup ({t} \ Empty), whole |-> FALSE]
    <2>1. /\ pc[p] = "extract" /\ pc' = [pc EXCEPT ![p] = "fill"]
          /\ source' = [source EXCEPT ![p] = t]
          /\ UNCHANGED <<file, runtime, cache, errno, image, key, hurt, count>>
      BY <1>2 DEF Extract, At
    <2>2. key[p] \in Tars /\ image[p] \in Images /\ t \in Tars
      BY <2>1 DEF CInv, TypeOK, KeyKnown, Keyed
    <2>3. temp' = [temp EXCEPT ![TempOf(p)] = d]
      BY <1>2 DEF Extract
    <2>4. temp[TempOf(p)].from = {}
      BY <2>1 DEF CInv, TempIsOwn
    <2>5. d \in Directories /\ d # NoDir /\ d.from = {t} \ Empty
      <3>1. d \in Directories /\ d.from = {t} \ Empty
        BY <2>2, <2>4 DEF Directories
      <3> HIDE DEF d
      <3> QED
        BY <3>1, NoDirIsNone
    <2>6. /\ temp'[TempOf(p)] = d
          /\ \A q \in Procs, k \in Tars :
                q # p \/ k # key[p] => temp'[<<k, q>>] = temp[<<k, q>>]
          /\ \A q \in Procs : q # p /\ pc[q] \in Keyed => temp'[TempOf(q)] = temp[TempOf(q)]
          /\ temp' \in [Tars \X Procs -> Directories \cup {NoDir}]
      <3>1. Directories \cup {NoDir, d} = Directories \cup {NoDir}
        BY <2>5
      <3> HIDE DEF d
      <3> QED
        BY <2>1, <2>3, <3>1, OthersTemp DEF Keyed
    <2> HIDE DEF d
    <2>7. TypeOK'
      BY <2>1, <2>2, <2>6 DEF CInv, TypeOK, Places
    <2>8. KeyKnown' /\ SourceIsImage' /\ KeyIsDigest'
      BY <2>1 DEF CInv, TypeOK, KeyKnown, SourceIsImage, KeyIsDigest, Written, Keyed
    <2>9. TempIsOwn'
      <3>1. \A q \in Procs : TempOf(q)' = TempOf(q)
        BY <2>1 DEF TempOf
      <3>2. \A q \in Procs : q # p => pc'[q] = pc[q] /\ source'[q] = source[q]
        BY <2>1 DEF CInv, TypeOK
      <3>3. pc'[p] = "fill" /\ source'[p] = t
        BY <2>1 DEF CInv, TypeOK
      <3> QED
        BY <2>2, <2>5, <2>6, <3>1, <3>2, <3>3 DEF CInv, TempIsOwn, Written, Keyed
    <2>10. CacheIsWhole'
      BY <2>1 DEF CInv, CacheIsWhole
    <2>11. LosersHaveCause'
      BY <2>1 DEF CInv, TypeOK, LosersHaveCause, Cause, Filled
    <2>12. TempIsHeld'
      BY <2>1, <2>6 DEF CInv, TypeOK, TempIsHeld, Holding, Keyed
    <2> QED
      BY <2>7, <2>8, <2>9, <2>10, <2>11, <2>12 DEF CInv
  <1> QED
    BY <1>1, <1>2

\* rename: the temporary directory becomes the cached one.
LEMMA RenamedCInv ==
    ASSUME CInv, NEW p \in Procs, Renamed(p), ~Filled(key[p])
    PROVE  CInv'
  <1> DEFINE k0 == key[p]
             d == temp[TempOf(p)]
  <1>1. /\ pc[p] = "publish" /\ pc' = [pc EXCEPT ![p] = "ok"]
        /\ UNCHANGED <<file, runtime, errno, image, key, source, hurt, count>>
    BY DEF Renamed, At, frame
  <1>2. k0 \in Tars /\ image[p] \in Images
    BY <1>1 DEF CInv, KeyKnown, Keyed
  <1>3. d \in Directories /\ d # NoDir /\ d.whole /\ d.from = {source[p]} \ Empty
    <2>1. <<key[p], p>> \in Tars \X Procs
      BY <1>2
    <2> QED
      BY <1>1, <2>1 DEF CInv, TypeOK, TempIsOwn, TempOf, Written
  <1>4. /\ cache' \in [Tars -> Directories \cup {NoDir}]
        /\ cache'[k0] = d
        /\ \A k \in Tars : k # k0 => cache'[k] = cache[k]
    BY <1>2, <1>3 DEF Renamed, CInv, TypeOK
  <1>5. /\ temp'[TempOf(p)] = NoDir
        /\ \A q \in Procs, k \in Tars :
              q # p \/ k # key[p] => temp'[<<k, q>>] = temp[<<k, q>>]
        /\ \A q \in Procs : q # p /\ pc[q] \in Keyed => temp'[TempOf(q)] = temp[TempOf(q)]
        /\ temp' \in [Tars \X Procs -> Directories \cup {NoDir}]
    <2>1. Directories \cup {NoDir, NoDir} = Directories \cup {NoDir}
      OBVIOUS
    <2> QED
      BY <1>1, <2>1, OthersTemp DEF Renamed, Keyed
  <1> HIDE DEF d, k0
  <1>6. TypeOK'
    BY <1>1, <1>4, <1>5 DEF CInv, TypeOK, Places, Resting
  <1>7. KeyKnown' /\ SourceIsImage'
    BY <1>1 DEF CInv, TypeOK, KeyKnown, SourceIsImage, Written, Keyed
  <1>8. KeyIsDigest'
    <2> SUFFICES ASSUME count["swap"] = 0, count["short"] = 0
                 PROVE  KeyIsDigest'
      BY <1>1 DEF KeyIsDigest
    <2>1. source[p] = k0
      BY <1>1 DEF CInv, SourceIsImage, KeyIsDigest, Written, Keyed, k0
    <2>2. \A k \in Tars : cache'[k] # NoDir => cache'[k].from = {k} \ Empty
      BY <1>3, <1>4, <2>1 DEF CInv, KeyIsDigest
    <2>3. \A q \in Procs : pc'[q] \in Keyed => key'[q] = file'[image'[q]]
      BY <1>1 DEF CInv, TypeOK, KeyIsDigest, Keyed
    <2> QED
      BY <2>2, <2>3 DEF KeyIsDigest
  <1>9. TempIsOwn'
    <2>1. \A q \in Procs : TempOf(q)' = TempOf(q)
      BY <1>1 DEF TempOf
    <2> QED
      BY <1>1, <1>5, <2>1 DEF CInv, TypeOK, TempIsOwn, Written, Keyed
  <1>10. CacheIsWhole'
    <2>1. Cardinality(d.from) <= 1
      BY <1>3, AtMostOne
    <2> QED
      BY <1>3, <1>4, <2>1 DEF CInv, CacheIsWhole
  <1>11. \A k \in Tars : Filled(k) => Filled(k)'
    BY <1>4 DEF Filled, k0
  <1>12. LosersHaveCause'
    BY <1>1, <1>11 DEF CInv, TypeOK, KeyKnown, Keyed, LosersHaveCause, Cause, Acceptable
  <1>13. TempIsHeld'
    <2> SUFFICES ASSUME count["fault"] = 0, count["crash"] = 0,
                        NEW q \in Procs, NEW k \in Tars, temp'[<<k, q>>] # NoDir
                 PROVE  pc'[q] \in Holding /\ k = key'[q]
      BY <1>1 DEF TempIsHeld
    <2>1. q # p \/ k # key[p]
      BY <1>5 DEF TempOf
    <2> QED
      BY <1>1, <1>5, <2>1 DEF CInv, TypeOK, TempIsHeld
  <1> QED
    BY <1>6, <1>7, <1>8, <1>9, <1>10, <1>12, <1>13 DEF CInv

\* Publishing, and losing the race for it.
LEMMA PublishCInv ==
    ASSUME CInv, NEW p \in Procs, Publish(p)
    PROVE  CInv'
  <1>1. CASE ~Filled(key[p]) /\ Renamed(p)
    BY <1>1, RenamedCInv
  <1>2. CASE Filled(key[p]) /\ errno = "EEXIST" /\ Moves(p, "publish", "drop")
    BY <1>2, MovesCInv DEF Onward, Places, Keyed, Holding
  <1>3. CASE Filled(key[p]) /\ errno # "EEXIST" /\ Moves(p, "publish", "abandon")
    BY <1>3, MovesCInv DEF Onward, Places, Keyed, Holding, Cause, CInv, TypeOK
  <1>4. CASE Fault(p, "publish", "abandon")
    BY <1>4, FaultCInv DEF Keyed
  <1> QED
    BY <1>1, <1>2, <1>3, <1>4 DEF Publish

\* Steps that look and do not touch.
LEMMA LookCInv ==
    ASSUME CInv, NEW p \in Procs, FindDirs(p) \/ UseFolder(p) \/ Lookup(p) \/ List(p)
    PROVE  CInv'
  <1> USE DEF Onward, Places, Resting, Keyed, Holding
  <1>1. CASE FindDirs(p)
    BY <1>1, MovesCInv DEF FindDirs
  <1>2. CASE UseFolder(p)
    BY <1>2, MovesCInv DEF UseFolder
  <1>3. CASE Lookup(p)
    BY <1>3, MovesCInv DEF Lookup
  <1>4. CASE List(p)
    BY <1>4, MovesCInv, FaultCInv DEF List, Cause
  <1> QED
    BY <1>1, <1>2, <1>3, <1>4

\* A killed process leaves everything as it is.
LEMMA CrashCInv ==
    ASSUME CInv, NEW p \in Procs, Crash(p)
    PROVE  CInv'
  <1> USE DEF Crash, Counted, disk, frame
  <1>1. TypeOK'
    BY DEF CInv, TypeOK, Places, Resting, Events
  <1>2. KeyKnown' /\ SourceIsImage' /\ KeyIsDigest'
    BY DEF CInv, TypeOK, KeyKnown, SourceIsImage, KeyIsDigest, Written, Keyed, Events
  <1>3. TempIsOwn'
    BY DEF CInv, TypeOK, TempIsOwn, TempOf, Written
  <1>4. CacheIsWhole'
    BY DEF CInv, CacheIsWhole
  <1>5. LosersHaveCause'
    BY DEF CInv, TypeOK, LosersHaveCause, Cause, Filled, Events
  <1>6. TempIsHeld'
    BY DEF CInv, TypeOK, TempIsHeld, Events
  <1> QED
    BY <1>1, <1>2, <1>3, <1>4, <1>5, <1>6 DEF CInv

\* A file replaced between its runs is nobody's source; one replaced during a
\* run is counted as swapped.
LEMMA ReplaceCInv ==
    ASSUME CInv, NEW i \in Images, NEW t \in Tars, Replace(i, t)
    PROVE  CInv'
  <1> USE DEF frame
  <1>1. /\ file' = [file EXCEPT ![i] = t]
        /\ UNCHANGED <<runtime, cache, temp, errno, pc, image, key, source, hurt>>
    BY DEF Replace
  <1>2. /\ count' \in [Events -> Nat]
        /\ \A e \in {"run", "fault", "crash", "short"} : count'[e] = count[e]
        /\ count["swap"] # 0 => count'["swap"] # 0
        /\ \/ count'["swap"] # 0
           \/ \A p \in Procs : image[p] = i => pc[p] \in Resting
    BY DEF Replace, Counted, CInv, TypeOK, Events
  <1>3. TypeOK'
    BY <1>1, <1>2 DEF CInv, TypeOK
  <1>4. KeyKnown' /\ TempIsOwn' /\ CacheIsWhole' /\ TempIsHeld'
    BY <1>1, <1>2 DEF CInv, KeyKnown, TempIsOwn, TempOf, CacheIsWhole, TempIsHeld
  <1>5. count'["swap"] = 0 => \A p \in Procs : pc[p] \notin Resting /\ image[p] \in Images
                                  => file'[image[p]] = file[image[p]]
    BY <1>1, <1>2 DEF CInv, TypeOK
  <1>6. SourceIsImage' /\ KeyIsDigest'
    BY <1>1, <1>2, <1>5 DEF CInv, KeyKnown, SourceIsImage, KeyIsDigest, Written, Keyed, Resting
  <1>7. LosersHaveCause'
    <2> SUFFICES ASSUME NEW p \in Procs
                 PROVE  /\ pc[p] = "drop" => Filled(key[p])'
                        /\ pc[p] = "abandon" => Cause(p)'
      BY <1>1 DEF LosersHaveCause
    <2>1. pc[p] = "drop" => Filled(key[p])'
      BY <1>1 DEF CInv, LosersHaveCause, Filled
    <2>2. CASE count'["swap"] # 0
      BY <1>2, <2>1, <2>2 DEF Cause, Events
    <2>3. CASE count'["swap"] = 0
      BY <1>1, <1>2, <1>5, <2>1, <2>3
         DEF CInv, KeyKnown, LosersHaveCause, Cause, Filled, Acceptable, Keyed, Resting
    <2> QED
      BY <2>1, <2>2, <2>3
  <1> QED
    BY <1>3, <1>4, <1>6, <1>7 DEF CInv

\* Every step keeps the invariant.
LEMMA NextCInv == CInv /\ [Next]_vars => CInv'
  <1> SUFFICES ASSUME CInv, [Next]_vars PROVE CInv'
    OBVIOUS
  <1>1. CASE UNCHANGED vars
    BY <1>1 DEF vars, disk, frame, CInv, TypeOK, KeyKnown, TempIsOwn, TempOf, CacheIsWhole,
       SourceIsImage, KeyIsDigest, LosersHaveCause, Cause, Filled, TempIsHeld
  <1>2. CASE \E p \in Procs : \/ \E i \in Images \cup Folders : Begin(p, i)
                              \/ InitDirs(p) \/ ReadonlyLayer(p) \/ Crash(p)
    BY <1>2, BeginCInv, LookCInv, MakeDirsCInv, HashCInv, TempCInv, ExtractCInv,
       PublishCInv, CrashCInv DEF InitDirs, ReadonlyLayer
  <1>3. CASE \E i \in Images, t \in Tars : Replace(i, t)
    BY <1>3, ReplaceCInv
  <1> QED
    BY <1>1, <1>2, <1>3 DEF Next

\* The inductive invariant holds in every reachable state.
THEOREM CacheInvariance == Spec => []CInv
  BY InitCInv, NextCInv, PTL DEF Spec

\* Every variable of the cache keeps its type.
THEOREM CacheTyped == Spec => []TypeOK
  <1>1. CInv => TypeOK
    BY DEF CInv
  <1> QED
    BY <1>1, CacheInvariance, PTL

\* A directory under its final name is one complete extraction of one archive.
THEOREM Wholeness == Spec => []CacheIsWhole
  <1>1. CInv => CacheIsWhole
    BY DEF CInv
  <1> QED
    BY <1>1, CacheInvariance, PTL

\* A run that returned, with no fault and no crash so far, has left no
\* temporary directory.
THEOREM Tidiness == Spec => []NothingLeftBehind
  <1>1. CInv => NothingLeftBehind
    BY DEF CInv, TempIsHeld, NothingLeftBehind, Holding, Resting
  <1> QED
    BY <1>1, CacheInvariance, PTL

\* Only p's own steps move p on.
LEMMA OwnStep ==
    ASSUME CInv, Next, NEW p \in Procs, pc'[p] # pc[p]
    PROVE  \/ \E i \in Images \cup Folders : Begin(p, i)
           \/ InitDirs(p) \/ ReadonlyLayer(p) \/ Crash(p)
  <1>1. CASE \E i \in Images, t \in Tars : Replace(i, t)
    BY <1>1 DEF Replace
  <1>2. CASE \E q \in Procs : \/ \E i \in Images \cup Folders : Begin(q, i)
                              \/ InitDirs(q) \/ ReadonlyLayer(q) \/ Crash(q)
    <2>1. PICK q \in Procs : \/ \E i \in Images \cup Folders : Begin(q, i)
                             \/ InitDirs(q) \/ ReadonlyLayer(q) \/ Crash(q)
      BY <1>2
    <2>2. \E place : pc' = [pc EXCEPT ![q] = place]
      <3>1. CASE (\E i \in Images \cup Folders : Begin(q, i)) \/ InitDirs(q) \/ Crash(q)
        BY <3>1 DEF Begin, InitDirs, FindDirs, MakeDirs, Crash, Moves, Fault, At
      <3>2. CASE UseFolder(q) \/ Hash(q) \/ Lookup(q) \/ ClearTemp(q) \/ MakeTemp(q)
        BY <3>2 DEF UseFolder, Hash, Lookup, ClearTemp, MakeTemp, SetTemp, Moves, Fault, At
      <3>3. CASE List(q) \/ Extract(q) \/ Fill(q) \/ Publish(q) \/ DropTemp(q)
        BY <3>3 DEF List, Extract, Fill, Publish, Renamed, DropTemp, SetTemp, Moves, Fault, At
      <3> QED
        BY <2>1, <3>1, <3>2, <3>3 DEF ReadonlyLayer
    <2>3. q = p
      BY <2>2 DEF CInv, TypeOK
    <2> QED
      BY <2>1, <2>3
  <1> QED
    BY <1>1, <1>2 DEF Next

\* A published directory never changes again, whoever publishes, crashes or
\* replaces a file.
THEOREM Stability == Spec => PublishedIsStable
  <1> DEFINE Stable == \A k \in Tars : Filled(k) => cache'[k] = cache[k]
  <1>1. CInv /\ [Next]_vars => [Stable]_vars
    <2> SUFFICES ASSUME CInv, Next, NEW k \in Tars, Filled(k)
                 PROVE  cache'[k] = cache[k]
      OBVIOUS
    <2>1. CASE \E p \in Procs : ~Filled(key[p]) /\ Renamed(p)
      BY <2>1 DEF Renamed, CInv, TypeOK
    <2>2. CASE ~\E p \in Procs : ~Filled(key[p]) /\ Renamed(p)
      <3>1. UNCHANGED cache
        <4> USE DEF Moves, Fault, SetTemp, disk
        <4>1. CASE \E i \in Images, t \in Tars : Replace(i, t)
          BY <4>1 DEF Replace
        <4>2. ASSUME NEW p \in Procs, (\E i \in Images \cup Folders : Begin(p, i)) \/ Crash(p)
              PROVE  UNCHANGED cache
          BY <4>2 DEF Begin, Crash
        <4>3. ASSUME NEW p \in Procs, InitDirs(p)
              PROVE  UNCHANGED cache
          BY <4>3 DEF InitDirs, FindDirs, MakeDirs
        <4>4. ASSUME NEW p \in Procs, ReadonlyLayer(p)
              PROVE  UNCHANGED cache
          BY <2>2, <4>4 DEF ReadonlyLayer, UseFolder, Hash, Lookup, ClearTemp, MakeTemp, List,
                            Extract, Fill, Publish, DropTemp
        <4> QED
          BY <4>1, <4>2, <4>3, <4>4 DEF Next
      <3> QED
        BY <3>1
    <2> QED
      BY <2>1, <2>2
  <1> QED
    BY <1>1, CacheInvariance, PTL DEF Spec, PublishedIsStable

\* A run fails only for a reason of its own.
THEOREM FailureReason == Spec => FailureHasCause
  <1> DEFINE Reason(p) == \/ p \in hurt' \/ count["swap"] > 0
                          \/ pc[p] = "mkdir"
                          \/ ~Acceptable(file[image[p]])
                          \/ errno = "ENOTEMPTY" /\ Filled(key[p])
             Reasons == \A p \in Procs : pc[p] # "failed" /\ pc'[p] = "failed" => Reason(p)
  <1>1. CInv /\ [Next]_vars => [Reasons]_vars
    <2> SUFFICES ASSUME CInv, Next, NEW p \in Procs, pc[p] # "failed", pc'[p] = "failed"
                 PROVE  Reason(p)
      OBVIOUS
    <2>0. pc \in [Procs -> Places]
      BY DEF CInv, TypeOK
    <2>1. CASE \E from, to : Fault(p, from, to)
      BY <2>1 DEF Fault
    <2>2. CASE ~\E from, to : Fault(p, from, to)
      <3> USE <2>0, <2>2 DEF Moves, SetTemp, At
      <3>1. CASE InitDirs(p)
        BY <3>1 DEF InitDirs, FindDirs, MakeDirs
      <3>2. CASE DropTemp(p)
        <4>1. pc[p] = "abandon"
          BY <3>2 DEF DropTemp
        <4>2. Cause(p) /\ UNCHANGED hurt
          BY <3>2, <4>1 DEF CInv, LosersHaveCause, DropTemp
        <4> QED
          BY <4>2 DEF Cause
      <3>3. CASE (\E i \in Images \cup Folders : Begin(p, i)) \/ Crash(p)
        BY <3>3 DEF Begin, Crash
      <3>4. CASE UseFolder(p) \/ Hash(p) \/ Lookup(p) \/ ClearTemp(p) \/ MakeTemp(p)
        BY <3>4 DEF UseFolder, Hash, Lookup, ClearTemp, MakeTemp
      <3>5. CASE List(p) \/ Extract(p) \/ Fill(p) \/ Publish(p)
        BY <3>5 DEF List, Extract, Fill, Publish, Renamed
      <3> QED
        BY OwnStep, <3>1, <3>2, <3>3, <3>4, <3>5 DEF ReadonlyLayer
    <2> QED
      BY <2>1, <2>2
  <1> QED
    BY <1>1, CacheInvariance, PTL DEF Spec, FailureHasCause

\* A run that succeeds gets the tree of the image file it was given.
THEOREM RightImage == Spec => RunGetsItsImage
  <1> DEFINE Gets(p) == /\ cache'[key[p]] # NoDir
                        /\ cache'[key[p]].from = {file[image[p]]} \ Empty
             Right == \A p \in Procs :
                         /\ pc[p] \notin Resting /\ pc'[p] = "ok" /\ image[p] \in Images
                         /\ count["swap"] = 0 /\ count["short"] = 0
                         => Gets(p)
  <1>1. CInv /\ [Next]_vars => [Right]_vars
    <2> SUFFICES ASSUME CInv, Next, NEW p \in Procs, pc[p] \notin Resting, pc'[p] = "ok",
                        image[p] \in Images, count["swap"] = 0, count["short"] = 0
                 PROVE  Gets(p)
      OBVIOUS
    <2>0. pc \in [Procs -> Places]
      BY DEF CInv, TypeOK
    <2>1. ASSUME pc[p] \in Keyed, cache' = cache, cache[key[p]] # NoDir
          PROVE  Gets(p)
      BY <2>1 DEF CInv, KeyIsDigest, KeyKnown
    <2>2. CASE DropTemp(p)
      <3>1. pc[p] = "drop" /\ cache' = cache
        BY <2>0, <2>2 DEF DropTemp, SetTemp, Fault, At, disk
      <3>2. Filled(key[p])
        BY <3>1 DEF CInv, LosersHaveCause
      <3> QED
        BY <2>1, <3>1, <3>2 DEF Keyed, Filled
    <2>3. CASE Lookup(p)
      <3>1. pc[p] = "lookup" /\ cache' = cache /\ cache[key[p]] # NoDir
        BY <2>0, <2>3 DEF Lookup, Moves, At, disk
      <3> QED
        BY <2>1, <3>1 DEF Keyed
    <2>4. CASE Publish(p)
      <3>1. pc[p] = "publish" /\ Renamed(p)
        BY <2>0, <2>4 DEF Publish, Moves, Fault, At
      <3>2. key[p] \in Tars /\ source[p] = file[image[p]]
        BY <3>1 DEF CInv, KeyKnown, SourceIsImage, Keyed, Written
      <3>3. cache'[key[p]] = temp[TempOf(p)]
        BY <3>1, <3>2 DEF Renamed, CInv, TypeOK
      <3> QED
        BY <3>1, <3>2, <3>3 DEF CInv, TempIsOwn, Written
    <2>5. CASE (\E i \in Images \cup Folders : Begin(p, i)) \/ InitDirs(p) \/ Crash(p)
      BY <2>0, <2>5 DEF Begin, InitDirs, FindDirs, MakeDirs, Crash, Moves, Fault, At
    <2>6. CASE UseFolder(p) \/ Hash(p) \/ ClearTemp(p) \/ MakeTemp(p)
      BY <2>0, <2>6, KeyAssumption
         DEF UseFolder, Hash, ClearTemp, MakeTemp, SetTemp, Moves, Fault, At
    <2>7. CASE List(p) \/ Extract(p) \/ Fill(p)
      BY <2>0, <2>7 DEF List, Extract, Fill, SetTemp, Moves, Fault, At
    <2>8. pc'[p] # pc[p]
      BY DEF Resting
    <2> QED
      BY OwnStep, <2>2, <2>3, <2>4, <2>5, <2>6, <2>7, <2>8 DEF ReadonlyLayer
  <1> QED
    BY <1>1, CacheInvariance, PTL DEF Spec, RunGetsItsImage
=============================================================================
