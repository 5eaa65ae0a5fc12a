----------------------------- MODULE GrammarProofs -----------------------------
(***************************************************************************)
(* The operations on a grammar package, for any number of parser threads,   *)
(* processes and tools: what the variables hold in every regime, and what   *)
(* an operation leaves and reports where nothing happens beside it.         *)
(***************************************************************************)
EXTENDS GrammarPackages, TLAPS

Contents == Releases \cup Actors \cup {None}

LEMMA SetFile ==
    ASSUME NEW p \in Package, NEW f \in Files, NEW v \in Contents
    PROVE  /\ [p EXCEPT !.files[f] = v] \in Package
           /\ [p EXCEPT !.files[f] = v].id = p.id
           /\ [p EXCEPT !.files[f] = v].files = [p.files EXCEPT ![f] = v]
BY DEF Package, Contents

LEMMA WholePackage ==
    ASSUME NEW r \in Contents, NEW id \in Actors \cup {Baked}
    PROVE  Whole(r, id) \in Package /\ Whole(r, id).files = [f \in Files |-> r]
BY DEF Whole, Package, Contents

LEMMA TypesInit == Init => PackagesTypeOK
<1> SUFFICES ASSUME Init PROVE PackagesTypeOK
    OBVIOUS
<1>1. pkg \in Package \cup {None}
      BY WholePackage DEF Init, Contents, Releases
<1> QED
    BY <1>1 DEF Init, PackagesTypeOK, PCs

\* Where an actor goes, nothing else of it changes; where it ends, it reports.
LEMMA GoTypes ==
    ASSUME PackagesTypeOK, NEW a \in Actors, NEW to \in PCs, Goto(a, to)
    PROVE  /\ pc' \in [Actors -> PCs] /\ pc' = [pc EXCEPT ![a] = to]
           /\ result' \in [Actors -> Results \cup Releases \cup {None}]
BY DEF PackagesTypeOK, Goto

LEMMA EndTypes ==
    ASSUME PackagesTypeOK, NEW a \in Actors, NEW r \in Results \cup Releases, End(a, r)
    PROVE  /\ pc' \in [Actors -> PCs] /\ pc' = [pc EXCEPT ![a] = "done"]
           /\ result' \in [Actors -> Results \cup Releases \cup {None}]
           /\ got' \in [Actors -> Releases \cup {None}]
           /\ base' \in [Actors -> Actors \cup {Baked, None}]
BY DEF PackagesTypeOK, End, PCs

\* What an actor holds of its own...
Own ==
    /\ pc \in [Actors -> PCs] /\ op \in [Actors -> Ops \cup {None}]
    /\ asked \in [Actors -> Releases \cup {None}]
    /\ got \in [Actors -> Releases \cup {None}]
    /\ base \in [Actors -> Actors \cup {Baked, None}]
    /\ result \in [Actors -> Results \cup Releases \cup {None}]

\* ... of its tar, and what is on the disk.
Tar ==
    /\ todo \in [Actors -> SUBSET Files] /\ cur \in [Actors -> Files \cup {None}]
    /\ \A a \in Actors : pc[a] = "fill" => cur[a] \in todo[a]
Disk ==
    /\ registry \in {"missing", "torn", "fresh"}
    /\ pkg \in Package \cup {None}
    /\ attempted \subseteq Procs
    /\ regime \in {"quiet", "littered", "killing", "wild"}

LEMMA RemovedTypes ==
    ASSUME PackagesTypeOK, NEW a \in Actors, op[a] \in Ops, UNCHANGED <<op, asked>>,
           Removed(a) \/ NotRemoved(a)
    PROVE  Own' /\ pc'[a] \in {"exists", "done"} /\ pc' = [pc EXCEPT ![a] = pc'[a]]
<1>1. Go(a, "exists") \/ \E r \in {"removed", "none", "failed", "lost", "error"} : End(a, r)
      BY DEF Removed, NotRemoved, Ops
<1>2. CASE Go(a, "exists")
      BY <1>2, GoTypes DEF Go, PackagesTypeOK, Own, PCs
<1>3. ASSUME NEW r \in {"removed", "none", "failed", "lost", "error"}, End(a, r)
      PROVE  Own' /\ pc' = [pc EXCEPT ![a] = "done"]
      BY <1>3, EndTypes DEF PackagesTypeOK, Own, Results
<1> QED
    BY <1>1, <1>2, <1>3 DEF PackagesTypeOK

\* Whoever is at work does one of the four operations; an update has no --tag.
OpKnown == \A a \in Busy : op[a] \in Ops /\ (op[a] = "update" => asked[a] = None)
TypeInv == Own /\ Tar /\ Disk /\ OpKnown

LEMMA TypesKnown == TypeInv => PackagesTypeOK
BY DEF TypeInv, Own, Tar, Disk, PackagesTypeOK

\* A step in which a goes on, or ends, and neither its tar nor anybody else does.
LEMMA GoOn ==
    ASSUME TypeInv, NEW a \in Busy, UNCHANGED <<op, asked>>, UNCHANGED <<todo, cur>>,
           \/ \E to \in PCs \ {"fill"} : Go(a, to)
           \/ \E r \in Results \cup Releases : End(a, r)
           \/ Removed(a) \/ NotRemoved(a)
    PROVE  Own' /\ Tar' /\ OpKnown'
<1>1. a \in Actors /\ op[a] \in Ops /\ PackagesTypeOK
      BY TypesKnown DEF Busy, TypeInv, OpKnown
<1> DEFINE Moved == Own' /\ pc' = [pc EXCEPT ![a] = pc'[a]] /\ pc'[a] # "fill"
<1>2. Moved
  <2>1. ASSUME NEW to \in PCs \ {"fill"}, Go(a, to) PROVE Moved
        BY <1>1, <2>1, GoTypes DEF Go, PackagesTypeOK, Own
  <2>2. ASSUME NEW r \in Results \cup Releases, End(a, r) PROVE Moved
        BY <1>1, <2>2, EndTypes DEF PackagesTypeOK, Own
  <2> QED
      BY <1>1, <2>1, <2>2, RemovedTypes
<1>3. Tar'
      BY <1>1, <1>2 DEF PackagesTypeOK, Tar
<1>4. OpKnown'
      BY <1>1, <1>2 DEF TypeInv, OpKnown, Busy, PackagesTypeOK
<1> QED
    BY <1>2, <1>3, <1>4

LEMMA WantedTypes ==
    ASSUME TypeInv, NEW a \in Actors PROVE Wanted(a) \in Releases
BY DEF TypeInv, Own, Wanted, Tag, Releases

LEMMA TypesStep ==
    ASSUME TypeInv, [Next]_vars PROVE TypeInv'
<1> USE TypesKnown
<1>1. CASE UNCHANGED vars
      BY <1>1 DEF vars, diskVars, actorVars, TypeInv, Own, Tar, Disk, OpKnown, Busy
<1>2. ASSUME NEW a \in Actors, Begin(a) PROVE TypeInv'
  <2>1. PICK o \in Ops, to \in PCs \ {"fill"}, r \in Releases \cup {None} :
           /\ op' = [op EXCEPT ![a] = o] /\ asked' = [asked EXCEPT ![a] = r] /\ Go(a, to)
           /\ (o = "update" => r = None)
           /\ UNCHANGED <<registry, pkg, attempted, regime, todo, cur>>
        BY <1>2 DEF Begin, Ops, PCs, diskVars
  <2>2. pc' = [pc EXCEPT ![a] = to] /\ Own'
        BY <2>1, GoTypes DEF Go, TypeInv, Own
  <2> QED
      BY <2>1, <2>2 DEF TypeInv, Own, Tar, Disk, OpKnown, Busy
<1>3. ASSUME NEW a \in Actors, Find(a) \/ Load(a) \/ CheckAttempted(a) \/ Exists(a)
                               \/ Verify(a)
      PROVE  TypeInv'
  <2>1. a \in Busy /\ UNCHANGED <<registry, pkg, attempted, regime, op, asked, todo, cur>>
        BY <1>3 DEF Find, Load, CheckAttempted, Exists, Verify, Busy, diskVars
  <2>2. op[a] \in Ops
        BY <2>1 DEF TypeInv, OpKnown
  <2>3. \/ \E to \in PCs \ {"fill"} : Go(a, to)
        \/ \E r \in Results \cup Releases : End(a, r)
    <3>1. CASE Find(a)
          BY <3>1 DEF Find, PCs, Results
    <3>2. CASE Load(a)
          BY <3>2 DEF Load, Results
    <3>3. CASE CheckAttempted(a)
          BY <3>3 DEF CheckAttempted, PCs, Results
    <3>4. CASE Exists(a)
          BY <3>4, <2>2 DEF Exists, PCs, Results
    <3>5. CASE Verify(a)
          BY <3>5 DEF Verify, PCs, Results
    <3> QED
        BY <1>3, <3>1, <3>2, <3>3, <3>4, <3>5
  <2>4. Own' /\ Tar' /\ OpKnown'
        BY <2>1, <2>3, GoOn
  <2> QED
      BY <2>1, <2>4 DEF TypeInv, Disk
<1>4. ASSUME NEW a \in Threads, MarkAttempted(a) PROVE TypeInv'
  <2>1. a \in Busy /\ Own' /\ Tar' /\ OpKnown'
        BY <1>4, GoOn DEF MarkAttempted, Busy, Actors, PCs
  <2> QED
      BY <1>4, <2>1, PackagesAssumption DEF MarkAttempted, TypeInv, Disk
<1>5. ASSUME NEW a \in Actors, NEW to \in PCs \ {"fill"}, Goto(a, to), a \in Busy,
             UNCHANGED <<op, asked>>, got' \in [Actors -> Releases \cup {None}],
             base' \in [Actors -> Actors \cup {Baked, None}]
      PROVE  Own' /\ OpKnown' /\ pc'[a] # "fill" /\ \A b \in Actors \ {a} : pc'[b] = pc[b]
      BY <1>5, GoTypes DEF TypeInv, Own, OpKnown, Busy
<1>6. ASSUME NEW a \in Actors, Download(a) PROVE TypeInv'
  <2>1. a \in Busy /\ op[a] \in Ops /\ UNCHANGED <<registry, pkg, attempted, regime, op, asked, todo, cur>>
        BY <1>6 DEF Download, Busy, diskVars, TypeInv, OpKnown
  <2>2. CASE DownloadFails(a)
        BY <2>1, <2>2, GoOn DEF DownloadFails, PCs, Results, TypeInv, Disk
  <2>3. CASE ~ DownloadFails(a)
    <3>1. PICK to \in {"tar", "mkdir"} : Goto(a, to) /\ base' = base /\
              got' = [got EXCEPT ![a] = Wanted(a)]
          BY <1>6, <2>3 DEF Download
    <3>2. got' \in [Actors -> Releases \cup {None}]
          BY <3>1, WantedTypes DEF TypeInv, Own
    <3>3. Own' /\ OpKnown' /\ pc'[a] # "fill" /\ \A b \in Actors \ {a} : pc'[b] = pc[b]
          BY <1>5, <2>1, <3>1, <3>2 DEF PCs, TypeInv, Own
    <3> QED
        BY <2>1, <3>3 DEF TypeInv, Tar, Disk
  <2> QED
      BY <2>2, <2>3
<1>7. ASSUME NEW a \in Actors, MakeDir(a) PROVE TypeInv'
  <2>1. a \in Busy /\ op[a] \in Ops /\ UNCHANGED <<registry, attempted, regime, op, asked, todo, cur>>
        BY <1>7 DEF MakeDir, Busy, TypeInv, OpKnown
  <2>2. \/ \E to \in PCs \ {"fill"} : Go(a, to)
        \/ \E r \in Results \cup Releases : End(a, r)
        BY <1>7 DEF MakeDir, PCs, Results
  <2>3. pkg' \in Package \cup {None}
        BY <1>7, WholePackage DEF MakeDir, TypeInv, Disk, Contents
  <2> QED
      BY <2>1, <2>2, <2>3, GoOn DEF TypeInv, Disk
<1>8. ASSUME NEW a \in Actors, StartTar(a) PROVE TypeInv'
  <2>1. a \in Busy /\ UNCHANGED <<registry, pkg, attempted, regime, op, asked, cur>>
        BY <1>8 DEF StartTar, Busy, diskVars
  <2>2. \E to \in PCs \ {"fill"} : Goto(a, to)
        BY <1>8 DEF StartTar, Go, PCs
  <2>3. /\ got' = got /\ base' \in [Actors -> Actors \cup {Baked, None}]
        /\ todo' \in [Actors -> SUBSET Files] /\ \A b \in Actors \ {a} : todo'[b] = todo[b]
        BY <1>8 DEF StartTar, Go, TypeInv, Own, Tar, Disk, Package
  <2>4. Own' /\ OpKnown' /\ pc'[a] # "fill" /\ \A b \in Actors \ {a} : pc'[b] = pc[b]
        BY <1>5, <2>1, <2>2, <2>3 DEF TypeInv, Own
  <2> QED
      BY <2>1, <2>3, <2>4 DEF TypeInv, Tar, Disk
<1>9. ASSUME NEW a \in Actors, CreateFile(a) PROVE TypeInv'
  <2>1. a \in Busy /\ pkg \in Package /\ a \in Contents
        BY <1>9 DEF CreateFile, Busy, Same, TypeInv, Disk, Contents
  <2>2. PICK f \in todo[a] : pkg' = [pkg EXCEPT !.files[f] = a] /\ cur' = [cur EXCEPT ![a] = f]
        BY <1>9 DEF CreateFile
  <2>3. f \in Files /\ pkg' \in Package
        BY <2>1, <2>2, SetFile DEF TypeInv, Tar
  <2>4. Own' /\ pc' = [pc EXCEPT ![a] = "fill"]
        BY <1>9, GoTypes DEF CreateFile, Go, TypeInv, Own, PCs
  <2>5. Tar' /\ OpKnown'
        BY <1>9, <2>1, <2>2, <2>3, <2>4 DEF CreateFile, TypeInv, Own, Tar, OpKnown, Busy
  <2> QED
      BY <1>9, <2>3, <2>4, <2>5 DEF CreateFile, TypeInv, Disk
<1>10. ASSUME NEW a \in Actors, FillFile(a) PROVE TypeInv'
  <2>1. a \in Busy /\ got[a] \in Contents /\ cur[a] \in Files
        BY <1>10 DEF FillFile, Busy, TypeInv, Own, Tar, Contents
  <2>2. pkg' \in Package \cup {None}
        BY <1>10, <2>1, SetFile DEF FillFile, Same, TypeInv, Disk
  <2>3. \E to \in PCs \ {"fill"} : Go(a, to)
        BY <1>10 DEF FillFile, PCs
  <2>4. Own' /\ OpKnown' /\ pc'[a] # "fill" /\ \A b \in Actors \ {a} : pc'[b] = pc[b]
        BY <1>5, <1>10, <2>1, <2>3 DEF FillFile, Go, TypeInv, Own
  <2>5. Tar'
        BY <1>10, <2>4 DEF FillFile, TypeInv, Tar
  <2> QED
      BY <1>10, <2>2, <2>4, <2>5 DEF FillFile, TypeInv, Disk
<1>11. ASSUME NEW a \in Actors, TarFails(a) PROVE TypeInv'
  <2>1. a \in Busy
        BY <1>11 DEF TarFails, Busy
  <2>2. Own' /\ OpKnown' /\ pc'[a] # "fill" /\ \A b \in Actors \ {a} : pc'[b] = pc[b]
        BY <1>5, <1>11, <2>1 DEF TarFails, Go, PCs, TypeInv, Own
  <2>3. Tar'
        BY <1>11, <2>2 DEF TarFails, TypeInv, Tar
  <2> QED
      BY <1>11, <2>2, <2>3 DEF TarFails, diskVars, TypeInv, Disk
<1>12. ASSUME NEW a \in Actors, OpenDir(a) PROVE TypeInv'
  <2>1. a \in Busy /\ UNCHANGED <<registry, pkg, attempted, regime, op, asked, todo, cur>>
        BY <1>12 DEF OpenDir, Busy, diskVars
  <2>2. CASE Removed(a)
        BY <2>1, <2>2, GoOn DEF TypeInv, Disk
  <2>3. CASE pkg # None /\ base' = [base EXCEPT ![a] = pkg.id] /\ Goto(a, "rm") /\ got' = got
    <3>1. base' \in [Actors -> Actors \cup {Baked, None}]
          BY <2>3 DEF TypeInv, Own, Disk, Package
    <3>2. Own' /\ OpKnown' /\ pc'[a] # "fill" /\ \A b \in Actors \ {a} : pc'[b] = pc[b]
          BY <1>5, <2>1, <2>3, <3>1 DEF PCs, TypeInv, Own
    <3> QED
        BY <2>1, <3>2 DEF TypeInv, Tar, Disk
  <2> QED
      BY <1>12, <2>2, <2>3 DEF OpenDir
<1>13. ASSUME NEW a \in Actors, RemoveFile(a) PROVE TypeInv'
  <2>1. UNCHANGED <<registry, attempted, regime, pc, op, asked, got, base, todo, cur, result>>
        BY <1>13 DEF RemoveFile, actorVars
  <2>2. pkg' \in Package
        BY <1>13, SetFile DEF RemoveFile, Same, TypeInv, Disk, Contents
  <2> QED
      BY <2>1, <2>2 DEF TypeInv, Own, Tar, Disk, OpKnown, Busy
<1>14. ASSUME NEW a \in Actors, RemoveDir(a) PROVE TypeInv'
  <2>1. a \in Busy /\ pkg' \in {pkg, None} /\ (Removed(a) \/ NotRemoved(a))
        /\ regime' \in {regime, "quiet", "littered"}
        /\ UNCHANGED <<registry, attempted, op, asked, todo, cur>>
        BY <1>14 DEF RemoveDir, Busy
  <2> QED
      BY <2>1, GoOn DEF TypeInv, Disk
<1>15. ASSUME NEW a \in Actors, Refresh(a) PROVE TypeInv'
  <2>1. /\ a \in Busy /\ registry' \in {"missing", "torn", "fresh"}
        /\ UNCHANGED <<pkg, attempted, regime, op, asked, todo, cur>>
        BY <1>15 DEF Refresh, Busy, TypeInv, Disk
  <2>2. \/ \E to \in PCs \ {"fill"} : Go(a, to)
        \/ \E r \in Results \cup Releases : End(a, r)
        BY <1>15 DEF Refresh, PCs, Results
  <2> QED
      BY <2>1, <2>2, GoOn DEF TypeInv, Disk
<1>16. ASSUME NEW a \in Actors, Killed(a) PROVE TypeInv'
  <2>1. PICK victims : pc' = [v \in Actors |-> IF v \in victims THEN "killed" ELSE pc[v]]
        BY <1>16 DEF Killed
  <2> QED
      BY <1>16, <2>1 DEF Killed, diskVars, TypeInv, Own, Tar, Disk, OpKnown, Busy, PCs
<1> QED
    BY <1>1, <1>2, <1>3, <1>4, <1>6, <1>7, <1>8, <1>9, <1>10, <1>11, <1>12, <1>13, <1>14,
       <1>15, <1>16
    DEF Next, PackageStep, ParserStep, Actors

\* The package, the processes and their tars hold what the steps can make of
\* them, however many there are and in whatever order they run and die.
THEOREM PackagesTypeCorrect == Spec => []PackagesTypeOK
<1>1. Init => TypeInv
      BY TypesInit DEF Init, TypeInv, PackagesTypeOK, Own, Tar, Disk, OpKnown, Busy
<1>2. TypeInv /\ [Next]_vars => TypeInv'
      BY TypesStep
<1> QED
    BY <1>1, <1>2, TypesKnown, PTL DEF Spec

-----------------------------------------------------------------------------
(* One operation at a time *)

Clean == pkg = None \/ IsWhole

\* What the only actor at work has made of the package so far.
AtPoint(a) ==
    /\ pc[a] = "find" => op[a] = "parse" /\ IF got[a] = None THEN Clean ELSE IsWhole
    /\ pc[a] = "load" => IsWhole
    /\ pc[a] \in {"check", "mark"} => op[a] = "parse" /\ pkg = None
    /\ pc[a] \in {"exists", "refresh"} => op[a] # "parse" /\ Clean
    /\ pc[a] = "mkdir" => pkg = None /\ (op[a] # "parse" => got[a] = Wanted(a))
    /\ pc[a] = "download" /\ op[a] # "parse" => pkg = None
    /\ pc[a] = "tar" \/ (pc[a] = "download" /\ op[a] = "parse") =>
          pkg # None /\ \A f \in Files : pkg.files[f] = None
    /\ pc[a] \in {"tar", "create", "fill", "verify"} => got[a] = Wanted(a)
    /\ pc[a] \in {"create", "fill"} =>
          /\ Same(a) /\ todo[a] # {}
          /\ \A f \in Files \ todo[a] : pkg.files[f] = got[a]
    /\ pc[a] = "fill" => pkg.files[cur[a]] = a
    /\ pc[a] = "verify" => Is(got[a])

\* They work one after the other, and what could not be removed is there ...
Sequential == regime \in {"quiet", "littered"} =>
    /\ \A a \in Actors : pc[a] # "killed" /\ (pc[a] = "idle" => got[a] = None)
    /\ \A a, b \in Busy : a = b
    /\ regime = "littered" => pkg # None

\* ... and, where every removal has succeeded, it is no half one.
QuietInv == Sequential /\ (regime = "quiet" =>
    /\ Busy = {} => Clean
    /\ \A a \in Busy : AtPoint(a))

\* What a reports when it is done is true.
Told(a) ==
    /\ result'[a] \in Releases => Is(result[a])'
    /\ result'[a] \in {"failed", "removed", "absent", "lost"} => pkg' = None
    /\ result'[a] = "installed" => Is(Wanted(a))'
    /\ result'[a] = "updated" => Is(Tag)'

\* It goes on, or is done and has left a whole package or none.
Stands(a) == pc'[a] \in PCs \ {"idle", "done", "killed"} /\ AtPoint(a)'
Leaves(a) == pc'[a] = "done" /\ Clean' /\ Told(a)

LEMMA Goes ==
    ASSUME TypeInv, NEW a \in Actors, NEW to \in PCs, Go(a, to) \/ Goto(a, to)
    PROVE  pc'[a] = to /\ result' = result /\ (Go(a, to) => got' = got /\ base' = base)
BY DEF TypeInv, Own, Go, Goto

LEMMA Ends ==
    ASSUME TypeInv, NEW a \in Actors, NEW r, End(a, r)
    PROVE  pc'[a] = "done" /\ result'[a] = r
BY DEF TypeInv, Own, End

\* A removal ends with no package, where an update installs the next.
LEMMA RemovedStands ==
    ASSUME TypeInv, NEW a \in Actors, op[a] \in Ops, UNCHANGED <<op, asked>>, Removed(a), pkg' = None
    PROVE  Stands(a) \/ Leaves(a)
<1>1. CASE op[a] = "update" /\ Go(a, "exists")
  <2>1. pc'[a] = "exists"
        BY <1>1, Goes DEF PCs
  <2> QED
      BY <1>1, <2>1 DEF Stands, AtPoint, Clean, PCs
<1>2. ASSUME NEW r \in {"removed", "none", "failed", "lost"}, End(a, r)
      PROVE  Leaves(a)
  <2>1. pc'[a] = "done" /\ result'[a] = r /\ r \notin Releases
        BY <1>2, Ends, PackagesAssumption DEF Results
  <2> QED
      BY <1>2, <2>1 DEF Leaves, Clean, Told
<1> QED
    BY <1>1, <1>2 DEF Removed, ToReplace, Ops

\* A parser's step on a package that nobody else touches.
LEMMA ParserStands ==
    ASSUME TypeInv, NEW a \in Busy, AtPoint(a), ParserStep(a)
    PROVE  Stands(a) \/ Leaves(a)
<1>0. a \in Actors
      BY DEF Busy
<1> USE <1>0
<1>1. CASE Find(a)
  <2>1. pkg' = pkg /\ UNCHANGED <<op, asked>> /\ op[a] = "parse" /\ Clean
        BY <1>1 DEF Find, diskVars, AtPoint, Clean
  <2>2. CASE HasWasm /\ Go(a, "load")
    <3>1. pc'[a] = "load" /\ IsWhole
          BY <2>1, <2>2, Goes DEF HasWasm, Clean, PCs
    <3> QED
        BY <2>1, <3>1 DEF Stands, AtPoint, IsWhole, Is, PCs
  <2>3. CASE ~ HasWasm /\ Go(a, "check")
    <3>1. pc'[a] = "check" /\ pkg = None
          BY <2>1, <2>3, Goes, PackagesAssumption DEF HasWasm, Clean, IsWhole, Is, Files, PCs
    <3> QED
        BY <2>1, <3>1 DEF Stands, AtPoint, PCs
  <2>4. CASE End(a, "none")
    <3>1. pc'[a] = "done" /\ result'[a] = "none" /\ "none" \notin Releases
          BY <2>4, Ends, PackagesAssumption DEF Results
    <3> QED
        BY <2>1, <3>1 DEF Leaves, Told, Clean, IsWhole, Is
  <2> QED
      BY <1>1, <2>2, <2>3, <2>4 DEF Find
<1>2. CASE Load(a)
  <2>1. pkg' = pkg /\ IsWhole
        BY <1>2 DEF Load, diskVars, AtPoint
  <2>2. PICK r \in Releases : Is(r)
        BY <2>1 DEF IsWhole
  <2>3. pkg.files["wasm"] = r /\ r # None
        BY <2>2, PackagesAssumption DEF Is, Files
  <2>4. pc'[a] = "done" /\ result'[a] = r
        BY <1>2, <2>2, <2>3, Ends DEF Load, HasWasm, Is
  <2>5. r \notin {"failed", "removed", "absent", "lost", "installed", "updated"}
        BY PackagesAssumption DEF Results
  <2> QED
      BY <2>1, <2>2, <2>4, <2>5 DEF Leaves, Clean, IsWhole, Told, Is
<1>3. CASE CheckAttempted(a)
  <2>1. pkg' = pkg /\ UNCHANGED <<op, asked>> /\ op[a] = "parse" /\ pkg = None
        BY <1>3 DEF CheckAttempted, diskVars, AtPoint
  <2>2. CASE End(a, "none")
    <3>1. pc'[a] = "done" /\ result'[a] = "none" /\ "none" \notin Releases
          BY <2>2, Ends, PackagesAssumption DEF Results
    <3> QED
        BY <2>1, <3>1 DEF Leaves, Told, Clean
  <2>3. CASE Go(a, "mark")
    <3>1. pc'[a] = "mark"
          BY <2>3, Goes DEF PCs
    <3> QED
        BY <2>1, <3>1 DEF Stands, AtPoint, PCs
  <2> QED
      BY <1>3, <2>2, <2>3 DEF CheckAttempted
<1>4. CASE MarkAttempted(a)
  <2>1. pkg' = None /\ UNCHANGED <<op, asked>> /\ op[a] = "parse" /\ pc'[a] = "mkdir"
        BY <1>4, Goes DEF MarkAttempted, AtPoint, PCs
  <2> QED
      BY <2>1 DEF Stands, AtPoint, PCs
<1> QED
    BY <1>1, <1>2, <1>3, <1>4 DEF ParserStep

\* So is a step of an installation, its failures and its cleaning up.
LEMMA PackageStands ==
    ASSUME TypeInv, regime = "quiet", regime' = "quiet", NEW a \in Busy, AtPoint(a),
           PackageStep(a)
    PROVE  Stands(a) \/ Leaves(a)
<1>0. a \in Actors /\ op[a] \in Ops /\ (op[a] = "update" => asked[a] = None)
      BY DEF Busy, TypeInv, OpKnown
<1> USE <1>0
<1>1. ASSUME Go(a, "open"), pkg' = pkg PROVE Stands(a)
  <2>1. pc'[a] = "open"
        BY <1>1, Goes DEF PCs
  <2> QED
      BY <2>1 DEF Stands, AtPoint, PCs
<1>2. ASSUME NEW r \in Results, End(a, r), pkg' = None, r \notin {"installed", "updated"}
      PROVE  Leaves(a)
  <2>1. pc'[a] = "done" /\ result'[a] = r /\ r \notin Releases
        BY <1>2, Ends, PackagesAssumption
  <2> QED
      BY <1>2, <2>1 DEF Leaves, Clean, Told
<1>3. CASE Exists(a)
  <2>1. pkg' = pkg /\ UNCHANGED <<op, asked>> /\ op[a] # "parse" /\ Clean
        BY <1>3 DEF Exists, diskVars, AtPoint
  <2>2. CASE Go(a, "open")
        BY <1>1, <2>1, <2>2
  <2>3. CASE End(a, "already")
    <3>1. pc'[a] = "done" /\ result'[a] = "already" /\ "already" \notin Releases
          BY <2>3, Ends, PackagesAssumption DEF Results
    <3> QED
        BY <2>1, <3>1 DEF Leaves, Told, Clean, IsWhole, Is
  <2>4. CASE pkg = None /\ Go(a, "download")
    <3>1. pc'[a] = "download"
          BY <2>4, Goes DEF PCs
    <3> QED
        BY <2>1, <2>4, <3>1 DEF Stands, AtPoint, PCs
  <2> QED
      BY <1>3, <2>2, <2>3, <2>4 DEF Exists
<1>4. CASE Download(a)
  <2>1. UNCHANGED <<registry, pkg, op, asked>>
        BY <1>4 DEF Download, diskVars
  <2>2. CASE DownloadFails(a)
        BY <1>1, <1>2, <1>4, <2>1, <2>2 DEF DownloadFails, Download, AtPoint, Results
  <2>3. CASE /\ got' = [got EXCEPT ![a] = Wanted(a)]
             /\ Goto(a, IF op[a] = "parse" THEN "tar" ELSE "mkdir")
    <3>1. pc'[a] = (IF op[a] = "parse" THEN "tar" ELSE "mkdir")
          BY <2>3, Goes DEF PCs
    <3>2. got'[a] = Wanted(a) /\ Wanted(a)' = Wanted(a)
          BY <2>1, <2>3 DEF Wanted, Tag, TypeInv, Own
    <3>3. IF op[a] = "parse" THEN pkg # None /\ \A f \in Files : pkg.files[f] = None ELSE pkg = None
          BY <1>4 DEF Download, AtPoint
    <3> QED
        BY <2>1, <3>1, <3>2, <3>3 DEF Stands, AtPoint, PCs
  <2> QED
      BY <1>4, <2>2, <2>3 DEF Download
<1>5. CASE MakeDir(a)
  <2>1. /\ pkg = None /\ UNCHANGED <<op, asked, registry>>
        /\ op[a] # "parse" => got[a] = Wanted(a)
        BY <1>5 DEF MakeDir, AtPoint
  <2>2. CASE End(a, IF op[a] = "parse" THEN "none" ELSE "error") /\ pkg' = pkg
        BY <1>2, <2>1, <2>2 DEF Results
  <2>3. CASE pkg' = Whole(None, a) /\ Go(a, IF op[a] = "parse" THEN "download" ELSE "tar")
    <3>1. pkg' # None /\ \A f \in Files : pkg'.files[f] = None
      <4>1. pkg' = [id |-> a, files |-> [f \in Files |-> None]] /\ pkg' \in Package
            BY <2>3, WholePackage DEF Whole, Contents
      <4> QED
          BY <4>1, NoneIsNoPackage
    <3>2. pc'[a] = (IF op[a] = "parse" THEN "download" ELSE "tar") /\ got' = got
          BY <2>3, Goes DEF PCs
    <3>3. Wanted(a)' = Wanted(a) /\ (op[a] = "parse" => Wanted(a) = Baked)
          BY <2>1 DEF Tag, Wanted
    <3>4. CASE op[a] = "parse"
          BY <2>1, <3>1, <3>2, <3>4 DEF Stands, AtPoint, PCs
    <3>5. CASE op[a] # "parse"
          BY <2>1, <3>1, <3>2, <3>3, <3>5 DEF Stands, AtPoint, PCs
    <3> QED
        BY <3>4, <3>5
  <2> QED
      BY <1>5, <2>1, <2>2, <2>3 DEF MakeDir
<1>6. CASE StartTar(a)
  <2>1. UNCHANGED <<registry, pkg, op, asked>>
        BY <1>6 DEF StartTar, diskVars
  <2>2. CASE Go(a, "open")
        BY <1>1, <2>1, <2>2
  <2>3. CASE /\ base' = [base EXCEPT ![a] = pkg.id] /\ todo' = [todo EXCEPT ![a] = Files]
             /\ pkg # None /\ Goto(a, "create") /\ got' = got
    <3>1. pc'[a] = "create" /\ base'[a] = pkg.id /\ todo'[a] = Files
          BY <2>3, Goes DEF PCs, TypeInv, Own, Tar
    <3>2. got[a] = Wanted(a) /\ Wanted(a)' = Wanted(a)
          BY <1>6, <2>1 DEF StartTar, AtPoint, Wanted, Tag
    <3>3. Files # {}
          BY DEF Files
    <3> QED
        BY <2>1, <2>3, <3>1, <3>2, <3>3 DEF Stands, AtPoint, Same, PCs
  <2> QED
      BY <1>6, <2>2, <2>3 DEF StartTar
<1>7. CASE CreateFile(a)
  <2>1. PICK f \in todo[a] : pkg' = [pkg EXCEPT !.files[f] = a] /\ cur' = [cur EXCEPT ![a] = f]
        BY <1>7 DEF CreateFile
  <2>2. /\ UNCHANGED <<registry, op, asked, todo>> /\ f \in Files /\ pkg # None /\ pkg \in Package
        /\ Same(a) /\ got[a] = Wanted(a)
        /\ \A g \in Files \ todo[a] : pkg.files[g] = got[a]
        BY <1>7, <2>1 DEF CreateFile, Same, TypeInv, Tar, Disk, AtPoint
  <2>3. pc'[a] = "fill" /\ got' = got /\ base' = base
        BY <1>7, Goes DEF CreateFile, PCs
  <2>4. /\ pkg' \in Package /\ pkg'.id = pkg.id /\ pkg'.files = [pkg.files EXCEPT ![f] = a]
        BY <2>1, <2>2, SetFile DEF Contents
  <2>5. /\ pkg' # None /\ pkg'.files[f] = a /\ cur'[a] = f
        /\ \A g \in Files \ {f} : pkg'.files[g] = pkg.files[g]
        BY <2>1, <2>2, <2>4, NoneIsNoPackage DEF Package, TypeInv, Tar
  <2>6. Wanted(a)' = Wanted(a) /\ Same(a)'
        BY <2>2, <2>3, <2>4, <2>5 DEF Wanted, Tag, Same
  <2> QED
      BY <2>1, <2>2, <2>3, <2>5, <2>6 DEF Stands, AtPoint, PCs
<1>8. CASE FillFile(a)
  <2> DEFINE f == cur[a]
  <2>1. /\ UNCHANGED <<registry, op, asked>> /\ f \in todo[a] /\ f \in Files /\ pkg # None /\ pkg \in Package
        /\ Same(a) /\ got[a] = Wanted(a) /\ pkg.files[f] = a
        /\ \A g \in Files \ todo[a] : pkg.files[g] = got[a]
        BY <1>8 DEF FillFile, Same, TypeInv, Tar, Disk, AtPoint
  <2>2. pkg' = [pkg EXCEPT !.files[f] = got[a]] /\ todo' = [todo EXCEPT ![a] = todo[a] \ {f}]
        BY <1>8, <2>1 DEF FillFile
  <2>3. /\ pkg' \in Package /\ pkg'.id = pkg.id /\ pkg'.files = [pkg.files EXCEPT ![f] = got[a]]
        BY <2>1, <2>2, SetFile DEF Contents, TypeInv, Own
  <2>4. /\ pkg' # None /\ pkg'.files[f] = got[a] /\ todo'[a] = todo[a] \ {f}
        /\ \A g \in Files \ {f} : pkg'.files[g] = pkg.files[g]
        BY <2>1, <2>2, <2>3, NoneIsNoPackage DEF Package, TypeInv, Tar
  <2>5. /\ pc'[a] = (IF todo[a] = {f} THEN "verify" ELSE "create") /\ got' = got /\ base' = base
        BY <1>8, Goes DEF FillFile, PCs
  <2>6. Wanted(a)' = Wanted(a) /\ Same(a)'
        BY <2>1, <2>3, <2>4, <2>5 DEF Wanted, Tag, Same
  <2>7. \A g \in Files \ todo'[a] : pkg'.files[g] = got[a]
        BY <2>1, <2>4
  <2>8. CASE todo[a] = {f}
    <3>1. Is(got[a])'
          BY <2>4, <2>5, <2>7, <2>8 DEF Is
    <3> QED
        BY <2>1, <2>5, <2>6, <2>8, <3>1 DEF Stands, AtPoint, PCs
  <2>9. CASE todo[a] # {f}
    <3>1. todo'[a] # {}
          BY <2>1, <2>4, <2>9
    <3> QED
        BY <2>1, <2>5, <2>6, <2>7, <2>9, <3>1 DEF Stands, AtPoint, PCs
  <2> QED
      BY <2>8, <2>9
<1>9. CASE TarFails(a)
      BY <1>1, <1>9 DEF TarFails, diskVars
<1>10. CASE Verify(a)
  <2>1. /\ UNCHANGED <<registry, pkg, op, asked>> /\ Is(Wanted(a)) /\ Wanted(a) \in Releases
        /\ got[a] = Wanted(a) /\ op[a] = "update" => Wanted(a) = Tag
    <3>1. UNCHANGED <<registry, pkg, op, asked>> /\ Is(got[a]) /\ got[a] = Wanted(a)
          BY <1>10 DEF Verify, diskVars, AtPoint
    <3> QED
        BY <1>0, <3>1, WantedTypes DEF Wanted
  <2>2. ASSUME NEW r \in {"installed", "updated"}, End(a, r),
               r = "installed" => op[a] = "install", r = "updated" => op[a] = "update"
        PROVE  Leaves(a)
    <3>1. pc'[a] = "done" /\ result'[a] = r /\ r \notin Releases
          BY <2>2, Ends, PackagesAssumption DEF Results
    <3>2. Is(Wanted(a))' /\ Wanted(a)' = Wanted(a) /\ (r = "updated" => Is(Tag)')
          BY <2>1, <2>2 DEF Wanted, Is, Tag
    <3> QED
        BY <2>1, <2>2, <3>1, <3>2 DEF Leaves, Told, Clean, IsWhole
  <2>3. CASE op[a] = "parse" /\ Go(a, "find")
    <3>1. pc'[a] = "find" /\ got' = got
          BY <2>3, Goes DEF PCs
    <3> QED
        BY <2>1, <2>3, <3>1 DEF Stands, AtPoint, Clean, IsWhole, Is, PCs
  <2>4. CASE Go(a, "open")
        BY <1>1, <2>1, <2>4
  <2> QED
      BY <1>10, <2>2, <2>3, <2>4 DEF Verify
<1>11. CASE OpenDir(a)
  <2>1. CASE pkg = None /\ Removed(a)
        BY <1>11, <2>1, RemovedStands DEF OpenDir, diskVars
  <2>2. CASE Goto(a, "rm")
    <3>1. pc'[a] = "rm"
          BY <2>2, Goes DEF PCs
    <3> QED
        BY <3>1 DEF Stands, AtPoint, PCs
  <2> QED
      BY <1>11, <2>1, <2>2 DEF OpenDir
<1>12. CASE RemoveFile(a)
  <2>1. pc'[a] = "rm"
        BY <1>12 DEF RemoveFile, actorVars
  <2> QED
      BY <2>1 DEF Stands, AtPoint, PCs
<1>13. CASE RemoveDir(a)
      BY <1>13, RemovedStands DEF RemoveDir
<1>14. CASE Refresh(a)
  <2>1. pkg' = pkg /\ UNCHANGED <<op, asked>> /\ Clean /\ op[a] # "parse"
        BY <1>14 DEF Refresh, AtPoint
  <2> QED
      BY <1>1, <1>2, <1>14, <2>1 DEF Refresh, Results
<1> QED
    BY <1>3, <1>4, <1>5, <1>6, <1>7, <1>8, <1>9, <1>10, <1>11, <1>12, <1>13, <1>14
    DEF PackageStep

\* A step of an operation is its actor's alone.
LEMMA OneMoves ==
    ASSUME TypeInv, NEW a \in Actors, PackageStep(a) \/ ParserStep(a)
    PROVE  /\ a \in Busy /\ pc'[a] \notin {"idle", "killed"}
           /\ regime' = regime \/ RemoveDir(a)
           /\ regime' \in {"quiet", "littered"} => regime \in {"quiet", "littered"}
           /\ pkg # None /\ pkg' = None => RemoveDir(a)
           /\ \A b \in Actors \ {a} :
                 pc'[b] = pc[b] /\ result'[b] = result[b] /\ got'[b] = got[b]
<1>1. a \in Busy /\ op[a] \in Ops
  <2>1. a \in Busy
        BY DEF PackageStep, ParserStep, Busy, Find, Load, CheckAttempted, MarkAttempted, Exists,
           Download, MakeDir, StartTar, CreateFile, FillFile, TarFails, Verify, OpenDir,
           RemoveFile, RemoveDir, Refresh
  <2> QED
      BY <2>1 DEF TypeInv, OpKnown
<1> DEFINE Working == PCs \ {"idle", "killed", "done"}
<1>2. /\ regime' = regime \/ RemoveDir(a)
      /\ \/ UNCHANGED <<pc, result>>
         \/ \E to \in Working : Goto(a, to)
         \/ \E r : End(a, r)
  <2>1. Removed(a) \/ NotRemoved(a) => (\E to \in Working : Goto(a, to)) \/ \E r : End(a, r)
        BY <1>1 DEF Removed, NotRemoved, Go, Ops, PCs
  <2>2. CASE ParserStep(a)
        BY <2>2 DEF ParserStep, Find, Load, CheckAttempted, MarkAttempted, Go, diskVars, PCs
  <2>3. CASE Exists(a) \/ Download(a) \/ MakeDir(a) \/ StartTar(a)
    <3>1. Exists(a) => (\E to \in Working : Goto(a, to)) \/ \E r : End(a, r)
          BY <1>1 DEF Exists, Go, PCs
    <3>2. CASE Exists(a) \/ StartTar(a)
          BY <3>1, <3>2 DEF Exists, StartTar, Go, diskVars, PCs
    <3>3. CASE Download(a)
          BY <3>3 DEF Download, DownloadFails, Go, diskVars, PCs
    <3>4. CASE MakeDir(a)
          BY <3>4 DEF MakeDir, Go, PCs
    <3> QED
        BY <2>3, <3>2, <3>3, <3>4
  <2>4. CASE CreateFile(a) \/ FillFile(a) \/ TarFails(a) \/ Verify(a)
        BY <2>4 DEF CreateFile, FillFile, TarFails, Verify, Go, diskVars, PCs
  <2>5. CASE OpenDir(a) \/ RemoveFile(a) \/ RemoveDir(a) \/ Refresh(a)
        BY <2>1, <2>5 DEF OpenDir, RemoveFile, RemoveDir, Refresh, Go, actorVars, diskVars, PCs
  <2> QED
      BY <2>2, <2>3, <2>4, <2>5 DEF PackageStep
<1> DEFINE GotOfOthers == got' = got \/ \E r : got' = [got EXCEPT ![a] = r]
<1>3. GotOfOthers
  <2>1. Removed(a) \/ NotRemoved(a) => GotOfOthers
        BY <1>1 DEF Removed, NotRemoved, Go, End, Ops
  <2>2. CASE ParserStep(a)
        BY <2>2 DEF ParserStep, Find, Load, CheckAttempted, MarkAttempted, Go, End
  <2>3. CASE Exists(a)
        BY <1>1, <2>3 DEF Exists, Go, End
  <2>4. CASE Download(a) \/ MakeDir(a) \/ StartTar(a) \/ CreateFile(a) \/ FillFile(a)
             \/ TarFails(a) \/ Verify(a)
        BY <2>4 DEF Download, DownloadFails, MakeDir, StartTar, CreateFile, FillFile, TarFails,
           Verify, Go, End
  <2>5. CASE OpenDir(a) \/ RemoveFile(a) \/ RemoveDir(a) \/ Refresh(a)
        BY <2>1, <2>5 DEF OpenDir, RemoveFile, RemoveDir, Refresh, Go, End, actorVars
  <2> QED
      BY <2>2, <2>3, <2>4, <2>5 DEF PackageStep
<1>4. RemoveDir(a) => (regime' \in {"quiet", "littered"} => regime \in {"quiet", "littered"})
      BY DEF RemoveDir
<1>5. pkg # None /\ pkg' = None => RemoveDir(a)
  <2> SUFFICES ASSUME pkg # None, pkg' = None, ~ RemoveDir(a) PROVE FALSE
      OBVIOUS
  <2>1. pkg \in Package
        BY DEF TypeInv, Disk
  <2>2. ASSUME NEW f \in Files, NEW v \in Contents, pkg' = [pkg EXCEPT !.files[f] = v]
        PROVE  FALSE
        BY <2>1, <2>2, SetFile, NoneIsNoPackage
  <2>3. CASE CreateFile(a)
        BY <2>2, <2>3 DEF CreateFile, TypeInv, Tar, Contents
  <2>4. CASE FillFile(a)
        BY <2>2, <2>4 DEF FillFile, TypeInv, Tar, Own, Contents
  <2>5. CASE RemoveFile(a)
        BY <2>2, <2>5 DEF RemoveFile, Contents
  <2>6. CASE MakeDir(a)
        BY <2>6 DEF MakeDir
  <2> QED
      BY <2>3, <2>4, <2>5, <2>6 DEF PackageStep, ParserStep, Find, Load, CheckAttempted,
         MarkAttempted, Exists, Download, StartTar, TarFails, Verify, OpenDir, Refresh, diskVars
<1>6. pc'[a] \notin {"idle", "killed"}
      BY <1>1, <1>2 DEF Goto, End, TypeInv, Own, Busy
<1> QED
    BY <1>1, <1>2, <1>3, <1>4, <1>5, <1>6 DEF Goto, End, TypeInv, Own

\* Where nothing is littered after a step, it stands or leaves no half package;
\* the removal that ends the litter does too.
LEMMA ReportStands ==
    ASSUME TypeInv, QuietInv, NEW a \in Busy, PackageStep(a) \/ ParserStep(a),
           regime' = "quiet"
    PROVE  Stands(a) \/ Leaves(a)
<1>1. /\ a \in Actors /\ op[a] \in Ops /\ regime \in {"quiet", "littered"}
      /\ regime' = regime \/ RemoveDir(a)
      BY OneMoves DEF Busy, TypeInv, OpKnown
<1>2. CASE regime = "quiet"
  <2>1. AtPoint(a)
        BY <1>2 DEF QuietInv
  <2> QED
      BY <1>2, <2>1, ParserStands, PackageStands
<1>3. CASE regime = "littered"
  <2>1. pkg' = None /\ Removed(a) /\ UNCHANGED <<op, asked>>
        BY <1>1, <1>3 DEF RemoveDir, QuietInv, Sequential
  <2> QED
      BY <1>1, <2>1, RemovedStands
<1> QED
    BY <1>1, <1>2, <1>3

LEMMA QuietStep ==
    ASSUME TypeInv, QuietInv, [Next]_vars PROVE QuietInv'
<1> SUFFICES ASSUME regime' \in {"quiet", "littered"}
             PROVE  /\ \A a \in Actors :
                          pc'[a] # "killed" /\ (pc'[a] = "idle" => got'[a] = None)
                    /\ \A a, b \in Busy' : a = b
                    /\ regime' = "littered" => pkg' # None
                    /\ regime' = "quiet" => /\ Busy' = {} => Clean'
                                            /\ \A a \in Busy' : AtPoint(a)'
    BY DEF QuietInv, Sequential
<1>1. CASE UNCHANGED vars
      BY <1>1 DEF vars, diskVars, actorVars, QuietInv, Sequential, Busy, Clean, IsWhole, Is,
         AtPoint, Wanted, Tag, Same
<1>2. ASSUME NEW a \in Actors, Begin(a)
      PROVE  /\ \A b \in Actors : pc'[b] # "killed" /\ (pc'[b] = "idle" => got'[b] = None)
             /\ Busy' = {a} /\ (regime' = "littered" => pkg' # None)
             /\ regime' = "quiet" => AtPoint(a)'
  <2>1. /\ regime' = regime /\ Busy = {} /\ pkg' = pkg /\ Sequential
        /\ regime = "quiet" => Clean
        BY <1>2 DEF Begin, diskVars, QuietInv
  <2>2. PICK o \in IF a \in Threads THEN {"parse"} ELSE Ops \ {"parse"},
             r \in Releases \cup {None} :
           /\ op' = [op EXCEPT ![a] = o]
           /\ Go(a, CASE o = "parse" -> "find"
                      [] o = "update" -> "refresh"
                      [] o \in {"install", "remove"} -> "exists")
        BY <1>2 DEF Begin
  <2>3. o \in Ops
        BY <2>2 DEF Ops
  <2>4. PICK to \in {"find", "refresh", "exists"} :
           Go(a, to) /\ (o = "parse" <=> to = "find")
        BY <2>2, <2>3 DEF Ops
  <2>5. /\ pc' = [pc EXCEPT ![a] = to] /\ op'[a] = o /\ pc'[a] = to
        BY <2>2, <2>4 DEF Go, Goto, TypeInv, Own
  <2>6. /\ Busy' = {a} /\ (regime' = "littered" => pkg' # None)
        /\ \A b \in Actors : pc'[b] # "killed" /\ (pc'[b] = "idle" => got'[b] = None)
        BY <2>1, <2>4, <2>5 DEF Busy, TypeInv, Own, Sequential, Go
  <2>7. regime' = "quiet" => Clean'
        BY <2>1 DEF Clean, IsWhole, Is
  <2>8. got'[a] = None
        BY <1>2, <2>1, <2>4 DEF Begin, Sequential, Go
  <2> QED
      BY <2>4, <2>5, <2>6, <2>7, <2>8 DEF AtPoint
<1>3. ASSUME NEW a \in Actors, PackageStep(a) \/ (a \in Threads /\ ParserStep(a))
      PROVE  /\ \A b \in Actors : pc'[b] # "killed" /\ (pc'[b] = "idle" => got'[b] = None)
             /\ regime' = "littered" => pkg' # None
             /\ \/ Busy' = {a} /\ (regime' = "quiet" => AtPoint(a)')
                \/ Busy' = {} /\ (regime' = "quiet" => Clean')
  <2>1. /\ a \in Busy /\ regime \in {"quiet", "littered"}
        /\ regime' = regime \/ RemoveDir(a)
        /\ pkg # None /\ pkg' = None => RemoveDir(a)
        /\ pc'[a] \notin {"idle", "killed"}
        /\ \A b \in Actors \ {a} : pc'[b] = pc[b] /\ got'[b] = got[b]
        BY <1>3, OneMoves
  <2>2. /\ Busy = {a} /\ (regime = "quiet" => AtPoint(a))
        /\ regime = "littered" => pkg # None
        /\ \A b \in Actors : pc[b] # "killed" /\ (pc[b] = "idle" => got[b] = None)
        BY <2>1 DEF QuietInv, Sequential
  <2>3. \A b \in Actors : pc'[b] # "killed" /\ (pc'[b] = "idle" => got'[b] = None)
        BY <2>1, <2>2
  <2>4. regime' = "littered" => pkg' # None
    <3>1. RemoveDir(a) /\ regime' = "littered" => pkg' # None
          BY <2>1, <2>2 DEF RemoveDir
    <3> QED
        BY <2>1, <2>2, <3>1
  <2>5. Busy' = IF pc'[a] = "done" THEN {} ELSE {a}
    <3>1. \A b \in Actors \ {a} : pc[b] \in {"idle", "done"}
          BY <2>2 DEF Busy
    <3> QED
        BY <2>1, <3>1 DEF Busy
  <2>6. regime' = "quiet" => Stands(a) \/ Leaves(a)
        BY <1>3, <2>1, ReportStands
  <2>7. regime' = "quiet" => IF pc'[a] = "done" THEN Clean' ELSE AtPoint(a)'
        BY <2>6 DEF Stands, Leaves
  <2> QED
      BY <2>3, <2>4, <2>5, <2>7
<1>4. ASSUME NEW a \in Actors, Killed(a) PROVE FALSE
      BY <1>4 DEF Killed, diskVars
<1> QED
    BY <1>1, <1>2, <1>3, <1>4 DEF Next, Actors

LEMMA QuietInvariant == Spec => [](TypeInv /\ QuietInv)
<1>1. Init => TypeInv /\ QuietInv
  <2> SUFFICES ASSUME Init PROVE TypeInv /\ QuietInv
      OBVIOUS
  <2>1. TypeInv
        BY TypesInit DEF Init, TypeInv, PackagesTypeOK, Own, Tar, Disk, OpKnown, Busy
  <2>2. Clean
        BY DEF Init, Clean, IsWhole, Is, Whole, Releases
  <2> QED
      BY <2>1, <2>2 DEF Init, QuietInv, Sequential, Busy
<1>2. TypeInv /\ QuietInv /\ [Next]_vars => TypeInv' /\ QuietInv'
      BY TypesStep, QuietStep
<1> QED
    BY <1>1, <1>2, PTL DEF Spec

\* Installing, updating, removing and parsing, one after the other and each
\* failing where it may, never leave half a package.
THEOREM PackagesStayWhole == Spec => []WholeOrAbsent
<1>1. QuietInv => WholeOrAbsent
      BY DEF QuietInv, WholeOrAbsent, Clean
<1> QED
    BY <1>1, QuietInvariant, PTL

\* And what they report is what they leave.
THEOREM ReportsTrue == Spec => ReportsAreTrue
<1>1. TypeInv /\ QuietInv /\ [Next]_vars =>
        [\A a \in Actors :
           regime' = "quiet" /\ pc[a] # "done" /\ pc'[a] = "done" =>
              CASE result'[a] \in Releases -> Is(result[a])'
                [] result'[a] \in {"failed", "removed", "absent", "lost"} -> pkg' = None
                [] result'[a] = "installed" -> Is(Wanted(a))'
                [] result'[a] = "updated" -> Is(Tag)'
                [] OTHER -> TRUE]_vars
  <2> SUFFICES ASSUME TypeInv, QuietInv, Next, NEW a \in Actors, regime' = "quiet",
                      pc[a] # "done", pc'[a] = "done"
               PROVE  CASE result'[a] \in Releases -> Is(result[a])'
                        [] result'[a] \in {"failed", "removed", "absent", "lost"} -> pkg' = None
                        [] result'[a] = "installed" -> Is(Wanted(a))'
                        [] result'[a] = "updated" -> Is(Tag)'
                        [] OTHER -> TRUE
      OBVIOUS
  <2>1. PICK b \in Actors :
           Begin(b) \/ PackageStep(b) \/ Killed(b) \/ (b \in Threads /\ ParserStep(b))
        BY DEF Next, Actors
  <2>2. PackageStep(b) \/ ParserStep(b)
    <3>1. ASSUME Begin(b) PROVE FALSE
      <4>1. PICK to \in {"find", "refresh", "exists"} : Go(b, to)
            BY <3>1 DEF Begin, Ops
      <4> QED
          BY <4>1 DEF Go, Goto, TypeInv, Own
    <3>2. ASSUME Killed(b) PROVE FALSE
          BY <3>2 DEF Killed, diskVars
    <3> QED
        BY <2>1, <3>1, <3>2
  <2>3. b = a /\ a \in Busy
        BY <2>2, OneMoves
  <2>4. Stands(a) \/ Leaves(a)
        BY <2>2, <2>3, ReportStands
  <2>5. Told(a)
        BY <2>4 DEF Stands, Leaves
  <2>6. Releases \cap {"failed", "removed", "absent", "lost", "installed", "updated"} = {}
        BY PackagesAssumption DEF Results
  <2> QED
      BY <2>5, <2>6 DEF Told
<1> QED
    BY <1>1, QuietInvariant, PTL DEF Spec, ReportsAreTrue
=============================================================================
