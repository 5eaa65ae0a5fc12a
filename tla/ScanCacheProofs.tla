---------------------------- MODULE ScanCacheProofs ----------------------------
(***************************************************************************)
(* What a scan without --cache returns is current, for any files, texts and *)
(* invocations; one with it may be wrong only of files saved unseen or left  *)
(* out of a scan that was stored.                                            *)
(***************************************************************************)
EXTENDS ScanCache, TLAPS

\* What the control points say of the files an invocation has still to look at.
TodoShape ==
    \A p \in Procs :
        /\ pc[p] \in {"rebuild", "scan"} => todo[p] \subseteq scope[p]
        /\ pc[p] = "rebuild" => \A f \in todo[p] : entries[p][f] # None
        /\ pc[p] = "stamp" => \A f \in todo[p] : result[p][f] # None

Shape == ScanTypeOK /\ TodoShape

\* A file is read into the result of one invocation, which stays well typed.
LEMMA ReadTyped ==
    ASSUME Shape, NEW p \in Procs, NEW f \in scope[p], NEW s,
           disk[f] # None => s \in Texts, ReadInto(p, f, s)
    PROVE  /\ todo' = [todo EXCEPT ![p] = todo[p] \ {f}]
           /\ result' \in [Procs -> [Files -> Symbols \cup {None}]]
           /\ \A q \in Procs \ {p} : result'[q] = result[q]
           /\ \A g \in Files \ {f} : result'[p][g] = result[p][g]
           /\ result'[p][f] = IF disk[f] = None THEN None
                              ELSE [symbols |-> s, source |-> disk[f].text]
<1> DEFINE new == IF disk[f] = None THEN None
                  ELSE [symbols |-> s, source |-> disk[f].text]
<1>1. f \in Files /\ new \in Symbols \cup {None}
      BY DEF Shape, ScanTypeOK, Symbols, File
<1>2. result[p] \in [Files -> Symbols \cup {None}]
      BY DEF Shape, ScanTypeOK
<1>3. result' = [result EXCEPT ![p] = [result[p] EXCEPT ![f] = new]]
      BY DEF ReadInto
<1>4. [result[p] EXCEPT ![f] = new] \in [Files -> Symbols \cup {None}]
      BY <1>1, <1>2
<1>5. todo' = [todo EXCEPT ![p] = todo[p] \ {f}]
      BY DEF ReadInto, Tick
<1> HIDE DEF new
<1>6. /\ result' \in [Procs -> [Files -> Symbols \cup {None}]]
      /\ \A q \in Procs \ {p} : result'[q] = result[q]
      /\ result'[p] = [result[p] EXCEPT ![f] = new]
      BY <1>3, <1>4 DEF Shape, ScanTypeOK
<1>7. /\ \A g \in Files \ {f} : result'[p][g] = result[p][g]
      /\ result'[p][f] = new
      BY <1>1, <1>2, <1>6
<1> QED
      BY <1>5, <1>6, <1>7 DEF new

\* At first nobody scans and there is no cache.
LEMMA ShapeInit == Init => Shape
<1> SUFFICES ASSUME Init PROVE Shape
    OBVIOUS
<1>1. disk \in [Files -> File \cup {None}]
      BY ScanAssumption DEF Init, File
<1>2. NoFiles \in Entries /\ NoFiles \in [Files -> Symbols \cup {None}]
      BY DEF NoFiles, Entries
<1> QED
      BY <1>1, <1>2, ScanAssumption DEF Init, Shape, ScanTypeOK, TodoShape, PCs, NoFiles

\* No step of a scan, and nothing beside it, breaks Shape.
LEMMA ShapeStep == Shape /\ [Next]_vars => Shape'
<1> SUFFICES ASSUME Shape, [Next]_vars PROVE Shape'
    OBVIOUS
<1>0. NoFiles \in Entries /\ NoFiles \in [Files -> Symbols \cup {None}]
      /\ \A f \in Files : NoFiles[f] = None
      BY DEF NoFiles, Entries
<1> USE ScanAssumption DEF Shape, blind
<1>1. ASSUME NEW p \in Procs, NEW s \in Scopes, NEW c \in BOOLEAN, Begin(p, s, c)
      PROVE  Shape'
  <2>1. [f \in Files |-> {TextOf(disk[f])}] \in [Files -> SUBSET (Texts \cup {None})]
        BY DEF ScanTypeOK, TextOf, File
  <2>2. s \subseteq Files
        OBVIOUS
  <2> HIDE ScanAssumption
  <2> QED
        BY <1>0, <1>1, <2>1, <2>2 DEF Begin, ScanTypeOK, TodoShape, Goto, PCs
<1>2. ASSUME NEW p \in Procs, LoadHit(p) PROVE Shape'
      BY <1>2 DEF LoadHit, ScanTypeOK, TodoShape, Goto, PCs, Entries
<1>3. ASSUME NEW p \in Procs, LoadMiss(p) PROVE Shape'
      BY <1>3 DEF LoadMiss, ScanTypeOK, TodoShape, Goto, PCs
<1>4. ASSUME NEW p \in Procs, NEW f \in Files, ValidateFile(p, f) PROVE Shape'
  <2>1. CASE IsValid(p, f)
    <3>1. /\ todo' = [todo EXCEPT ![p] = todo[p] \ {f}]
          /\ UNCHANGED <<disk, now, cache, pc, cached, scope, entries, result, linked, saw, blind>>
          /\ pc[p] = "validate"
          BY <1>4, <2>1 DEF ValidateFile, Tick
    <3> QED
        BY <3>1 DEF ScanTypeOK, TodoShape
  <2>2. CASE ~ IsValid(p, f)
    <3>1. /\ pc' = [pc EXCEPT ![p] = "discover"]
          /\ todo' = [todo EXCEPT ![p] = {}]
          /\ entries' = [entries EXCEPT ![p] = NoFiles]
          /\ UNCHANGED <<disk, now, cache, cached, scope, result, linked, saw, blind>>
          BY <1>4, <2>2 DEF ValidateFile, Goto
    <3> QED
        BY <1>0, <3>1 DEF ScanTypeOK, TodoShape, PCs
  <2> QED
        BY <2>1, <2>2
<1>5. ASSUME NEW p \in Procs, Validated(p) PROVE Shape'
      BY <1>5 DEF Validated, ScanTypeOK, TodoShape, Goto, PCs
<1>6. ASSUME NEW p \in Procs, NEW f \in Files, RebuildFile(p, f) PROVE Shape'
  <2>1. f \in scope[p] /\ entries[p][f] \in Entry
        BY <1>6 DEF RebuildFile, ScanTypeOK, TodoShape, Entries
  <2>2. entries[p][f].symbols \in Texts
        BY <2>1 DEF Entry
  <2>3. /\ todo' = [todo EXCEPT ![p] = todo[p] \ {f}]
        /\ result' \in [Procs -> [Files -> Symbols \cup {None}]]
        /\ \A q \in Procs \ {p} : result'[q] = result[q]
        /\ \A g \in Files \ {f} : result'[p][g] = result[p][g]
        BY <1>6, <2>1, <2>2, ReadTyped DEF RebuildFile
  <2>4. ASSUME NEW q \in Procs, NEW g \in Files \ scope[q] PROVE result'[q][g] = None
    <3>1. result[q][g] = None
          BY DEF ScanTypeOK
    <3>2. CASE q = p
          BY <2>1, <2>3, <3>1, <3>2
    <3>3. CASE q # p
          BY <2>3, <3>1, <3>3
    <3> QED
        BY <3>2, <3>3
  <2>5. UNCHANGED <<disk, now, cache, pc, cached, scope, entries, linked, saw, blind>>
        /\ pc[p] = "rebuild"
        BY <1>6 DEF RebuildFile
  <2>6. ScanTypeOK'
        BY <2>3, <2>4, <2>5 DEF ScanTypeOK
  <2> QED
        BY <2>3, <2>5, <2>6 DEF TodoShape, ScanTypeOK
<1>7. ASSUME NEW p \in Procs, Discover(p) PROVE Shape'
      BY <1>7 DEF Discover, ScanTypeOK, TodoShape, Goto, PCs
<1>8. ASSUME NEW p \in Procs, NEW f \in Files, ScanFile(p, f) PROVE Shape'
  <2>1. f \in scope[p] /\ (disk[f] # None => TextOf(disk[f]) \in Texts)
        BY <1>8 DEF ScanFile, ScanTypeOK, TodoShape, TextOf, File
  <2>2. /\ todo' = [todo EXCEPT ![p] = todo[p] \ {f}]
        /\ result' \in [Procs -> [Files -> Symbols \cup {None}]]
        /\ \A q \in Procs \ {p} : result'[q] = result[q]
        /\ \A g \in Files \ {f} : result'[p][g] = result[p][g]
        BY <1>8, <2>1, ReadTyped DEF ScanFile
  <2>3. ASSUME NEW q \in Procs, NEW g \in Files \ scope[q] PROVE result'[q][g] = None
    <3>1. result[q][g] = None
          BY DEF ScanTypeOK
    <3>2. CASE q = p
          BY <2>1, <2>2, <3>1, <3>2
    <3>3. CASE q # p
          BY <2>2, <3>1, <3>3
    <3> QED
        BY <3>2, <3>3
  <2>4. UNCHANGED <<disk, now, cache, pc, cached, scope, entries, linked, saw, blind>>
        /\ pc[p] = "scan"
        BY <1>8 DEF ScanFile
  <2>5. ScanTypeOK'
        BY <2>2, <2>3, <2>4 DEF ScanTypeOK
  <2> QED
        BY <2>2, <2>4, <2>5 DEF TodoShape, ScanTypeOK
<1>9. ASSUME NEW p \in Procs, Rebuilt(p) PROVE Shape'
      BY <1>0, <1>9 DEF Rebuilt, Returns, ScanTypeOK, TodoShape, Goto, PCs
<1>10. ASSUME NEW p \in Procs, Scanned(p) PROVE Shape'
  <2>1. CASE cached[p]
    <3>1. /\ pc' = [pc EXCEPT ![p] = "stamp"]
          /\ todo' = [todo EXCEPT ![p] = {f \in Files : result[p][f] # None}]
          /\ UNCHANGED <<disk, now, cache, cached, scope, entries, result, linked, saw, blind>>
          BY <1>10, <2>1 DEF Scanned, Goto
    <3> QED
        BY <3>1 DEF ScanTypeOK, TodoShape, PCs
  <2>2. CASE ~ cached[p]
    <3>1. /\ pc' = [pc EXCEPT ![p] = "done"]
          /\ entries' = [entries EXCEPT ![p] = NoFiles]
          /\ UNCHANGED <<disk, now, cache, cached, scope, todo, result, linked, saw, blind>>
          BY <1>10, <2>2 DEF Scanned, Returns, Goto
    <3> QED
        BY <1>0, <3>1 DEF ScanTypeOK, TodoShape, PCs
  <2> QED
        BY <2>1, <2>2
<1>11. ASSUME NEW p \in Procs, NEW f \in Files, StampFile(p, f) PROVE Shape'
  <2> DEFINE new == IF disk[f] = None THEN None
                    ELSE [mtime |-> disk[f].mtime, size |-> Size[disk[f].text],
                          symbols |-> result[p][f].symbols]
  <2>1. result[p][f] \in Symbols
        BY <1>11 DEF StampFile, ScanTypeOK, TodoShape
  <2>2. new \in Entry \cup {None}
        BY <2>1 DEF ScanTypeOK, Symbols, File, Entry
  <2>3. entries' = [entries EXCEPT ![p] = [entries[p] EXCEPT ![f] = new]]
        BY <1>11 DEF StampFile
  <2> HIDE DEF new
  <2>4. [entries[p] EXCEPT ![f] = new] \in Entries
        BY <2>2 DEF ScanTypeOK, Entries
  <2>5. entries' \in [Procs -> Entries]
        BY <2>3, <2>4 DEF ScanTypeOK
  <2> QED
        BY <1>11, <2>5 DEF StampFile, Tick, ScanTypeOK, TodoShape
<1>12. ASSUME NEW p \in Procs, Stamped(p) PROVE Shape'
      BY <1>12 DEF Stamped, ScanTypeOK, TodoShape, Goto, PCs
<1>13. ASSUME NEW p \in Procs, Create(p) PROVE Shape'
      BY <1>13 DEF Create, ScanTypeOK, TodoShape, Goto, PCs
<1>14. ASSUME NEW p \in Procs, Write(p) PROVE Shape'
      BY <1>0, <1>14 DEF Write, Returns, ScanTypeOK, TodoShape, Goto, PCs
<1>15. ASSUME NEW p \in Procs, StoreFails(p) PROVE Shape'
      BY <1>0, <1>15 DEF StoreFails, Returns, ScanTypeOK, TodoShape, Goto, PCs
<1>16. ASSUME NEW p \in Procs, Kill(p) PROVE Shape'
      BY <1>0, <1>16 DEF Kill, ScanTypeOK, TodoShape, Goto, PCs
<1>17. CASE Clear
  <2>1. unseen' \subseteq Files /\ leftOut' \subseteq Files
        BY <1>17 DEF Clear, ScanTypeOK
  <2> QED
        BY <1>17, <2>1 DEF Clear, procVars, ScanTypeOK, TodoShape
<1>18. CASE Second
      BY <1>18 DEF Second, procVars, ScanTypeOK, TodoShape
<1>19. ASSUME NEW f \in Files, NEW file \in File \cup {None}, Change(f, file),
             unseen' \subseteq Files
       PROVE  Shape'
  <2>1. disk' \in [Files -> File \cup {None}]
        BY <1>19 DEF Change, ScanTypeOK
  <2>2. TextOf(file) \in Texts \cup {None}
        BY DEF TextOf, File
  <2>3. saw' \in [Procs -> [Files -> SUBSET (Texts \cup {None})]]
        BY <1>19, <2>2 DEF Change, ScanTypeOK
  <2> QED
        BY <1>19, <2>1, <2>3 DEF Change, procVars, ScanTypeOK, TodoShape
<1>20. ASSUME NEW f \in Files, NEW t \in Texts, Save(f, t) PROVE Shape'
  <2>1. [text |-> t, mtime |-> now] \in File
        BY DEF ScanTypeOK, File
  <2> QED
        BY <1>19, <1>20, <2>1 DEF Save, ScanTypeOK
<1>21. ASSUME NEW f \in Files, Delete(f) PROVE Shape'
      BY <1>19, <1>21 DEF Delete, ScanTypeOK
<1>22. CASE UNCHANGED vars
      BY <1>22 DEF vars, procVars, ScanTypeOK, TodoShape
<1> QED
      BY <1>1, <1>2, <1>3, <1>4, <1>5, <1>6, <1>7, <1>8, <1>9, <1>10, <1>11, <1>12,
         <1>13, <1>14, <1>15, <1>16, <1>17, <1>18, <1>20, <1>21, <1>22 DEF Next, ScanStep

\* Shape holds in every reachable state.
LEMMA ShapeAlways == Spec => []Shape
BY ShapeInit, ShapeStep, PTL DEF Spec

\* The variables hold what the code's types say, and a scan returns files of
\* its scope only, cached or not (rebuild_from_cache, discover_files).
THEOREM ScanTypeCorrect == Spec => []ScanTypeOK
<1>1. Shape => ScanTypeOK
      BY DEF Shape
<1> QED
      BY <1>1, ShapeAlways, PTL

-----------------------------------------------------------------------------
(* Scans without the cache *)

\* While an invocation runs, what a file is now is among what it has seen.
SawShape == \A p \in Running : \A f \in Files : TextOf(disk[f]) \in saw[p][f]

\* An invocation without --cache reads each file of its scope once.
ReadsOnce(p) ==
    ~ cached[p] =>
        /\ pc[p] \in {"idle", "discover", "scan", "done"}
        /\ pc[p] = "discover" => \A f \in Files : result[p][f] = None
        /\ \A f \in Files : result[p][f] # None =>
              result[p][f].symbols = result[p][f].source
        /\ pc[p] \in {"scan", "done"} =>
              \A f \in scope[p] : \/ pc[p] = "scan" /\ f \in todo[p]
                                  \/ SymbolsOf(result[p][f]) \in saw[p][f]

\* What invocation p has and knows.
Own(p) == <<pc[p], cached[p], scope[p], entries[p], todo[p], result[p], saw[p]>>

\* A step of p is not one of the others, and leaves the files alone.
LEMMA OthersKept ==
    ASSUME Shape, NEW p \in Procs,
           \/ ScanStep(p) \/ Kill(p)
           \/ \E s \in Scopes, c \in BOOLEAN : Begin(p, s, c)
    PROVE  UNCHANGED <<disk, now>> /\ \A q \in Procs \ {p} : UNCHANGED Own(q)
<1> USE DEF Shape, ScanTypeOK, Own, Goto
<1>1. CASE \E s \in Scopes, c \in BOOLEAN : Begin(p, s, c)
      BY <1>1 DEF Begin
<1>2. CASE Kill(p)
      BY <1>2 DEF Kill
<1>3. CASE LoadHit(p) \/ LoadMiss(p)
      BY <1>3 DEF LoadHit, LoadMiss
<1>4. CASE Validated(p) \/ Rebuilt(p)
      BY <1>4 DEF Validated, Rebuilt, Returns
<1>5. CASE Discover(p) \/ Stamped(p)
      BY <1>5 DEF Discover, Stamped
<1>6. CASE Scanned(p)
      BY <1>6 DEF Scanned, Returns
<1>7. CASE Create(p) \/ Write(p) \/ StoreFails(p)
      BY <1>7 DEF Create, Write, StoreFails, Returns
<1>8. ASSUME NEW f \in Files, ValidateFile(p, f)
      PROVE  UNCHANGED <<disk, now>> /\ \A q \in Procs \ {p} : UNCHANGED Own(q)
      BY <1>8 DEF ValidateFile, Tick
<1>9. ASSUME NEW f \in Files, RebuildFile(p, f)
      PROVE  UNCHANGED <<disk, now>> /\ \A q \in Procs \ {p} : UNCHANGED Own(q)
      BY <1>9 DEF RebuildFile, ReadInto, Tick
<1>10. ASSUME NEW f \in Files, ScanFile(p, f)
      PROVE  UNCHANGED <<disk, now>> /\ \A q \in Procs \ {p} : UNCHANGED Own(q)
      BY <1>10 DEF ScanFile, ReadInto, Tick
<1>11. ASSUME NEW f \in Files, StampFile(p, f)
      PROVE  UNCHANGED <<disk, now>> /\ \A q \in Procs \ {p} : UNCHANGED Own(q)
      BY <1>11 DEF StampFile, Tick
<1> QED
      BY <1>1, <1>2, <1>3, <1>4, <1>5, <1>6, <1>7, <1>8, <1>9, <1>10, <1>11 DEF ScanStep

\* Only Begin and a change of a file move what p has seen.
LEMMA SawKept ==
    ASSUME Shape, NEW p \in Procs, ScanStep(p) \/ Kill(p)
    PROVE  /\ saw' = saw /\ cached' = cached /\ scope' = scope
           /\ pc[p] \notin {"idle", "done"}
<1> USE DEF Shape, ScanTypeOK
<1>1. CASE Kill(p)
      BY <1>1 DEF Kill, Running
<1>2. CASE ScanStep(p)
      BY <1>2 DEF ScanStep, LoadHit, LoadMiss, Validated, Rebuilt, Discover, Scanned,
         Stamped, Create, Write, StoreFails, ValidateFile, RebuildFile, ScanFile, StampFile
<1> QED
      BY <1>1, <1>2

\* SawShape is inductive.
LEMMA SawStep == ASSUME Shape, SawShape, [Next]_vars PROVE SawShape'
<1>1. ASSUME NEW p \in Procs, ScanStep(p) \/ Kill(p) PROVE SawShape'
      BY <1>1, OthersKept, SawKept DEF SawShape, Running, Own, TextOf
<1>2. ASSUME NEW p \in Procs, NEW s \in Scopes, NEW c \in BOOLEAN, Begin(p, s, c)
      PROVE  SawShape'
  <2>1. /\ saw'[p] = [f \in Files |-> {TextOf(disk[f])}] /\ disk' = disk
        /\ \A q \in Procs \ {p} : saw'[q] = saw[q] /\ pc'[q] = pc[q]
        BY <1>2 DEF Begin, Goto, Shape, ScanTypeOK
  <2> QED
        BY <2>1 DEF SawShape, Running, TextOf
<1>3. ASSUME NEW f \in Files, NEW file \in File \cup {None}, Change(f, file)
      PROVE  SawShape'
  <2>1. /\ pc' = pc
        /\ disk'[f] = file /\ \A g \in Files \ {f} : disk'[g] = disk[g]
        BY <1>3 DEF Change, procVars, Shape, ScanTypeOK
  <2>2. \A p \in Running : /\ saw'[p][f] = saw[p][f] \cup {TextOf(file)}
                           /\ \A g \in Files \ {f} : saw'[p][g] = saw[p][g]
        BY <1>3 DEF Change, Running, Shape, ScanTypeOK
  <2> QED
        BY <2>1, <2>2 DEF SawShape, Running, TextOf
<1>4. ASSUME NEW f \in Files, NEW t \in Texts, Save(f, t) PROVE SawShape'
  <2>1. [text |-> t, mtime |-> now] \in File
        BY DEF Shape, ScanTypeOK, File
  <2> QED
        BY <1>3, <1>4, <2>1 DEF Save
<1>5. ASSUME NEW f \in Files, Delete(f) PROVE SawShape'
      BY <1>3, <1>5 DEF Delete
<1>6. CASE Clear \/ Second \/ UNCHANGED vars
      BY <1>6 DEF Clear, Second, vars, procVars, SawShape, Running, TextOf
<1> QED
      BY <1>1, <1>2, <1>4, <1>5, <1>6 DEF Next

\* One invocation's part, when nothing of its own has changed.
LEMMA ReadsOnceKept ==
    ASSUME NEW p \in Procs, ReadsOnce(p), UNCHANGED Own(p)
    PROVE  ReadsOnce(p)'
BY DEF ReadsOnce, Own, SymbolsOf

\* Every step keeps ReadsOnce of every invocation.
LEMMA ReadsOnceStep ==
    ASSUME Shape, SawShape, \A p \in Procs : ReadsOnce(p), [Next]_vars
    PROVE  \A p \in Procs : ReadsOnce(p)'
<1>1. ASSUME NEW p \in Procs, ScanStep(p), ~ cached[p] PROVE ReadsOnce(p)'
  <2>1. pc[p] \in {"discover", "scan"} /\ ReadsOnce(p) /\ p \in Running
        /\ ~ cached[p] /\ ~ cached'[p] /\ saw' = saw /\ scope' = scope
        BY <1>1, SawKept DEF ReadsOnce, Running
  <2>2. CASE Discover(p)
    <3>1. /\ pc[p] = "discover" /\ pc'[p] = "scan" /\ result' = result
          /\ todo'[p] = {f \in scope[p] : disk[f] # None}
          BY <2>2 DEF Discover, Goto, Shape, ScanTypeOK
    <3>2. \A f \in scope[p] : f \in Files
          BY DEF Shape, ScanTypeOK
    <3>3. \A f \in Files : result[p][f] = None
          BY <2>1, <3>1 DEF ReadsOnce
    <3>4. \A f \in scope[p] : f \notin todo'[p] => None \in saw[p][f]
          BY <2>1, <3>1, <3>2 DEF SawShape, TextOf
    <3> QED
        BY <2>1, <3>1, <3>2, <3>3, <3>4 DEF ReadsOnce, SymbolsOf
  <2>3. ASSUME NEW f \in Files, ScanFile(p, f) PROVE ReadsOnce(p)'
    <3>1. f \in scope[p] /\ (disk[f] # None => TextOf(disk[f]) \in Texts)
          BY <2>3 DEF ScanFile, Shape, ScanTypeOK, TodoShape, TextOf, File
    <3>2. /\ todo' = [todo EXCEPT ![p] = todo[p] \ {f}]
          /\ \A g \in Files \ {f} : result'[p][g] = result[p][g]
          /\ result'[p][f] = IF disk[f] = None THEN None
                             ELSE [symbols |-> TextOf(disk[f]), source |-> disk[f].text]
          BY <2>3, <3>1, ReadTyped DEF ScanFile
    <3>3. pc' = pc /\ pc[p] = "scan" /\ todo'[p] = todo[p] \ {f}
          BY <2>3, <3>2 DEF ScanFile, Shape, ScanTypeOK
    <3>4. SymbolsOf(result'[p][f]) = TextOf(disk[f])
      <4>1. disk[f] # None => result'[p][f] \in Symbols
            BY <3>1, <3>2, <2>3 DEF Shape, ScanTypeOK, File, Symbols
      <4> QED
          BY <3>2, <4>1, NoneIsNothing DEF SymbolsOf, TextOf
    <3>5. result'[p][f] # None => result'[p][f].symbols = result'[p][f].source
          BY <3>2 DEF TextOf
    <3>6. scope[p] \subseteq Files
          BY DEF Shape, ScanTypeOK
    <3>7. ASSUME NEW g \in scope[p]
          PROVE  g \in todo'[p] \/ SymbolsOf(result'[p][g]) \in saw'[p][g]
      <4>1. CASE g = f
            BY <2>1, <2>3, <3>4, <4>1 DEF SawShape
      <4>2. CASE g # f
            BY <2>1, <3>2, <3>3, <3>6, <4>2 DEF ReadsOnce
      <4> QED
          BY <4>1, <4>2
    <3>8. \A g \in Files : result'[p][g] # None =>
             result'[p][g].symbols = result'[p][g].source
          BY <2>1, <3>2, <3>5 DEF ReadsOnce
    <3> QED
        BY <2>1, <3>3, <3>7, <3>8 DEF ReadsOnce
  <2>4. CASE Scanned(p)
    <3>1. pc[p] = "scan" /\ todo[p] = {} /\ pc'[p] = "done" /\ result' = result
          BY <1>1, <2>4 DEF Scanned, Returns, Goto, Shape, ScanTypeOK
    <3>2. \A f \in scope[p] : SymbolsOf(result[p][f]) \in saw[p][f]
          BY <2>1, <3>1 DEF ReadsOnce
    <3> QED
        BY <2>1, <3>1, <3>2 DEF ReadsOnce
  <2> QED
        BY <1>1, <2>1, <2>2, <2>3, <2>4 DEF ScanStep, LoadHit, LoadMiss, Validated, Rebuilt,
           Stamped, Create, Write, StoreFails, ValidateFile, RebuildFile, StampFile
<1>2. ASSUME NEW p \in Procs, Kill(p) PROVE ReadsOnce(p)'
  <2>1. pc'[p] = "idle" /\ \A f \in Files : result'[p][f] = None
        BY <1>2 DEF Kill, Goto, Shape, ScanTypeOK, NoFiles
  <2> QED
        BY <2>1 DEF ReadsOnce
<1>3. ASSUME NEW p \in Procs, NEW s \in Scopes, NEW c \in BOOLEAN, Begin(p, s, c)
      PROVE  ReadsOnce(p)'
  <2>1. /\ cached'[p] = c /\ pc'[p] = IF c THEN "load" ELSE "discover"
        /\ \A f \in Files : result'[p][f] = None
        BY <1>3 DEF Begin, Goto, Shape, ScanTypeOK, NoFiles
  <2> QED
        BY <2>1 DEF ReadsOnce
<1>4. ASSUME NEW p \in Procs,
             \/ ScanStep(p) \/ Kill(p)
             \/ \E s \in Scopes, c \in BOOLEAN : Begin(p, s, c)
      PROVE  \A q \in Procs : ReadsOnce(q)'
  <2>1. ReadsOnce(p)'
    <3>1. CASE ScanStep(p) /\ cached[p]
          BY <3>1, SawKept DEF ReadsOnce
    <3> QED
        BY <1>1, <1>2, <1>3, <1>4, <3>1
  <2>2. \A q \in Procs \ {p} : UNCHANGED Own(q)
        BY <1>4, OthersKept
  <2> QED
        BY <2>1, <2>2, ReadsOnceKept
<1>5. ASSUME NEW f \in Files, NEW file \in File \cup {None}, Change(f, file)
      PROVE  \A p \in Procs : ReadsOnce(p)'
  <2>1. UNCHANGED procVars
        BY <1>5 DEF Change
  <2>2. \A p \in Procs, g \in Files : saw[p][g] \subseteq saw'[p][g]
        BY <1>5 DEF Change, Shape, ScanTypeOK
  <2>3. \A p \in Procs : scope[p] \subseteq Files
        BY DEF Shape, ScanTypeOK
  <2> QED
        BY <2>1, <2>2, <2>3 DEF ReadsOnce, procVars, SymbolsOf
<1>6. ASSUME NEW f \in Files, NEW t \in Texts, Save(f, t)
      PROVE  \A p \in Procs : ReadsOnce(p)'
  <2>1. [text |-> t, mtime |-> now] \in File
        BY DEF Shape, ScanTypeOK, File
  <2> QED
        BY <1>5, <1>6, <2>1 DEF Save
<1>7. ASSUME NEW f \in Files, Delete(f) PROVE \A p \in Procs : ReadsOnce(p)'
      BY <1>5, <1>7 DEF Delete
<1>8. CASE Clear \/ Second \/ UNCHANGED vars
      BY <1>8 DEF Clear, Second, vars, procVars, ReadsOnce, SymbolsOf
<1> QED
      BY <1>4, <1>6, <1>7, <1>8 DEF Next

\* A scan without --cache returns what the files of its scope were while it ran,
\* for any number of invocations, whatever changes, is cleared or is killed
\* (scan_project).
THEOREM UncachedScansAreCurrent == Spec => []UncachedIsCurrent
<1> DEFINE Inv == Shape /\ SawShape /\ \A p \in Procs : ReadsOnce(p)
<1>1. Init => Inv
  <2>1. Init => SawShape /\ \A p \in Procs : ReadsOnce(p)
        BY DEF Init, SawShape, Running, ReadsOnce, NoFiles
  <2> QED
        BY <2>1, ShapeInit
<1>2. Inv /\ [Next]_vars => Inv'
      BY ShapeStep, SawStep, ReadsOnceStep
<1>3. Inv => UncachedIsCurrent
      BY DEF Shape, ScanTypeOK, ReadsOnce, UncachedIsCurrent
<1> QED
      BY <1>1, <1>2, <1>3, PTL DEF Spec

-----------------------------------------------------------------------------
(***************************************************************************)
(* Scans with the cache.  Of a file that is not missed, an entry is right    *)
(* wherever it is: in the cache, loaded, or about to be stored.              *)
(***************************************************************************)

Missed == unseen \cup leftOut

\* An entry is of the file as it is, or of an earlier second.
GoodEntry(e, f) ==
    disk[f] # None =>
        /\ e # None
        /\ e.mtime <= disk[f].mtime
        /\ e.mtime = disk[f].mtime => e.symbols = disk[f].text

\* No file is of the future, and the cache is right.
GoodCache ==
    /\ \A f \in Files : disk[f] # None => disk[f].mtime <= now
    /\ cache \in Entries => \A f \in Files \ Missed : GoodEntry(cache[f], f)

\* An entry, or a result, has the symbols of f at some time of p's.
Witnessed(p, f, e) == SymbolsOf(e) \in saw[p][f]

\* p has read f as it is, if it is there.
HasRead(p, f) == disk[f] # None => SymbolsOf(result[p][f]) = TextOf(disk[f])

\* Control point by control point, what p has found out is so.
Careful(p) ==
    /\ pc[p] \in {"load", "validate", "discover"} => \A f \in Files : result[p][f] = None
    /\ pc[p] = "validate" =>
          \A f \in Files \ Missed : IF f \in todo[p] THEN GoodEntry(entries[p][f], f)
                                    ELSE Witnessed(p, f, entries[p][f])
    /\ pc[p] = "rebuild" =>
          \A f \in scope[p] \ Missed :
             Witnessed(p, f, IF f \in todo[p] THEN entries[p][f] ELSE result[p][f])
    /\ pc[p] = "scan" =>
          \A f \in scope[p] \ todo[p] :
             Witnessed(p, f, result[p][f]) /\ (f \in Missed \/ HasRead(p, f))
    /\ pc[p] \in {"stamp", "create", "write"} =>
          \A f \in scope[p] : Witnessed(p, f, result[p][f])
    /\ pc[p] = "stamp" =>
          \A f \in scope[p] \ Missed : IF f \in todo[p] THEN HasRead(p, f)
                                       ELSE GoodEntry(entries[p][f], f)
    /\ pc[p] \in {"create", "write"} =>
          \A f \in scope[p] \ Missed : GoodEntry(entries[p][f], f)

CacheInv ==
    /\ Shape /\ SawShape /\ GoodCache
    /\ \A p \in Procs : ReadsOnce(p) /\ (cached[p] => Careful(p))

\* Steps of the invocations miss no file that is saved, and forget none.
LEMMA MissedGrows ==
    ASSUME NEW p \in Procs,
           \/ ScanStep(p) \/ Kill(p)
           \/ \E s \in Scopes, c \in BOOLEAN : Begin(p, s, c)
    PROVE  /\ Missed \subseteq Missed'
           /\ Write(p) \/ Missed' = Missed
<1>1. CASE Kill(p) \/ \E s \in Scopes, c \in BOOLEAN : Begin(p, s, c)
      BY <1>1 DEF Kill, Begin, blind, Missed
<1>2. CASE Write(p)
      BY <1>2 DEF Write, Missed
<1>3. CASE LoadHit(p) \/ LoadMiss(p) \/ Validated(p) \/ Rebuilt(p) \/ Discover(p)
      BY <1>3 DEF LoadHit, LoadMiss, Validated, Rebuilt, Discover, blind, Missed
<1>4. CASE Scanned(p) \/ Stamped(p) \/ Create(p) \/ StoreFails(p)
      BY <1>4 DEF Scanned, Stamped, Create, StoreFails, blind, Missed
<1>5. ASSUME NEW f \in Files,
             ValidateFile(p, f) \/ RebuildFile(p, f) \/ ScanFile(p, f) \/ StampFile(p, f)
      PROVE  Missed' = Missed
      BY <1>5 DEF ValidateFile, RebuildFile, ScanFile, StampFile, blind, Missed
<1> QED
      BY <1>1, <1>2, <1>3, <1>4, <1>5 DEF ScanStep

\* What p has found out stays so while the files stay as they are.
LEMMA CarefulKept ==
    ASSUME NEW p \in Procs, scope[p] \subseteq Files, Careful(p),
           UNCHANGED disk, UNCHANGED Own(p), Missed \subseteq Missed'
    PROVE  Careful(p)'
BY DEF Careful, Own, GoodEntry, Witnessed, HasRead, SymbolsOf, TextOf

\* The result of a file that has just been read, with these symbols.
LEMMA JustRead ==
    ASSUME Shape, NEW p \in Procs, NEW f \in scope[p], NEW s,
           disk[f] # None => s \in Texts, ReadInto(p, f, s)
    PROVE  /\ todo'[p] = todo[p] \ {f}
           /\ \A g \in Files \ {f} : result'[p][g] = result[p][g]
           /\ SymbolsOf(result'[p][f]) = IF disk[f] = None THEN None ELSE s
<1>1. f \in Files /\ (disk[f] # None => disk[f] \in File)
      BY DEF Shape, ScanTypeOK
<1>2. /\ todo' = [todo EXCEPT ![p] = todo[p] \ {f}]
      /\ result' \in [Procs -> [Files -> Symbols \cup {None}]]
      /\ \A g \in Files \ {f} : result'[p][g] = result[p][g]
      /\ result'[p][f] = IF disk[f] = None THEN None
                         ELSE [symbols |-> s, source |-> disk[f].text]
      BY ReadTyped
<1>3. disk[f] # None => result'[p][f] # None
      BY <1>1, <1>2, NoneIsNothing DEF Symbols, File
<1> QED
      BY <1>2, <1>3 DEF SymbolsOf, Shape, ScanTypeOK

\* A step of a scan with --cache leaves what the scan knows true.
LEMMA CarefulStep ==
    ASSUME CacheInv, NEW p \in Procs, ScanStep(p), cached[p]
    PROVE  Careful(p)'
<1>1. /\ Careful(p) /\ Shape /\ SawShape /\ p \in Running /\ scope[p] \subseteq Files
      /\ UNCHANGED <<disk, saw, scope>>
      BY SawKept, OthersKept DEF CacheInv, Running, Shape, ScanTypeOK
<1>2. Missed \subseteq Missed' /\ (Write(p) \/ Missed' = Missed)
      BY MissedGrows
<1>3. \A f \in Files : TextOf(disk[f]) \in saw[p][f]
      BY <1>1 DEF SawShape
<1>4. CASE LoadHit(p)
  <2>1. /\ entries'[p] = cache /\ pc'[p] = "validate" /\ result' = result /\ pc[p] = "load"
        /\ todo'[p] = {f \in Files : cache[f] # None} /\ cache \in Entries
        /\ \A f \in Files \ Missed : GoodEntry(cache[f], f)
        BY <1>4 DEF LoadHit, Goto, CacheInv, GoodCache, Shape, ScanTypeOK
  <2>2. \A f \in Files \ Missed : cache[f] = None => None \in saw[p][f]
        BY <1>3, <2>1 DEF GoodEntry, TextOf
  <2> QED
      BY <1>1, <1>2, <2>1, <2>2 DEF Careful, GoodEntry, Witnessed, SymbolsOf
<1>5. CASE LoadMiss(p)
  <2>1. pc'[p] = "discover" /\ pc[p] = "load" /\ result' = result
        BY <1>5 DEF LoadMiss, Goto, Shape, ScanTypeOK, CacheInv
  <2> QED
      BY <1>1, <2>1 DEF Careful
<1>6. ASSUME NEW f \in Files, ValidateFile(p, f) PROVE Careful(p)'
  <2>1. CASE IsValid(p, f)
    <3>1. /\ pc' = pc /\ pc[p] = "validate" /\ entries' = entries /\ result' = result
          /\ todo'[p] = todo[p] \ {f} /\ f \in todo[p]
          BY <1>6, <2>1 DEF ValidateFile, Tick, Shape, ScanTypeOK, CacheInv
    <3>2. f \notin Missed => Witnessed(p, f, entries[p][f])
      <4>1. f \notin Missed => GoodEntry(entries[p][f], f)
            BY <1>1, <3>1 DEF Careful
      <4> QED
          BY <1>3, <2>1, <4>1 DEF IsValid, GoodEntry, Witnessed, SymbolsOf, TextOf
    <3> QED
        BY <1>1, <1>2, <3>1, <3>2 DEF Careful, GoodEntry, Witnessed, SymbolsOf
  <2>2. CASE ~ IsValid(p, f)
    <3>1. pc'[p] = "discover" /\ pc[p] = "validate" /\ result' = result
          BY <1>6, <2>2 DEF ValidateFile, Goto, Shape, ScanTypeOK, CacheInv
    <3> QED
        BY <1>1, <3>1 DEF Careful
  <2> QED
      BY <2>1, <2>2
<1>7. CASE Validated(p)
  <2>1. /\ pc'[p] = "rebuild" /\ pc[p] = "validate" /\ entries' = entries
        /\ result' = result /\ todo[p] = {} /\ Missed' = Missed
        /\ todo'[p] = {f \in scope[p] : entries[p][f] # None}
        BY <1>7 DEF Validated, Goto, Shape, ScanTypeOK, CacheInv, blind, Missed
  <2>2. /\ \A f \in Files \ Missed : Witnessed(p, f, entries[p][f])
        /\ \A f \in Files : result[p][f] = None
        BY <1>1, <2>1 DEF Careful
  <2> QED
      BY <1>1, <2>1, <2>2 DEF Careful, Witnessed, SymbolsOf
<1>8. ASSUME NEW f \in Files, RebuildFile(p, f) PROVE Careful(p)'
  <2>1. /\ pc' = pc /\ pc[p] = "rebuild" /\ entries' = entries /\ f \in todo[p]
        /\ ReadInto(p, f, entries[p][f].symbols) /\ f \in scope[p]
        BY <1>1, <1>8 DEF RebuildFile, Shape, TodoShape
  <2>2. entries[p][f] # None /\ entries[p][f].symbols \in Texts
        BY <2>1 DEF CacheInv, Shape, TodoShape, ScanTypeOK, Entries, Entry
  <2>3. /\ todo'[p] = todo[p] \ {f}
        /\ \A g \in Files \ {f} : result'[p][g] = result[p][g]
        /\ SymbolsOf(result'[p][f]) = IF disk[f] = None THEN None ELSE entries[p][f].symbols
        BY <1>1, <2>1, <2>2, JustRead
  <2>4. f \notin Missed => Witnessed(p, f, result[p][f])'
    <3>1. f \notin Missed => Witnessed(p, f, entries[p][f])
          BY <1>1, <2>1 DEF Careful
    <3> QED
        BY <1>1, <1>3, <2>2, <2>3, <3>1 DEF Witnessed, SymbolsOf, TextOf
  <2> QED
      BY <1>1, <1>2, <2>1, <2>3, <2>4 DEF Careful, Witnessed, SymbolsOf
<1>9. CASE Discover(p)
  <2>1. /\ pc'[p] = "scan" /\ pc[p] = "discover" /\ result' = result
        /\ todo'[p] = {f \in scope[p] : disk[f] # None}
        BY <1>9 DEF Discover, Goto, Shape, ScanTypeOK, CacheInv
  <2>2. \A f \in Files : result[p][f] = None
        BY <1>1, <2>1 DEF Careful
  <2>3. \A f \in scope[p] \ todo'[p] : disk[f] = None /\ None \in saw[p][f]
        BY <1>1, <1>3, <2>1 DEF TextOf
  <2> QED
      BY <1>1, <2>1, <2>2, <2>3 DEF Careful, Witnessed, HasRead, SymbolsOf
<1>10. ASSUME NEW f \in Files, ScanFile(p, f) PROVE Careful(p)'
  <2>1. /\ pc' = pc /\ pc[p] = "scan" /\ f \in todo[p] /\ f \in scope[p]
        /\ ReadInto(p, f, TextOf(disk[f]))
        BY <1>1, <1>10 DEF ScanFile, Shape, TodoShape
  <2>2. disk[f] # None => TextOf(disk[f]) \in Texts
        BY <1>1, <2>1 DEF Shape, ScanTypeOK, TextOf, File
  <2>3. /\ todo'[p] = todo[p] \ {f}
        /\ \A g \in Files \ {f} : result'[p][g] = result[p][g]
        /\ SymbolsOf(result'[p][f]) = TextOf(disk[f])
        BY <1>1, <2>1, <2>2, JustRead DEF TextOf
  <2>4. Witnessed(p, f, result[p][f])' /\ HasRead(p, f)'
        BY <1>1, <1>3, <2>3 DEF Witnessed, HasRead, TextOf
  <2>5. \A g \in scope[p] \ todo'[p] : Witnessed(p, g, result[p][g])'
                                       /\ (g \in Missed' \/ HasRead(p, g)')
        BY <1>1, <1>2, <2>1, <2>3, <2>4 DEF Careful, Witnessed, HasRead, SymbolsOf, TextOf
  <2> QED
      BY <1>1, <2>1, <2>5 DEF Careful
<1>11. CASE Rebuilt(p) \/ Write(p) \/ StoreFails(p)
  <2>1. pc'[p] = "done"
        BY <1>11 DEF Rebuilt, Write, StoreFails, Returns, Goto, Shape, ScanTypeOK, CacheInv
  <2> QED
      BY <2>1 DEF Careful
<1>12. CASE Scanned(p)
  <2>1. /\ pc[p] = "scan" /\ pc'[p] = "stamp" /\ todo[p] = {}
        /\ result' = result /\ entries' = entries
        /\ todo'[p] = {f \in Files : result[p][f] # None} /\ Missed' = Missed
        BY <1>12 DEF Scanned, Goto, Shape, ScanTypeOK, CacheInv, blind, Missed
  <2>2. \A f \in scope[p] : Witnessed(p, f, result[p][f]) /\ (f \in Missed \/ HasRead(p, f))
        BY <1>1, <2>1 DEF Careful
  <2>3. \A f \in Files : disk[f] # None => TextOf(disk[f]) # None
        BY ScanAssumption DEF CacheInv, Shape, ScanTypeOK, File, TextOf
  <2>4. \A f \in scope[p] \ Missed : f \notin todo'[p] => disk[f] = None
        BY <1>1, <2>1, <2>2, <2>3 DEF HasRead, SymbolsOf
  <2> QED
      BY <1>1, <2>1, <2>2, <2>4 DEF Careful, Witnessed, HasRead, GoodEntry, SymbolsOf, TextOf
<1>13. ASSUME NEW f \in Files, StampFile(p, f) PROVE Careful(p)'
  <2>1. /\ pc' = pc /\ pc[p] = "stamp" /\ result' = result /\ f \in todo[p]
        /\ todo'[p] = todo[p] \ {f} /\ Missed' = Missed
        /\ \A g \in Files \ {f} : entries'[p][g] = entries[p][g]
        /\ entries'[p][f] = IF disk[f] = None THEN None
                            ELSE [mtime |-> disk[f].mtime, size |-> Size[disk[f].text],
                                  symbols |-> result[p][f].symbols]
        BY <1>13 DEF StampFile, Tick, Shape, ScanTypeOK, CacheInv, Entries, blind, Missed
  <2>2. result[p][f] # None /\ result[p][f] \in Symbols
        BY <1>1, <2>1 DEF Shape, TodoShape, ScanTypeOK
  <2>3. f \in scope[p]
        BY <1>1, <2>2 DEF Shape, ScanTypeOK
  <2>4. f \notin Missed => HasRead(p, f)
        BY <1>1, <2>1, <2>3 DEF Careful
  <2>5. f \notin Missed /\ disk[f] # None =>
           /\ entries'[p][f] \in Entry
           /\ entries'[p][f].mtime = disk[f].mtime
           /\ entries'[p][f].symbols = disk[f].text
        BY <2>1, <2>2, <2>4, ScanAssumption, NoneIsNothing
        DEF HasRead, SymbolsOf, TextOf, Entry, Symbols, File, CacheInv, Shape, ScanTypeOK
  <2>6. disk[f] # None => disk[f].mtime <= disk[f].mtime
        BY ScanAssumption DEF CacheInv, Shape, ScanTypeOK, File
  <2>7. f \notin Missed => GoodEntry(entries[p][f], f)'
        BY <1>1, <2>5, <2>6, NoneIsNothing DEF GoodEntry
  <2> QED
      BY <1>1, <2>1, <2>7 DEF Careful, Witnessed, HasRead, GoodEntry, SymbolsOf, TextOf
<1>14. CASE Stamped(p)
  <2>1. /\ pc[p] = "stamp" /\ pc'[p] = "create" /\ todo[p] = {}
        /\ result' = result /\ entries' = entries /\ Missed' = Missed
        BY <1>14 DEF Stamped, Goto, Shape, ScanTypeOK, CacheInv, blind, Missed
  <2> QED
      BY <1>1, <2>1 DEF Careful, GoodEntry, Witnessed, SymbolsOf
<1>15. CASE Create(p)
  <2>1. /\ pc[p] = "create" /\ pc'[p] = "write" /\ result' = result /\ entries' = entries
        /\ Missed' = Missed
        BY <1>15 DEF Create, Goto, Shape, ScanTypeOK, CacheInv, blind, Missed
  <2> QED
      BY <1>1, <2>1 DEF Careful, GoodEntry, Witnessed, SymbolsOf
<1> QED
      BY <1>4, <1>5, <1>6, <1>7, <1>8, <1>9, <1>10, <1>11, <1>12, <1>13, <1>14, <1>15
      DEF ScanStep

\* What a step of a scan stores is right, for it has stamped what it has read.
LEMMA GoodCacheStep ==
    ASSUME CacheInv, NEW p \in Procs, ScanStep(p)
    PROVE  GoodCache'
<1>1. UNCHANGED <<disk, now>> /\ Missed \subseteq Missed'
      BY OthersKept, MissedGrows DEF CacheInv
<1>2. CASE Create(p)
      BY <1>1, <1>2, NoneIsNothing DEF Create, GoodCache, CacheInv
<1>3. CASE Write(p) /\ p \in linked
  <2>1. /\ pc[p] = "write" /\ cache' = entries[p] /\ unseen' = unseen
        /\ leftOut' = leftOut \cup (Files \ scope[p])
        BY <1>3 DEF Write
  <2>2. cached[p]
        BY <2>1 DEF CacheInv, ReadsOnce
  <2>3. \A f \in scope[p] \ Missed : GoodEntry(entries[p][f], f)
        BY <2>1, <2>2 DEF CacheInv, Careful
  <2>4. Files \ Missed' \subseteq scope[p] \ Missed
        BY <2>1 DEF Missed
  <2> QED
      BY <1>1, <2>1, <2>3, <2>4 DEF GoodCache, GoodEntry, CacheInv
<1>4. CASE cache' = cache
      BY <1>1, <1>4 DEF GoodCache, GoodEntry, CacheInv
<1>5. cache' = cache \/ Create(p) \/ (Write(p) /\ p \in linked)
      BY DEF ScanStep, LoadHit, LoadMiss, Validated, Rebuilt, Discover, Scanned, Stamped,
         StoreFails, ValidateFile, RebuildFile, ScanFile, StampFile, Write
<1> QED
      BY <1>2, <1>3, <1>4, <1>5

\* A file saved in a later second than its last is not mistaken for that.
LEMMA GoodEntrySave ==
    ASSUME CacheInv, NEW f \in Files, NEW t \in Texts, Save(f, t),
           disk[f] # None, disk[f].mtime # now,
           NEW e \in Entry \cup {None}, GoodEntry(e, f)
    PROVE  /\ e # None /\ e.mtime <= now /\ e.mtime # now
           /\ disk'[f] = [text |-> t, mtime |-> now]
<1>1. disk'[f] = [text |-> t, mtime |-> now]
      BY DEF Save, Change, CacheInv, Shape, ScanTypeOK
<1>2. /\ now \in Nat /\ disk[f].mtime \in Nat /\ disk[f].mtime <= now
      /\ e # None /\ e.mtime <= disk[f].mtime
      BY ScanAssumption DEF CacheInv, GoodCache, Shape, ScanTypeOK, File, GoodEntry
<1>3. e.mtime \in Nat
      BY <1>2, ScanAssumption DEF Entry
<1> QED
      BY <1>1, <1>2, <1>3

\* A save leaves the other files as they are, and what is known of them.
LEMMA SaveOthers ==
    ASSUME Shape, NEW f \in Files, NEW t \in Texts, Save(f, t)
    PROVE  /\ UNCHANGED <<now, cache, procVars>>
           /\ \A g \in Files \ {f} : disk'[g] = disk[g] /\ (g \in Missed' <=> g \in Missed)
           /\ Missed \subseteq Missed'
           /\ \A p \in Procs, g \in Files : saw[p][g] \subseteq saw'[p][g]
           /\ f \notin Missed' /\ Remembered(f) =>
                 /\ disk[f] # None /\ disk[f].mtime # now
                 /\ \A p \in Procs : ~ Overlooks(p, f)
BY DEF Save, Change, Missed, Shape, ScanTypeOK

\* Saved so that entries tell, a file leaves the cache right.
LEMMA GoodCacheSave ==
    ASSUME CacheInv, NEW f \in Files, NEW t \in Texts, Save(f, t)
    PROVE  GoodCache'
<1>1. Shape
      BY DEF CacheInv
<1>2. \A g \in Files : disk'[g] # None => disk'[g].mtime <= now'
  <2>1. now \in Nat /\ disk'[f] = [text |-> t, mtime |-> now] /\ now' = now
        BY ScanAssumption DEF Save, Change, CacheInv, Shape, ScanTypeOK
  <2> QED
      BY <1>1, <2>1, SaveOthers DEF CacheInv, GoodCache
<1>3. ASSUME cache \in Entries, NEW g \in Files \ Missed'
      PROVE  GoodEntry(cache[g], g)'
  <2>1. cache' = cache /\ g \notin Missed /\ GoodEntry(cache[g], g)
        BY <1>1, <1>3, SaveOthers DEF CacheInv, GoodCache
  <2>2. CASE g # f
        BY <1>1, <2>1, <2>2, SaveOthers DEF GoodEntry
  <2>3. CASE g = f
    <3>1. disk[f] # None /\ disk[f].mtime # now
          BY <1>1, <1>3, <2>3, SaveOthers DEF Remembered
    <3>2. cache[f] \in Entry \cup {None}
          BY <1>3 DEF Entries
    <3>3. /\ cache[f] # None /\ cache[f].mtime <= now /\ cache[f].mtime # now
          /\ disk'[f] = [text |-> t, mtime |-> now]
          BY <2>1, <2>3, <3>1, <3>2, GoodEntrySave
    <3> QED
        BY <1>1, <2>1, <2>3, <3>3, SaveOthers DEF GoodEntry
  <2> QED
      BY <2>2, <2>3
<1> QED
      BY <1>1, <1>2, <1>3, SaveOthers DEF GoodCache

\* Nor does it make what a scan under way knows wrong.
LEMMA CarefulSave ==
    ASSUME CacheInv, NEW f \in Files, NEW t \in Texts, Save(f, t),
           NEW p \in Procs, cached[p]
    PROVE  Careful(p)'
<1>1. Shape /\ Careful(p) /\ scope[p] \subseteq Files
      BY DEF CacheInv, Shape, ScanTypeOK
<1>2. /\ UNCHANGED <<now, cache, procVars>>
      /\ \A g \in Files \ {f} : disk'[g] = disk[g] /\ (g \in Missed' <=> g \in Missed)
      /\ Missed \subseteq Missed'
      /\ \A g \in Files : saw[p][g] \subseteq saw'[p][g]
      BY <1>1, SaveOthers
<1>3. ASSUME pc[p] = "validate", NEW g \in Files \ Missed'
      PROVE  IF g \in todo[p] THEN GoodEntry(entries[p][g], g)'
             ELSE Witnessed(p, g, entries[p][g])'
  <2>1. IF g \in todo[p] THEN GoodEntry(entries[p][g], g)
        ELSE Witnessed(p, g, entries[p][g])
        BY <1>1, <1>2, <1>3 DEF Careful
  <2>2. CASE g # f \/ g \notin todo[p]
        BY <1>2, <2>1, <2>2 DEF GoodEntry, Witnessed, procVars, SymbolsOf
  <2>3. CASE g = f /\ g \in todo[p]
    <3>1. Remembered(f)
          BY <1>3 DEF Remembered, Running
    <3>2. disk[f] # None /\ disk[f].mtime # now /\ entries[p][f] \in Entry \cup {None}
          BY <1>1, <1>3, <2>3, <3>1, SaveOthers DEF Shape, ScanTypeOK, Entries
    <3>3. /\ entries[p][f] # None /\ entries[p][f].mtime <= now /\ entries[p][f].mtime # now
          /\ disk'[f] = [text |-> t, mtime |-> now]
          BY <2>1, <2>3, <3>2, GoodEntrySave
    <3> QED
        BY <1>2, <2>3, <3>3 DEF GoodEntry, procVars
  <2> QED
      BY <2>2, <2>3
<1>4. ASSUME pc[p] = "rebuild", NEW g \in scope[p] \ Missed'
      PROVE  Witnessed(p, g, IF g \in todo[p] THEN entries[p][g] ELSE result[p][g])'
      BY <1>1, <1>2, <1>4 DEF Careful, Witnessed, procVars, SymbolsOf
<1>5. ASSUME pc[p] = "scan", NEW g \in scope[p] \ todo[p]
      PROVE  Witnessed(p, g, result[p][g])' /\ (g \in Missed' \/ HasRead(p, g)')
  <2>1. Witnessed(p, g, result[p][g]) /\ (g \in Missed \/ HasRead(p, g))
        BY <1>1, <1>5 DEF Careful
  <2>2. Witnessed(p, g, result[p][g])'
        BY <1>1, <1>2, <2>1 DEF Witnessed, procVars, SymbolsOf
  <2>3. CASE g # f
        BY <1>1, <1>2, <2>1, <2>2, <2>3 DEF HasRead, procVars, SymbolsOf, TextOf
  <2>4. CASE g = f
    <3>1. Remembered(f) /\ Overlooks(p, f)
          BY <1>5, <2>4 DEF Remembered, Running, Overlooks
    <3> QED
        BY <1>1, <2>2, <2>4, <3>1, SaveOthers
  <2> QED
      BY <2>3, <2>4
<1>6. ASSUME pc[p] \in {"stamp", "create", "write"}, NEW g \in scope[p]
      PROVE  Witnessed(p, g, result[p][g])'
      BY <1>1, <1>2, <1>6 DEF Careful, Witnessed, procVars, SymbolsOf
<1>7. ASSUME \/ pc[p] = "stamp" \/ pc[p] \in {"create", "write"},
             NEW g \in scope[p] \ Missed'
      PROVE  IF pc[p] = "stamp" /\ g \in todo[p] THEN HasRead(p, g)'
             ELSE GoodEntry(entries[p][g], g)'
  <2>1. IF pc[p] = "stamp" /\ g \in todo[p] THEN HasRead(p, g)
        ELSE GoodEntry(entries[p][g], g)
        BY <1>1, <1>2, <1>7 DEF Careful
  <2>2. CASE g # f
        BY <1>1, <1>2, <2>1, <2>2 DEF HasRead, GoodEntry, procVars, SymbolsOf, TextOf
  <2>3. CASE g = f
    <3>1. Remembered(f)
          BY <1>7 DEF Remembered, Running
    <3>2. disk[f] # None /\ disk[f].mtime # now /\ ~ Overlooks(p, f)
          BY <1>1, <1>7, <2>3, <3>1, SaveOthers
    <3>3. ~ (pc[p] = "stamp" /\ g \in todo[p]) /\ entries[p][f] \in Entry \cup {None}
          BY <1>1, <2>3, <3>2 DEF Overlooks, Shape, ScanTypeOK, Entries
    <3>4. /\ entries[p][f] # None /\ entries[p][f].mtime <= now /\ entries[p][f].mtime # now
          /\ disk'[f] = [text |-> t, mtime |-> now]
          BY <2>1, <2>3, <3>2, <3>3, GoodEntrySave
    <3> QED
        BY <1>2, <2>3, <3>3, <3>4 DEF GoodEntry, procVars
  <2> QED
      BY <2>2, <2>3
<1> QED
      BY <1>1, <1>2, <1>3, <1>4, <1>5, <1>6, <1>7 DEF Careful, procVars

\* A file that is deleted is of no entry, and its being missing is seen.
LEMMA DeleteKept ==
    ASSUME CacheInv, NEW f \in Files, Delete(f)
    PROVE  GoodCache' /\ \A p \in Procs : cached[p] => Careful(p)'
<1>1. /\ UNCHANGED <<now, cache, procVars>> /\ Missed' = Missed
      /\ disk'[f] = None /\ \A g \in Files \ {f} : disk'[g] = disk[g]
      /\ \A p \in Procs, g \in Files : saw[p][g] \subseteq saw'[p][g]
      BY DEF Delete, Change, Missed, CacheInv, Shape, ScanTypeOK
<1>2. GoodCache'
      BY <1>1 DEF CacheInv, GoodCache, GoodEntry
<1>3. ASSUME NEW p \in Procs, cached[p] PROVE Careful(p)'
  <2>1. Careful(p) /\ scope[p] \subseteq Files
        BY <1>3 DEF CacheInv, Shape, ScanTypeOK
  <2>2. \A g \in Files : HasRead(p, g) => HasRead(p, g)'
        BY <1>1 DEF HasRead, procVars, SymbolsOf, TextOf
  <2>3. \A g \in Files :
           /\ Witnessed(p, g, result[p][g]) => Witnessed(p, g, result[p][g])'
           /\ Witnessed(p, g, entries[p][g]) => Witnessed(p, g, entries[p][g])'
        BY <1>1 DEF Witnessed, procVars, SymbolsOf
  <2>4. \A g \in Files : GoodEntry(entries[p][g], g) => GoodEntry(entries[p][g], g)'
        BY <1>1 DEF GoodEntry, procVars
  <2>5. /\ pc' = pc /\ todo' = todo /\ scope' = scope /\ result' = result
        /\ entries' = entries
        BY <1>1 DEF procVars
  <2> QED
      BY <1>1, <2>1, <2>2, <2>3, <2>4, <2>5 DEF Careful
<1>4. cached' = cached
      BY <1>1 DEF procVars
<1> QED
      BY <1>2, <1>3, <1>4

\* CacheInv holds at first.
LEMMA CacheInit == Init => CacheInv
<1> SUFFICES ASSUME Init PROVE CacheInv
    OBVIOUS
<1>1. SawShape /\ \A p \in Procs : ReadsOnce(p) /\ ~ cached[p]
      BY DEF Init, SawShape, Running, ReadsOnce, NoFiles
<1>2. GoodCache
      BY NoneIsNothing DEF Init, GoodCache
<1> QED
    BY <1>1, <1>2, ShapeInit DEF CacheInv

\* Every step keeps it.
LEMMA CacheStep == ASSUME CacheInv, [Next]_vars PROVE CacheInv'
<1>1. Shape' /\ SawShape' /\ \A p \in Procs : ReadsOnce(p)'
      BY ShapeStep, SawStep, ReadsOnceStep DEF CacheInv
<1>2. ASSUME NEW p \in Procs,
             \/ ScanStep(p) \/ Kill(p)
             \/ \E s \in Scopes, c \in BOOLEAN : Begin(p, s, c)
      PROVE  CacheInv'
  <2>1. /\ UNCHANGED <<disk, now>> /\ \A q \in Procs \ {p} : UNCHANGED Own(q)
        /\ Missed \subseteq Missed'
        BY <1>2, OthersKept, MissedGrows DEF CacheInv
  <2>2. \A q \in Procs \ {p} : cached'[q] => Careful(q)'
    <3> SUFFICES ASSUME NEW q \in Procs \ {p}, cached'[q] PROVE Careful(q)'
        OBVIOUS
    <3>1. cached[q] /\ scope[q] \subseteq Files /\ UNCHANGED Own(q)
          BY <2>1 DEF Own, CacheInv, Shape, ScanTypeOK
    <3> QED
        BY <2>1, <3>1, CarefulKept DEF CacheInv
  <2>3. CASE ScanStep(p)
    <3>1. cached'[p] => Careful(p)'
          BY <2>3, SawKept, CarefulStep DEF CacheInv
    <3> QED
        BY <1>1, <2>2, <2>3, <3>1, GoodCacheStep DEF CacheInv
  <2>4. CASE Kill(p)
    <3>1. pc'[p] = "idle" /\ cache' = cache
          BY <2>4 DEF Kill, Goto, CacheInv, Shape, ScanTypeOK
    <3>2. Careful(p)' /\ GoodCache'
          BY <2>1, <3>1 DEF Careful, GoodCache, GoodEntry, CacheInv
    <3> QED
        BY <1>1, <2>2, <3>2 DEF CacheInv
  <2>5. ASSUME NEW s \in Scopes, NEW c \in BOOLEAN, Begin(p, s, c) PROVE CacheInv'
    <3>1. /\ pc'[p] \in {"load", "discover"} /\ cache' = cache
          /\ \A f \in Files : result'[p][f] = None
          BY <2>5 DEF Begin, Goto, NoFiles, CacheInv, Shape, ScanTypeOK
    <3>2. Careful(p)' /\ GoodCache'
          BY <2>1, <3>1 DEF Careful, GoodCache, GoodEntry, CacheInv
    <3> QED
        BY <1>1, <2>2, <3>2 DEF CacheInv
  <2> QED
      BY <1>2, <2>3, <2>4, <2>5
<1>3. ASSUME NEW f \in Files, NEW t \in Texts, Save(f, t) PROVE CacheInv'
  <2>1. cached' = cached
        BY <1>3 DEF Save, Change, procVars
  <2> QED
      BY <1>1, <1>3, <2>1, GoodCacheSave, CarefulSave DEF CacheInv
<1>4. ASSUME NEW f \in Files, Delete(f) PROVE CacheInv'
  <2>1. cached' = cached
        BY <1>4 DEF Delete, Change, procVars
  <2> QED
      BY <1>1, <1>4, <2>1, DeleteKept DEF CacheInv
<1>5. CASE Clear
  <2>1. /\ UNCHANGED <<disk, now, procVars, saw>> /\ cache' = None
        /\ Missed' = Missed \/ \A p \in Running : ~ cached[p]
        BY <1>5 DEF Clear, blind, Missed
  <2>2. GoodCache'
        BY <2>1, NoneIsNothing DEF GoodCache, CacheInv
  <2>3. ASSUME NEW p \in Procs, cached'[p] PROVE Careful(p)'
    <3>1. cached[p] /\ Careful(p) /\ scope[p] \subseteq Files /\ UNCHANGED Own(p)
          BY <2>1, <2>3 DEF procVars, Own, CacheInv, Shape, ScanTypeOK
    <3>2. CASE p \in Running
          BY <2>1, <3>1, <3>2, CarefulKept
    <3>3. CASE p \notin Running
          BY <3>1, <3>3 DEF Running, Own, Careful
    <3> QED
        BY <3>2, <3>3
  <2> QED
      BY <1>1, <2>2, <2>3 DEF CacheInv
<1>6. CASE Second \/ UNCHANGED vars
  <2>1. /\ UNCHANGED <<disk, cache, procVars, saw>> /\ Missed' = Missed
        /\ now' = now \/ now' = now + 1
        BY <1>6 DEF Second, vars, blind, Missed
  <2>2. \A f \in Files : disk'[f] # None => disk'[f].mtime <= now'
    <3>1. now \in Nat /\ \A f \in Files : disk[f] # None => disk[f].mtime \in Nat
          BY ScanAssumption DEF CacheInv, Shape, ScanTypeOK, File
    <3> QED
        BY <2>1, <3>1 DEF CacheInv, GoodCache
  <2>3. GoodCache'
        BY <2>1, <2>2 DEF CacheInv, GoodCache, GoodEntry
  <2>4. ASSUME NEW p \in Procs, cached'[p] PROVE Careful(p)'
    <3>1. cached[p] /\ scope[p] \subseteq Files /\ UNCHANGED Own(p)
          BY <2>1, <2>4 DEF procVars, Own, CacheInv, Shape, ScanTypeOK
    <3> QED
        BY <2>1, <3>1, CarefulKept DEF CacheInv
  <2> QED
      BY <1>1, <2>3, <2>4 DEF CacheInv
<1> QED
      BY <1>2, <1>3, <1>4, <1>5, <1>6 DEF Next

-----------------------------------------------------------------------------
(* The refinement *)

\* FreshScan's variables, of which scope, saw and cached are ScanCache's own.
Texts_of == [f \in Files |-> TextOf(disk[f])]
Out(p)   == IF pc[p] = "done" THEN [f \in Files |-> SymbolsOf(result[p][f])] ELSE None
Outs     == [p \in Procs |-> Out(p)]

\* At first nobody scans.
LEMMA FreshInit == Init => Fresh!Init
<1> SUFFICES ASSUME Init PROVE Fresh!Init
    OBVIOUS
<1>1. Shape
      BY ShapeInit
<1>2. Texts_of \in [Files -> Texts \cup {None}]
      BY <1>1 DEF Shape, ScanTypeOK, Texts_of, TextOf, File
<1>3. \A p \in Procs : Out(p) = None
      BY DEF Init, Out
<1>4. Running = {} /\ scope = [p \in Procs |-> {}]
      /\ saw = [p \in Procs |-> [f \in Files |-> {}]]
      /\ cached = [p \in Procs |-> FALSE] /\ unseen \cup leftOut = {}
      BY DEF Init, Running
<1> QED
      BY <1>2, <1>3, <1>4 DEF Fresh!Init, Fresh!Contents, Texts_of, Out

\* Nothing is returned by those whose control and result stay.
LEMMA OutKept ==
    ASSUME NEW p \in Procs, UNCHANGED <<pc[p], result[p]>>
    PROVE  Out(p)' = Out(p)
BY DEF Out

\* What a scan returns is current, but for what a cached one has missed.
LEMMA ReturnsCurrent ==
    ASSUME CacheInv, NEW p \in Procs, ScanStep(p), pc'[p] = "done"
    PROVE  \A f \in scope[p] : SymbolsOf(result'[p][f]) \in saw[p][f]
                               \/ (cached[p] /\ f \in Missed)
<1>1. /\ ReadsOnce(p) /\ (cached[p] => Careful(p)) /\ pc[p] \notin {"idle", "done"}
      /\ scope[p] \subseteq Files
      BY SawKept DEF CacheInv, Shape, ScanTypeOK
<1>2. CASE Rebuilt(p)
  <2>1. pc[p] = "rebuild" /\ todo[p] = {} /\ result' = result
        BY <1>2 DEF Rebuilt
  <2>2. cached[p]
        BY <1>1, <2>1 DEF ReadsOnce
  <2> QED
      BY <1>1, <2>1, <2>2 DEF Careful, Witnessed
<1>3. CASE Scanned(p)
  <2>1. pc[p] = "scan" /\ todo[p] = {} /\ result' = result
        BY <1>3 DEF Scanned
  <2> QED
      BY <1>1, <2>1 DEF Careful, Witnessed, ReadsOnce
<1>4. CASE Write(p) \/ StoreFails(p)
  <2>1. pc[p] \in {"create", "write"} /\ result' = result
        BY <1>4 DEF Write, StoreFails
  <2>2. cached[p]
        BY <1>1, <2>1 DEF ReadsOnce
  <2> QED
      BY <1>1, <2>1, <2>2 DEF Careful, Witnessed
<1> QED
    BY <1>1, <1>2, <1>3, <1>4 DEF ScanStep, LoadHit, LoadMiss, Validated, Discover, Stamped,
       Create, ValidateFile, RebuildFile, ScanFile, StampFile, Goto, CacheInv, Shape, ScanTypeOK

\* A step of a scan that does not end it is invisible; one that ends it returns.
LEMMA FreshScanStep ==
    ASSUME CacheInv, NEW p \in Procs, ScanStep(p)
    PROVE  Fresh!Return(p) \/ UNCHANGED Fresh!vars
<1>1. /\ UNCHANGED disk /\ \A q \in Procs \ {p} : UNCHANGED Own(q)
      /\ saw' = saw /\ scope' = scope /\ cached' = cached /\ p \in Running
      BY OthersKept, SawKept DEF CacheInv, Running
<1>2. Texts_of' = Texts_of
      BY <1>1 DEF Texts_of, TextOf
<1>3. \A q \in Procs \ {p} : Out(q)' = Out(q) /\ pc'[q] = pc[q]
      BY <1>1, OutKept DEF Own
<1>4. pc'[p] # "idle"
      BY DEF ScanStep, LoadHit, LoadMiss, Validated, Rebuilt, Discover, Scanned, Stamped,
         Create, Write, StoreFails, ValidateFile, RebuildFile, ScanFile, StampFile,
         Returns, Goto, CacheInv, Shape, ScanTypeOK
<1>5. CASE pc'[p] = "done"
  <2>1. Running' = Running \ {p}
        BY <1>1, <1>3, <1>5 DEF Running
  <2>2. Out(p)' = [f \in Files |-> SymbolsOf(result'[p][f])]
        BY <1>5 DEF Out, SymbolsOf
  <2>3. \A f \in Files : SymbolsOf(result'[p][f]) \in Texts \cup {None}
        BY ShapeStep DEF CacheInv, Shape, ScanTypeOK, Symbols, SymbolsOf, Next
  <2>4. Out(p)' \in Fresh!Contents
        BY <2>2, <2>3 DEF Fresh!Contents
  <2>5. \A f \in scope[p] : SymbolsOf(result'[p][f]) \in saw[p][f]
                            \/ (cached[p] /\ f \in Missed)
        BY <1>5, ReturnsCurrent
  <2>6. scope[p] \subseteq Files /\ \A f \in Files \ scope[p] : result'[p][f] = None
        BY <1>1, ShapeStep DEF CacheInv, Shape, ScanTypeOK, Next
  <2>7. Fresh!Current(p, Out(p)')
        BY <2>2, <2>5, <2>6 DEF Fresh!Current, Missed, SymbolsOf
  <2>8. Outs' = [Outs EXCEPT ![p] = Out(p)']
        BY <1>3 DEF Outs
  <2>9. \/ (unseen \cup leftOut)' = unseen \cup leftOut
        \/ /\ cached[p]
           /\ (unseen \cup leftOut)' = (unseen \cup leftOut) \cup (Files \ scope[p])
    <3>1. CASE Write(p)
          BY <3>1 DEF Write, CacheInv, ReadsOnce
    <3>2. CASE Missed' = Missed
          BY <3>2 DEF Missed
    <3> QED
        BY <3>1, <3>2, MissedGrows
  <2> QED
      BY <1>1, <1>2, <2>1, <2>4, <2>7, <2>8, <2>9 DEF Fresh!Return, Texts_of, Outs, Out
<1>6. CASE pc'[p] # "done"
  <2>1. Running' = Running
        BY <1>1, <1>3, <1>4, <1>6 DEF Running
  <2>2. Out(p)' = Out(p)
        BY <1>1, <1>6 DEF Out, Running
  <2>3. Outs' = Outs
        BY <1>3, <2>2 DEF Outs
  <2>4. (unseen \cup leftOut)' = unseen \cup leftOut
    <3>1. ~ Write(p)
          BY <1>6 DEF Write, Returns, Goto, CacheInv, Shape, ScanTypeOK
    <3> QED
        BY <3>1, MissedGrows DEF Missed
  <2> QED
      BY <1>1, <1>2, <2>1, <2>3, <2>4 DEF Fresh!vars, Texts_of, Outs, Out
<1> QED
    BY <1>5, <1>6

\* An invocation that is killed has returned nothing.
LEMMA FreshKill ==
    ASSUME CacheInv, NEW p \in Procs, Kill(p)
    PROVE  Fresh!Abandon(p)
<1>1. /\ UNCHANGED disk /\ \A q \in Procs \ {p} : UNCHANGED Own(q)
      /\ saw' = saw /\ scope' = scope /\ cached' = cached /\ p \in Running
      BY OthersKept, SawKept DEF CacheInv, Running
<1>2. pc'[p] = "idle"
      BY DEF Kill, Goto, CacheInv, Shape, ScanTypeOK
<1>3. Texts_of' = Texts_of
      BY <1>1 DEF Texts_of, TextOf
<1>4. \A q \in Procs \ {p} : Out(q)' = Out(q) /\ pc'[q] = pc[q]
      BY <1>1, OutKept DEF Own
<1>5. Out(p)' = Out(p)
      BY <1>1, <1>2 DEF Out, Running
<1>6. Running' = Running \ {p} /\ Outs' = Outs
      BY <1>2, <1>4, <1>5 DEF Running, Outs
<1>7. unseen' = unseen /\ leftOut' = leftOut
      BY DEF Kill, blind
<1> QED
    BY <1>1, <1>3, <1>6, <1>7 DEF Fresh!Abandon, Texts_of, Outs, Out

\* Cached or not, a scan begins as FreshScan's does.
LEMMA FreshBegin ==
    ASSUME CacheInv, NEW p \in Procs, NEW s \in Scopes, NEW c \in BOOLEAN, Begin(p, s, c)
    PROVE  Fresh!Begin(p, s, c)
<1>1. /\ UNCHANGED disk /\ \A q \in Procs \ {p} : UNCHANGED Own(q)
      BY OthersKept DEF CacheInv
<1>2. p \notin Running /\ pc'[p] \in {"load", "discover"}
      /\ scope' = [scope EXCEPT ![p] = s] /\ cached' = [cached EXCEPT ![p] = c]
      /\ unseen' = unseen /\ leftOut' = leftOut
      BY DEF Begin, Goto, Running, blind, CacheInv, Shape, ScanTypeOK
<1>3. Texts_of' = Texts_of
      BY <1>1 DEF Texts_of, TextOf
<1>4. \A q \in Procs \ {p} : Out(q)' = Out(q) /\ pc'[q] = pc[q]
      BY <1>1, OutKept DEF Own
<1>5. Out(p)' = None
      BY <1>2 DEF Out
<1>6. Running' = Running \cup {p}
      BY <1>2, <1>4 DEF Running
<1>7. Outs' = [Outs EXCEPT ![p] = None]
      BY <1>4, <1>5 DEF Outs
<1>8. saw' = [saw EXCEPT ![p] = [f \in Files |-> {Texts_of[f]}]]
      BY DEF Begin, Texts_of
<1> QED
    BY <1>2, <1>3, <1>6, <1>7, <1>8 DEF Fresh!Begin, Texts_of, Outs, Out

\* A file changes.
LEMMA FreshChange ==
    ASSUME CacheInv, NEW f \in Files, NEW file \in File \cup {None}, Change(f, file),
           unseen' = unseen \/ (file # None /\ unseen' = unseen \cup {f})
    PROVE  Fresh!Change(f, TextOf(file))
<1>1. UNCHANGED <<pc, result, scope, cached, leftOut>>
      /\ disk' = [disk EXCEPT ![f] = file]
      BY DEF Change, procVars
<1>2. Texts_of' = [Texts_of EXCEPT ![f] = TextOf(file)]
      BY <1>1 DEF Texts_of, CacheInv, Shape, ScanTypeOK
<1>3. Running' = Running /\ \A p \in Procs : Out(p)' = Out(p)
      BY <1>1, OutKept DEF Running
<1>4. Outs' = Outs
      BY <1>3 DEF Outs
<1>5. saw' = [p \in Procs |-> IF p \in Running
                              THEN [saw[p] EXCEPT ![f] = @ \cup {TextOf(file)}]
                              ELSE saw[p]]
      BY DEF Change
<1>6. file # None => TextOf(file) # None
      BY ScanAssumption DEF TextOf, File
<1>7. \/ (unseen \cup leftOut)' = unseen \cup leftOut
      \/ /\ TextOf(file) # None
         /\ (unseen \cup leftOut)' = (unseen \cup leftOut) \cup {f}
      BY <1>1, <1>6
<1> QED
    BY <1>1, <1>2, <1>3, <1>4, <1>5, <1>7 DEF Fresh!Change, Texts_of, Outs, Out

\* Every step is one of FreshScan's, or none.
LEMMA FreshStep ==
    ASSUME CacheInv, [Next]_vars
    PROVE  [Fresh!Next]_(Fresh!vars)
<1>1. ASSUME NEW p \in Procs, ScanStep(p) PROVE [Fresh!Next]_(Fresh!vars)
      BY <1>1, FreshScanStep DEF Fresh!Next
<1>2. ASSUME NEW p \in Procs, Kill(p) PROVE Fresh!Next
      BY <1>2, FreshKill DEF Fresh!Next
<1>3. ASSUME NEW p \in Procs, NEW s \in Scopes, NEW c \in BOOLEAN, Begin(p, s, c)
      PROVE  Fresh!Next
      BY <1>3, FreshBegin DEF Fresh!Next
<1>4. ASSUME NEW f \in Files, NEW file \in File \cup {None}, Change(f, file),
             unseen' = unseen \/ (file # None /\ unseen' = unseen \cup {f})
      PROVE  Fresh!Next
  <2>1. TextOf(file) \in Texts \cup {None}
        BY DEF TextOf, File
  <2> QED
      BY <1>4, <2>1, FreshChange DEF Fresh!Next
<1>5. ASSUME NEW f \in Files, NEW t \in Texts, Save(f, t) PROVE Fresh!Next
  <2>1. [text |-> t, mtime |-> now] \in File
        BY DEF CacheInv, Shape, ScanTypeOK, File
  <2>2. Change(f, [text |-> t, mtime |-> now])
        /\ (unseen' = unseen \/ unseen' = unseen \cup {f})
        BY <1>5 DEF Save
  <2> QED
      BY <1>4, <2>1, <2>2, NoneIsNothing
<1>6. ASSUME NEW f \in Files, Delete(f) PROVE Fresh!Next
      BY <1>4, <1>6 DEF Delete
<1>7. CASE Clear
  <2>1. UNCHANGED <<disk, procVars, saw>>
        BY <1>7 DEF Clear
  <2>2. UNCHANGED <<Texts_of, Running, Outs, scope, cached, saw>>
        BY <2>1 DEF procVars, Texts_of, Running, Outs, Out, TextOf, SymbolsOf
  <2>3. CASE \E p \in Running : cached[p]
        BY <1>7, <2>2, <2>3 DEF Clear, blind, Fresh!vars, Texts_of, Outs, Out
  <2>4. CASE ~ \E p \in Running : cached[p]
        BY <1>7, <2>2, <2>4 DEF Clear, Fresh!Forget, Fresh!Next, Texts_of, Outs, Out
  <2> QED
      BY <2>3, <2>4
<1>8. CASE Second \/ UNCHANGED vars
  <2>1. UNCHANGED <<disk, procVars, saw, blind>>
        BY <1>8 DEF Second, vars
  <2> QED
      BY <2>1 DEF procVars, blind, Fresh!vars, Running, TextOf, SymbolsOf
<1> QED
    BY <1>1, <1>2, <1>3, <1>5, <1>6, <1>7, <1>8 DEF Next

\* Cached and uncached scans keep FreshScan's promise, for any files, texts,
\* scopes and invocations, whatever is saved or deleted, torn, overwritten or
\* cleared, and whoever is killed: with --cache, only a file saved in a way its
\* entry does not tell, or left out of a stored scan, can be wrong
\* (scan_project_cached, CacheStore).
THEOREM ScansKeepTheirPromise == Spec => KeepsFreshScan
<1>1. CacheInv /\ [Next]_vars => CacheInv'
      BY CacheStep
<1>2. CacheInv /\ [Next]_vars => [Fresh!Next]_(Fresh!vars)
      BY FreshStep
<1> QED
    BY CacheInit, FreshInit, <1>1, <1>2, PTL DEF Spec, KeepsFreshScan, Fresh!Spec
=============================================================================
