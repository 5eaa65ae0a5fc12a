---------------------------- MODULE ServerPoolProofs ----------------------------
(***************************************************************************)
(* The daemon loses none of its language servers, for any languages and any *)
(* number of processes, however they die.                                   *)
(***************************************************************************)
EXTENDS ServerPool, TLAPS

\* What the variables hold, whatever the control point.
Types ==
    /\ pc \in PCs
    /\ servers \in [Langs -> Pooled \cup {None}]
    /\ proc \in [Servers -> {"unborn", "up", "dead"}]
    /\ lang \in [Servers -> Langs \cup {None}]
    /\ dropped \subseteq Servers
    /\ req \in Langs \cup {None} /\ fresh \in Servers \cup {None}
    /\ to_remove \subseteq Langs
    /\ now \in 0..MaxTime

\* What get_or_start_server and the loops over keys rely on, point by point.
AtPoint ==
    /\ pc \in {"get", "start", "handshake", "ask"} => req \in Langs
    /\ pc \in {"start", "handshake"} => servers[req] = None
    /\ pc = "handshake" <=> fresh # None
    /\ pc = "handshake" =>
          /\ lang[fresh] = req /\ proc[fresh] # "unborn" /\ fresh \notin dropped
          /\ \A l \in InPool : servers[l].server # fresh
    /\ pc = "ask" => servers[req] # None
    /\ pc = "evict" => to_remove \subseteq InPool
    /\ pc = "drain" => to_remove = InPool
    /\ pc = "over" => InPool = {}

\* An entry names a process started for its language whose handle nobody let
\* go of; of a process that is not yet born there is neither.
Entries ==
    /\ \A l \in InPool : LET s == servers[l].server IN
          lang[s] = l /\ proc[s] # "unborn" /\ s \notin dropped
    /\ \A s \in Servers : proc[s] = "unborn" => s \notin dropped

\* A process that runs and has a handle is in the pool or being started.
Kept ==
    \A s \in Servers : proc[s] = "up" /\ s \notin dropped =>
        \/ fresh = s
        \/ lang[s] \in Langs /\ servers[lang[s]] # None /\ servers[lang[s]].server = s

PoolInv == Types /\ AtPoint /\ Entries /\ Kept

\* At first there is no process and no entry.
LEMMA PoolInit == Init => PoolInv
BY PoolAssumption DEF Init, PoolInv, Types, PCs, AtPoint, InPool, Entries, Kept

\* One entry is taken out of the pool and its process is ended; no other entry
\* names that process.
LEMMA ShutDownKeeps ==
    ASSUME PoolInv, NEW l \in InPool, ShutDownServer(l), pc \in {"evict", "drain"},
           UNCHANGED <<pc, lang, dropped, req, fresh, now>>
    PROVE  PoolInv'
<1> DEFINE s == servers[l].server
<1>1. /\ l \in Langs /\ servers[l] \in Pooled /\ s \in Servers
      BY DEF PoolInv, Types, InPool, Pooled
<1>2. /\ servers' = [servers EXCEPT ![l] = None]
      /\ proc' = [proc EXCEPT ![s] = "dead"]
      /\ to_remove' = to_remove \ {l}
      BY DEF ShutDownServer
<1>3. \A k \in InPool \ {l} : servers[k].server # s
      BY DEF PoolInv, Entries
<1>4. InPool' = InPool \ {l} /\ \A k \in InPool' : servers'[k] = servers[k]
      BY <1>1, <1>2 DEF InPool, PoolInv, Types
<1>5. fresh = None /\ fresh' = None
      BY DEF PoolInv, AtPoint
<1>6. Types'
      BY <1>1, <1>2 DEF PoolInv, Types
<1>7. AtPoint'
      BY <1>2, <1>4, <1>5 DEF PoolInv, AtPoint
<1>8. \A q \in Servers : proc'[q] = IF q = s THEN "dead" ELSE proc[q]
      BY <1>2 DEF PoolInv, Types
<1>9. Entries'
  <2>1. \A k \in InPool : servers[k].server \in Servers
        BY DEF PoolInv, Types, InPool, Pooled
  <2> QED
      BY <1>3, <1>4, <1>8, <2>1 DEF PoolInv, Entries
<1>10. Kept'
  <2> SUFFICES ASSUME NEW q \in Servers, proc'[q] = "up", q \notin dropped
               PROVE  /\ lang[q] \in Langs /\ servers'[lang[q]] # None
                      /\ servers'[lang[q]].server = q
      BY DEF Kept
  <2>1. q # s /\ proc[q] = "up"
        BY <1>8
  <2>2. lang[q] \in InPool /\ servers[lang[q]].server = q
        BY <1>5, <2>1, PoolAssumption DEF PoolInv, Kept, InPool
  <2>3. lang[q] # l
        BY <2>1, <2>2
  <2> QED
      BY <1>4, <2>2, <2>3 DEF InPool
<1> QED
    BY <1>6, <1>7, <1>9, <1>10 DEF PoolInv

\* No step loses a server.
LEMMA PoolStep == PoolInv /\ [Next]_vars => PoolInv'
<1> SUFFICES ASSUME PoolInv, [Next]_vars PROVE PoolInv'
    OBVIOUS
<1> USE DEF PoolInv
<1>1. CASE BeginEviction
      BY <1>1 DEF BeginEviction, Types, PCs, AtPoint, InPool, Entries, Kept
<1>2. CASE Evict
      BY <1>2, ShutDownKeeps DEF Evict, AtPoint
<1>3. CASE EndEviction \/ AcceptNothing \/ EndDrain
      BY <1>3 DEF EndEviction, AcceptNothing, EndDrain, Types, PCs, AtPoint, InPool,
         Entries, Kept
<1>4. ASSUME NEW l \in Langs, AcceptQuery(l) PROVE PoolInv'
      BY <1>4 DEF AcceptQuery, Types, PCs, AtPoint, InPool, Entries, Kept
<1>5. CASE Stop
      BY <1>5 DEF Stop, Types, PCs, AtPoint, InPool, Entries, Kept
<1>6. CASE Drain
      BY <1>6, ShutDownKeeps DEF Drain, AtPoint
<1>7. CASE GetReady
  <2>1. /\ req \in Langs /\ servers[req] \in Pooled
        BY <1>7 DEF GetReady, InPool, Types
  <2>2. servers' = [servers EXCEPT ![req] = [servers[req] EXCEPT !.last_used = now]]
        BY <1>7 DEF GetReady
  <2>3. /\ [servers[req] EXCEPT !.last_used = now] \in Pooled
        /\ [servers[req] EXCEPT !.last_used = now].server = servers[req].server
        BY <2>1 DEF Pooled, Types
  <2>4. /\ InPool' = InPool /\ servers'[req] # None
        /\ \A l \in InPool : servers'[l].server = servers[l].server
        BY <2>1, <2>2, <2>3, NoneIsNoEntry DEF InPool, Types
  <2>5. Types'
        BY <1>7, <2>2, <2>3 DEF GetReady, Types, PCs
  <2>6. AtPoint'
        BY <1>7, <2>1, <2>4 DEF GetReady, AtPoint
  <2>7. Entries'
        BY <1>7, <2>4 DEF GetReady, Entries
  <2>8. Kept'
        BY <1>7, <2>4 DEF GetReady, Kept, InPool
  <2> QED
      BY <2>5, <2>6, <2>7, <2>8
<1>8. CASE GetDeadOrMissing
  <2>1. req \in Langs /\ servers' = [servers EXCEPT ![req] = None]
        BY <1>8 DEF GetDeadOrMissing, AtPoint
  <2>2. InPool' = InPool \ {req} /\ \A l \in InPool' : servers'[l] = servers[l]
        BY <2>1 DEF InPool, Types
  <2>3. Types'
        BY <1>8, <2>1 DEF GetDeadOrMissing, Types, PCs
  <2>4. AtPoint'
        BY <1>8, <2>1, <2>2 DEF GetDeadOrMissing, AtPoint, Types
  <2>5. Entries'
        BY <1>8, <2>2 DEF GetDeadOrMissing, Entries
  <2>6. Kept'
        BY <1>8, <2>1, <2>2 DEF GetDeadOrMissing, Kept, Up, InPool, Types
  <2> QED
      BY <2>3, <2>4, <2>5, <2>6
<1>9. CASE CannotStart
      BY <1>9 DEF CannotStart, Types, PCs, AtPoint, InPool, Entries, Kept
<1>10. CASE StartServer
  <2>1. PICK s \in Servers : /\ proc[s] = "unborn"
                             /\ proc' = [proc EXCEPT ![s] = "up"]
                             /\ lang' = [lang EXCEPT ![s] = req]
                             /\ fresh' = s
        BY <1>10 DEF StartServer
  <2>2. /\ s \notin dropped /\ s # None /\ req \in Langs /\ InPool' = InPool
        /\ \A l \in InPool : servers[l].server # s
        BY <1>10, <2>1, PoolAssumption DEF StartServer, Entries, AtPoint, InPool
  <2>3. \A q \in Servers \ {s} : proc'[q] = proc[q] /\ lang'[q] = lang[q]
        BY <2>1 DEF Types
  <2>4. \A l \in InPool : servers[l].server \in Servers
        BY DEF InPool, Types, Pooled
  <2>5. Types'
        BY <1>10, <2>1, <2>2 DEF StartServer, Types, PCs
  <2>6. AtPoint'
        BY <1>10, <2>1, <2>2 DEF StartServer, AtPoint, Types
  <2>7. Entries'
        BY <1>10, <2>1, <2>2, <2>3, <2>4 DEF StartServer, Entries, Types
  <2>8. Kept'
        BY <1>10, <2>1, <2>3, PoolAssumption DEF StartServer, Kept, AtPoint
  <2> QED
      BY <2>5, <2>6, <2>7, <2>8
<1>11. CASE Insert
  <2> DEFINE new == [server |-> fresh, last_used |-> now, started |-> now]
  <2>1. /\ req \in Langs /\ fresh \in Servers /\ fresh' = None
        /\ servers' = [servers EXCEPT ![req] = new]
        /\ lang[fresh] = req /\ proc[fresh] # "unborn" /\ fresh \notin dropped
        BY <1>11 DEF Insert, AtPoint, Types
  <2>2. new \in Pooled /\ new # None /\ new.server = fresh
        BY <2>1, NoneIsNoEntry DEF Pooled, Types
  <2> HIDE DEF new
  <2>3. /\ InPool' = InPool \cup {req} /\ servers'[req] = new
        /\ \A l \in InPool \ {req} : servers'[l] = servers[l]
        BY <2>1, <2>2 DEF InPool, Types
  <2>4. Types'
        BY <1>11, <2>1, <2>2 DEF Insert, Types, PCs
  <2>5. AtPoint'
        BY <1>11, <2>1, <2>2, <2>3 DEF Insert, AtPoint
  <2>6. Entries'
        BY <1>11, <2>1, <2>2, <2>3 DEF Insert, Entries
  <2>7. Kept'
    <3>1. req \notin InPool
          BY <1>11 DEF Insert, AtPoint, InPool
    <3> QED
        BY <1>11, <2>1, <2>2, <2>3, <3>1 DEF Insert, Kept, InPool
  <2> QED
      BY <2>4, <2>5, <2>6, <2>7
<1>12. CASE HandshakeFails
      BY <1>12 DEF HandshakeFails, Types, PCs, AtPoint, InPool, Entries, Kept
<1>13. CASE Ask
      BY <1>13 DEF Ask, Types, PCs, AtPoint, InPool, Entries, Kept
<1>14. ASSUME NEW s \in Servers, ServerDies(s) PROVE PoolInv'
  <2>1. \A q \in Servers : proc'[q] = IF q = s THEN "dead" ELSE proc[q]
        BY <1>14 DEF ServerDies, Types
  <2>2. \A l \in InPool : servers[l].server \in Servers
        BY DEF InPool, Types, Pooled
  <2>3. Types'
        BY <1>14 DEF ServerDies, Types
  <2>4. AtPoint'
        BY <1>14, <2>1 DEF ServerDies, AtPoint, InPool, Types
  <2>5. Entries'
        BY <1>14, <2>1, <2>2 DEF ServerDies, Entries, InPool
  <2>6. Kept'
        BY <1>14, <2>1 DEF ServerDies, Kept
  <2> QED
      BY <2>3, <2>4, <2>5, <2>6
<1>15. CASE Tick
      BY <1>15, PoolAssumption DEF Tick, Types, AtPoint, InPool, Entries, Kept
<1>16. CASE UNCHANGED vars
      BY <1>16 DEF vars, Types, AtPoint, InPool, Entries, Kept
<1> QED
    BY <1>1, <1>2, <1>3, <1>4, <1>5, <1>6, <1>7, <1>8, <1>9, <1>10, <1>11, <1>12,
       <1>13, <1>14, <1>15, <1>16 DEF Next, DaemonStep

\* The invariant holds in every reachable state.
LEMMA PoolAlways == Spec => []PoolInv
BY PoolInit, PoolStep, PTL DEF Spec

\* The variables are well typed, and the entry get_or_start_server expects is
\* there.
THEOREM PoolTypeCorrect == Spec => []PoolTypeOK
<1>1. PoolInv => PoolTypeOK
      BY DEF PoolInv, Types, AtPoint, PoolTypeOK
<1> QED
    BY <1>1, PoolAlways, PTL

\* Reuse, replacement and eviction lose track of no server
\* (get_or_start_server, evict_idle_servers).
THEOREM NoServerIsLost == Spec => []EveryServerIsInThePool
<1>1. PoolInv => EveryServerIsInThePool
      BY PoolAssumption DEF PoolInv, Types, AtPoint, Kept, EveryServerIsInThePool
<1> QED
    BY <1>1, PoolAlways, PTL

\* A daemon that has shut down leaves no server running but those whose
\* handshake failed (shutdown_all_servers).
THEOREM ShutdownEndsServers == Spec => []NothingOutlivesTheDaemon
<1>1. PoolInv => NothingOutlivesTheDaemon
      BY PoolAssumption DEF PoolInv, Types, AtPoint, InPool, Kept, NothingOutlivesTheDaemon
<1> QED
    BY <1>1, PoolAlways, PTL
=============================================================================
