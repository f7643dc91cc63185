------------------------------ MODULE PartsProofs ------------------------------
(***************************************************************************)
(* Proofs about the parts that share no state: the server's start and its  *)
(* end, its files, the notifier, the launcher, the dashboard's tables and  *)
(* the parser of rsync's progress.                                         *)
(* Each part has an inductive invariant and theorems of its own.           *)
(***************************************************************************)
EXTENDS Parts, WellFoundedInduction, TLAPS

-----------------------------------------------------------------------------
(* The server's start and end.                                             *)

(* Requests exist only while there is a server, and only the exit with an  *)
(* error cuts them off.                                                    *)
Accepted ==
  /\ main \in {"load", "store", "worker"} => \A r \in Request : handler[r] = "none"
  /\ main # "exit1" => \A r \in Request : handler[r] # "cut"

(* Once the signal has come a listing ends within KillTTL, and it has been *)
(* ending for as long as Shutdown has been waiting.                        *)
Ending ==
  \A r \in Running : kind[r] = "list" =>
    /\ main = "serve" /\ quit => left[r] <= KillTTL
    /\ main = "shutdown" => left[r] + GraceTTL <= KillTTL + grace

(* The inductive invariant of the server.                                  *)
MainInv == MainTypeOK /\ Accepted /\ Ending

(* The lifetimes are numbers.                                              *)
LEMMA TTLs ==
  /\ GraceTTL \in Nat /\ KillTTL \in Nat /\ ListTTL \in Nat
  /\ KillTTL < GraceTTL /\ KillTTL <= ListTTL
BY MainAssumption

(* What is left of a listing and of Shutdown's time are numbers.           *)
LEMMA Seconds ==
  ASSUME MainInv
  PROVE  /\ grace \in Nat /\ grace <= GraceTTL
         /\ \A r \in Request : left[r] \in Nat /\ left[r] <= ListTTL
<1>1. grace \in 0..GraceTTL /\ left \in [Request -> 0..ListTTL]
  BY DEF MainInv, MainTypeOK
<1> QED BY <1>1, TTLs

(* A server that has not loaded its settings satisfies the invariant.      *)
LEMMA MainInvInit == MainInit => MainInv
<1> SUFFICES ASSUME MainInit PROVE MainInv
  OBVIOUS
<1>1. MainTypeOK
  <2>1. 0 \in 0..GraceTTL /\ 0 \in 0..ListTTL
    BY TTLs
  <2> QED BY <2>1 DEF MainInit, MainTypeOK
<1>2. Accepted /\ Ending
  BY DEF MainInit, Accepted, Ending, Running
<1> QED BY <1>1, <1>2 DEF MainInv

(* The process may end at any point at which no request is under way, or   *)
(* with an error.                                                          *)
LEMMA MainExits ==
  ASSUME MainInv, NEW code \in {"exit0", "exit1"}, ExitWith(code),
         code = "exit1" \/ (main # "exit1" /\ Running = {})
  PROVE  MainInv'
<1>1. MainTypeOK'
  BY DEF MainInv, MainTypeOK, ExitWith
<1>2. Ending'
  BY DEF ExitWith, Ending
<1>3. Accepted'
  <2>1. CASE code = "exit1"
    BY <2>1 DEF ExitWith, Accepted
  <2>2. CASE main # "exit1" /\ Running = {}
    <3>1. handler' = handler
      BY <2>2 DEF ExitWith, Running, MainInv, MainTypeOK
    <3> QED BY <2>2, <3>1 DEF ExitWith, Accepted, MainInv, Running
  <2> QED BY <2>1, <2>2
<1> QED BY <1>1, <1>2, <1>3 DEF MainInv

(* Every step of the server keeps its invariant.                           *)
LEMMA MainInvStep == MainInv /\ [MainNext]_mainVars => MainInv'
<1> SUFFICES ASSUME MainInv, [MainNext]_mainVars PROVE MainInv'
  OBVIOUS
<1> USE DEF MainInv
<1>1. CASE CheckConfig
  <2>1. CASE testConfig
    <3>1. MainTypeOK'
      BY <1>1, <2>1 DEF CheckConfig, MainTypeOK
    <3>2. Accepted' /\ Ending'
      BY <1>1, <2>1 DEF CheckConfig, Accepted, Ending, Running
    <3> QED BY <3>1, <3>2
  <2>2. CASE ~testConfig
    BY <1>1, <2>2, MainExits DEF CheckConfig
  <2> QED BY <2>1, <2>2
<1>2. CASE StartFails
  BY <1>2, MainExits DEF StartFails
<1>3. CASE RunWorker
  <2>1. MainTypeOK'
    BY <1>3 DEF RunWorker, MainTypeOK
  <2>2. Accepted' /\ Ending'
    BY <1>3 DEF RunWorker, Accepted, Ending, Running
  <2> QED BY <2>1, <2>2
<1>4. CASE WorkerReturns
  <2>1. Running = {} /\ main # "exit1"
    BY <1>4 DEF WorkerReturns, Running, Accepted
  <2> QED BY <1>4, <2>1, MainExits DEF WorkerReturns
<1>5. CASE Serve
  <2>1. MainTypeOK'
    BY <1>5 DEF Serve, MainTypeOK, oidcEnabled
  <2>2. Accepted' /\ Ending'
    BY <1>5 DEF Serve, Accepted, Ending, Running
  <2> QED BY <2>1, <2>2
<1>6. ASSUME NEW r \in Request, Accept(r) PROVE MainInv'
  <2>1. remoteRequestContext(r) \in 0..ListTTL
    BY TTLs DEF remoteRequestContext
  <2>2. MainTypeOK'
    <3>1. 0 \in 0..ListTTL
      BY TTLs
    <3> QED BY <1>6, <2>1, <3>1 DEF Accept, MainTypeOK
  <2>3. Accepted'
    BY <1>6 DEF Accept, Accepted, MainTypeOK
  <2>4. Ending'
    <3>1. \A q \in Running' : q = r \/ (q \in Running /\ left'[q] = left[q])
      BY <1>6 DEF Accept, MainTypeOK, Running
    <3>2. kind[r] = "list" /\ quit => left'[r] = KillTTL
      BY <1>6 DEF Accept, MainTypeOK, remoteRequestContext
    <3> QED BY <1>6, <3>1, <3>2, TTLs DEF Accept, Ending
  <2> QED BY <2>2, <2>3, <2>4
<1>7. ASSUME NEW r \in Request, Answer(r) PROVE MainInv'
  <2>1. MainTypeOK'
    BY <1>7 DEF Answer, MainTypeOK
  <2>2. Accepted'
    BY <1>7 DEF Answer, Accepted, MainTypeOK
  <2>3. Running' \subseteq Running
    BY <1>7 DEF Answer, MainTypeOK, Running
  <2>4. Ending'
    BY <1>7, <2>3 DEF Answer, Ending
  <2> QED BY <2>1, <2>2, <2>4
<1>8. ASSUME NEW r \in Request, Refuse(r) PROVE MainInv'
  <2>1. MainTypeOK'
    BY <1>8 DEF Refuse, MainTypeOK
  <2>2. Accepted'
    BY <1>8 DEF Refuse, Accepted, MainTypeOK
  <2>3. Running' \subseteq Running
    BY <1>8 DEF Refuse, MainTypeOK, Running
  <2>4. Ending'
    BY <1>8, <2>3 DEF Refuse, Ending
  <2> QED BY <2>1, <2>2, <2>4
<1>9. CASE Signal
  <2>1. \A r \in Request : remoteRequestContext(r)' = KillTTL
    BY <1>9 DEF Signal, remoteRequestContext
  <2>2. \A r \in Request : left'[r] \in 0..ListTTL
    <3> TAKE r \in Request
    <3>1. left[r] \in 0..ListTTL /\ KillTTL \in 0..ListTTL
      BY TTLs, Seconds
    <3> QED BY <1>9, <2>1, <3>1 DEF Signal
  <2>3. MainTypeOK'
    BY <1>9, <2>2 DEF Signal, MainTypeOK
  <2>4. Accepted'
    BY <1>9 DEF Signal, Accepted
  <2>5. Ending'
    <3> SUFFICES ASSUME NEW r \in Running, kind[r] = "list"
                 PROVE  left'[r] <= KillTTL
      BY <1>9 DEF Signal, Ending, Running
    <3>1. left[r] \in Nat
      BY Seconds DEF Running
    <3>2. left'[r] = IF KillTTL < left[r] THEN KillTTL ELSE left[r]
      BY <1>9, <2>1 DEF Signal, Running
    <3> QED BY <3>1, <3>2, TTLs
  <2> QED BY <2>3, <2>4, <2>5
<1>10. CASE ListenFails
  BY <1>10, MainExits DEF ListenFails
<1>11. CASE Shutdown
  <2>1. MainTypeOK'
    <3>1. GraceTTL \in 0..GraceTTL
      BY TTLs
    <3> QED BY <1>11, <3>1 DEF Shutdown, MainTypeOK
  <2>2. Accepted'
    BY <1>11 DEF Shutdown, Accepted
  <2>3. Ending'
    <3>1. \A r \in Running : left[r] \in Nat
      BY Seconds DEF Running
    <3> QED BY <1>11, <3>1, TTLs DEF Shutdown, Ending, Running
  <2> QED BY <2>1, <2>2, <2>3
<1>12. CASE ShutdownReturns
  BY <1>12, MainExits DEF ShutdownReturns, ShutdownErr
<1>13. CASE MainSecond
  <2>1. grace \in Nat /\ \A r \in Request : left[r] \in Nat
    BY Seconds
  <2>2. grace' \in 0..GraceTTL
    BY <1>13, Seconds, TTLs DEF MainSecond
  <2>3. left' \in [Request -> 0..ListTTL]
    <3>1. \A r \in Request : left'[r] \in 0..ListTTL
      <4> TAKE r \in Request
      <4>1. left[r] \in 0..ListTTL
        BY DEF MainTypeOK
      <4> QED BY <1>13, <4>1, TTLs DEF MainSecond
    <3> QED BY <1>13, <3>1 DEF MainSecond
  <2>4. MainTypeOK'
    BY <1>13, <2>2, <2>3 DEF MainSecond, MainTypeOK
  <2>5. Accepted'
    BY <1>13 DEF MainSecond, Accepted
  <2>6. Ending'
    <3> SUFFICES ASSUME NEW r \in Running, kind[r] = "list", main = "shutdown"
                 PROVE  left'[r] + GraceTTL <= KillTTL + grace'
      BY <1>13 DEF MainSecond, Ending, Running
    <3>1. left[r] + GraceTTL <= KillTTL + grace
      BY DEF Ending
    <3>2. left'[r] = left[r] - 1 /\ grace' = grace - 1
      BY <1>13 DEF MainSecond, Running
    <3>3. left[r] \in Nat
      BY <2>1 DEF Running
    <3> QED BY <2>1, <3>1, <3>2, <3>3, TTLs
  <2> QED BY <2>4, <2>5, <2>6
<1>14. CASE UNCHANGED mainVars
  BY <1>14 DEF mainVars, MainTypeOK, Accepted, Ending, Running
<1> QED
  BY <1>1, <1>2, <1>3, <1>4, <1>5, <1>6, <1>7, <1>8, <1>9, <1>10, <1>11, <1>12,
     <1>13, <1>14 DEF MainNext

(* The inductive invariant of the server's start and end.                  *)
THEOREM MainInvariant == MainSpec => []MainInv
BY MainInvInit, MainInvStep, PTL DEF MainSpec

(* The server keeps its state within its types.                            *)
THEOREM MainTypeCorrect == MainSpec => []MainTypeOK
<1>1. MainInv => MainTypeOK
  BY DEF MainInv
<1> QED BY <1>1, MainInvariant, PTL

(* Exit code 0 is for a server that answered every request it accepted,    *)
(* and a listing is never what Shutdown gave up on: KillTTL < GraceTTL.    *)
THEOREM GracefulShutdown == MainSpec => ShutdownIsGraceful
<1>1. MainInv /\ MainInv' /\ [MainNext]_mainVars
        => [ZeroMeansAnswered' /\ ListingsYield]_mainVars
  <2> SUFFICES ASSUME MainInv, MainInv', [MainNext]_mainVars
               PROVE  ZeroMeansAnswered' /\ ListingsYield
    OBVIOUS
  <2>1. ZeroMeansAnswered'
    BY DEF MainInv, Accepted, ZeroMeansAnswered
  <2>2. ASSUME main = "shutdown", NEW r \in Request, kind[r] = "list",
               handler'[r] = "cut"
        PROVE  FALSE
    <3>1. handler[r] # "cut"
      BY <2>2 DEF MainInv, Accepted
    <3>2. ShutdownReturns /\ r \in Running /\ grace = 0
      <4>1. ASSUME NEW q \in Request, Accept(q) \/ Answer(q) \/ Refuse(q) PROVE FALSE
        BY <2>2, <3>1, <4>1 DEF Accept, Answer, Refuse, MainInv, MainTypeOK
      <4> QED BY <2>2, <3>1, <4>1 DEF MainNext, mainVars, CheckConfig, StartFails,
                RunWorker, WorkerReturns, Serve, Signal, ListenFails, Shutdown,
                ShutdownReturns, MainSecond, ExitWith, Running
    <3>3. left[r] + GraceTTL <= KillTTL + grace
      BY <2>2, <3>2 DEF MainInv, Ending
    <3>4. left[r] \in Nat
      BY Seconds
    <3> QED BY <3>2, <3>3, <3>4, TTLs
  <2> QED BY <2>1, <2>2 DEF ListingsYield
<1> QED BY <1>1, MainInvariant, MainInvStep, PTL DEF MainSpec, ShutdownIsGraceful

-----------------------------------------------------------------------------
(* The static frontend.                                                    *)

(* What the HTTP cache may keep, and the messages of its fetches.          *)
Datum == Content \cup {NoContent}
Kept == [data : Datum, etag : SUBSET Content]
FileMsg == [type : {"get", "304", "404", "200"}, path : URL, has : Kept, id : Nat,
            ran : SUBSET Build, data : Datum, etag : SUBSET Content]

(* The cache has nothing, or a content with the tag of that content.       *)
Tagged(k) == k = Nothing \/ (k.data # NoContent /\ k.etag = {k.data})

(* A fetch knows every build that ran since it began, those that run now   *)
(* among them, and its answer is true of one of these.                     *)
FetchInv(m) ==
  /\ Tagged(m.has) /\ RunningBuilds \subseteq m.ran
  /\ m.type # "200" => m.data = NoContent
  /\ m.type = "304" => \E b \in m.ran : m.has.data = Served(b, m.path)
  /\ m.type = "404" => \E b \in m.ran : NoContent = Served(b, m.path)
  /\ m.type = "200" => /\ \E b \in m.ran : m.data = Served(b, m.path)
                       /\ m.data # m.has.data
                       /\ m.data # NoContent /\ m.etag = {m.data}

(* The inductive invariant of replicas and the HTTP cache.                 *)
FilesInv ==
  /\ build \in [Replica -> Build]
  /\ rollouts \in 0..MaxRollouts /\ fetches \in 0..MaxFetches
  /\ cache \in [URL -> Kept] /\ \A p \in URL : Tagged(cache[p])
  /\ wire \subseteq FileMsg /\ \A m \in wire : FetchInv(m)
  /\ fetched.data \in Datum /\ NewBuildsPickedUp

(* What is served is content, and its tag is the content's: a missing file *)
(* is what has none.                                                       *)
LEMMA ServedTagged ==
  ASSUME NEW b \in Build, NEW p
  PROVE  /\ Served(b, p) \in Datum
         /\ Served(b, p) = NoContent => ETag(b, p) = NoTag
         /\ Served(b, p) # NoContent => ETag(b, p) = {Served(b, p)}
<1>1. \A f \in DOMAIN Files[b] : Files[b][f] \in Content
  BY DEF Content
<1>2. NoContent \notin Content
  BY FilesAssumption
<1> QED BY <1>1, <1>2 DEF Served, ETag, Datum, makeETag, NoTag

(* Nothing is kept before the first fetch.                                 *)
LEMMA FilesInvInit == FilesInit => FilesInv
<1> SUFFICES ASSUME FilesInit PROVE FilesInv
  OBVIOUS
<1>1. 0 \in 0..MaxRollouts /\ 0 \in 0..MaxFetches
  BY FilesAssumption
<1>2. Nothing \in Kept /\ Tagged(Nothing)
  BY DEF Nothing, Kept, Datum, NoTag, Tagged
<1>3. NoFetch.data \in Datum
  BY DEF NoFetch, Datum
<1> QED BY <1>1, <1>2, <1>3 DEF FilesInit, FilesInv, NewBuildsPickedUp

(* Every step of replicas and browser keeps the invariant.                 *)
LEMMA FilesInvStep == FilesInv /\ [FilesNext]_filesVars => FilesInv'
<1> SUFFICES ASSUME FilesInv, [FilesNext]_filesVars PROVE FilesInv'
  OBVIOUS
<1>0. /\ build \in [Replica -> Build] /\ RunningBuilds \subseteq Build
      /\ cache \in [URL -> Kept] /\ wire \subseteq FileMsg
      /\ fetches \in Nat /\ rollouts \in Nat /\ MaxFetches \in Nat /\ MaxRollouts \in Nat
  BY FilesAssumption DEF FilesInv, RunningBuilds
<1>1. ASSUME NEW r \in Replica, NEW b \in Build, Rollout(r, b) PROVE FilesInv'
  <2>1. build' \in [Replica -> Build] /\ RunningBuilds' \subseteq RunningBuilds \cup {b}
    BY <1>0, <1>1 DEF Rollout, RunningBuilds
  <2>2. rollouts' \in 0..MaxRollouts
    BY <1>0, <1>1 DEF Rollout
  <2>3. ASSUME NEW n \in wire' PROVE n \in FileMsg /\ FetchInv(n)'
    <3>1. PICK m \in wire : n = [m EXCEPT !.ran = m.ran \cup {b}]
      BY <1>1 DEF Rollout
    <3>2. m \in FileMsg /\ FetchInv(m)
      BY <1>0 DEF FilesInv
    <3>3. /\ n \in FileMsg /\ n.ran = m.ran \cup {b} /\ n.type = m.type
          /\ n.path = m.path /\ n.has = m.has /\ n.data = m.data /\ n.etag = m.etag
      BY <3>1, <3>2 DEF FileMsg
    <3> QED BY <2>1, <3>2, <3>3 DEF FetchInv
  <2>4. UNCHANGED <<fetches, cache, fetched>>
    BY <1>1 DEF Rollout
  <2> QED BY <2>1, <2>2, <2>3, <2>4 DEF FilesInv, NewBuildsPickedUp
<1>2. ASSUME NEW p \in URL, Fetch(p) PROVE FilesInv'
  <2>1. fetches' \in 0..MaxFetches
    BY <1>0, <1>2 DEF Fetch
  <2>2. Get(p) \in FileMsg /\ FetchInv(Get(p))
    BY <1>0 DEF FilesInv, Get, FileMsg, FetchInv, Datum, NoTag
  <2>3. RunningBuilds' = RunningBuilds
    BY <1>2 DEF Fetch, RunningBuilds
  <2>4. PICK n : n = Get(p) /\ wire' = wire \cup {n}
    BY <1>2 DEF Fetch
  <2>5. \A m \in wire' : FetchInv(m)'
    BY <2>2, <2>3, <2>4 DEF FilesInv, FetchInv
  <2> QED BY <1>2, <2>1, <2>2, <2>4, <2>5 DEF Fetch, FilesInv, NewBuildsPickedUp
<1>3. ASSUME NEW m \in wire, NEW r \in Replica, ServeFile(r, m) PROVE FilesInv'
  <2> DEFINE b == build[r]
             tag == ETag(b, m.path)
             data == Served(b, m.path)
  <2>1. m \in FileMsg /\ FetchInv(m) /\ b \in Build /\ b \in m.ran
    BY <1>0 DEF FilesInv, FetchInv, RunningBuilds
  <2>2. /\ data \in Datum
        /\ data = NoContent => tag = NoTag
        /\ data # NoContent => tag = {data}
    BY <2>1, ServedTagged
  <2> HIDE DEF tag, data
  <2>3. PICK n :
          /\ wire' = (wire \ {m}) \cup {n}
          /\ \/ tag # NoTag /\ m.has.etag = tag /\ n = [m EXCEPT !.type = "304"]
             \/ /\ ~(tag # NoTag /\ m.has.etag = tag)
                /\ data = NoContent /\ n = [m EXCEPT !.type = "404"]
             \/ /\ ~(tag # NoTag /\ m.has.etag = tag)
                /\ data # NoContent
                /\ n = [m EXCEPT !.type = "200", !.data = data, !.etag = tag]
    BY <1>3 DEF ServeFile, tag, data
  <2>4. m.type = "get" /\ UNCHANGED <<build, rollouts, fetches, cache, fetched>>
    BY <1>3 DEF ServeFile
  <2>5. n \in FileMsg /\ FetchInv(n)
    <3>1. CASE tag # NoTag /\ m.has.etag = tag /\ n = [m EXCEPT !.type = "304"]
      <4>1. m.has.data = data
        BY <2>1, <2>2, <3>1 DEF FetchInv, Tagged, Nothing, NoTag
      <4>2. /\ n \in FileMsg /\ n.type = "304" /\ n.path = m.path /\ n.has = m.has
            /\ n.ran = m.ran /\ n.data = m.data
        BY <2>1, <3>1 DEF FileMsg
      <4> QED BY <2>1, <2>4, <4>1, <4>2 DEF FetchInv, data
    <3>2. CASE data = NoContent /\ n = [m EXCEPT !.type = "404"]
      <4>1. /\ n \in FileMsg /\ n.type = "404" /\ n.path = m.path /\ n.has = m.has
            /\ n.ran = m.ran /\ n.data = m.data
        BY <2>1, <3>2 DEF FileMsg
      <4> QED BY <2>1, <2>4, <3>2, <4>1 DEF FetchInv, data
    <3>3. CASE /\ ~(tag # NoTag /\ m.has.etag = tag)
               /\ data # NoContent
               /\ n = [m EXCEPT !.type = "200", !.data = data, !.etag = tag]
      <4>1. tag = {data} /\ data \in Content
        BY <2>2, <3>3 DEF Datum
      <4>2. /\ n \in FileMsg /\ n.type = "200" /\ n.path = m.path /\ n.has = m.has
            /\ n.ran = m.ran /\ n.data = data /\ n.etag = tag
        BY <2>1, <2>2, <3>3, <4>1 DEF FileMsg
      <4>3. m.has.data # data
        BY <2>1, <3>3, <4>1 DEF FetchInv, Tagged, Nothing, NoTag
      <4> QED BY <2>1, <3>3, <4>1, <4>2, <4>3 DEF FetchInv, data
    <3> QED BY <2>3, <3>1, <3>2, <3>3
  <2>6. \A k \in wire' : FetchInv(k)'
    <3>1. RunningBuilds' = RunningBuilds
      BY <2>4 DEF RunningBuilds
    <3> QED BY <2>3, <2>5, <3>1 DEF FilesInv, FetchInv
  <2> QED BY <2>3, <2>4, <2>5, <2>6 DEF FilesInv, NewBuildsPickedUp
<1>4. ASSUME NEW m \in wire, FileArrives(m) PROVE FilesInv'
  <2>1. m \in FileMsg /\ FetchInv(m)
    BY <1>0 DEF FilesInv
  <2>2. cache' \in [URL -> Kept] /\ \A p \in URL : Tagged(cache[p])'
    <3>1. CASE m.type # "200"
      BY <1>4, <3>1 DEF FileArrives, FilesInv
    <3>2. CASE m.type = "200"
      <4>1. PICK k : k = [data |-> m.data, etag |-> m.etag]
        OBVIOUS
      <4>2. k \in Kept /\ Tagged(k)
        BY <2>1, <3>2, <4>1 DEF FileMsg, Kept, FetchInv, Tagged
      <4>3. cache' = [cache EXCEPT ![m.path] = k]
        BY <1>4, <3>2, <4>1 DEF FileArrives
      <4>4. \A p \in URL : cache'[p] = k \/ cache'[p] = cache[p]
        BY <1>0, <4>3
      <4> QED BY <1>0, <4>2, <4>3, <4>4 DEF FilesInv, Tagged
    <3> QED BY <3>1, <3>2
  <2>3. fetched'.data \in Datum /\ NewBuildsPickedUp'
    <3>1. PICK s : s = [path |-> m.path, ran |-> m.ran,
                        data |-> IF m.type = "304" THEN m.has.data ELSE m.data]
      OBVIOUS
    <3>2. fetched' = s
      BY <1>4, <3>1 DEF FileArrives
    <3>3. s.data \in Datum
      BY <2>1, <3>1 DEF FileMsg, Kept
    <3>4. \E b \in s.ran : s.data = Served(b, s.path)
      BY <1>4, <2>1, <3>1 DEF FetchInv, FileMsg, FileArrives
    <3> QED BY <3>2, <3>3, <3>4 DEF NewBuildsPickedUp
  <2>4. \A k \in wire' : k \in wire /\ FetchInv(k)'
    BY <1>4 DEF FileArrives, FilesInv, FetchInv, RunningBuilds
  <2> QED BY <1>4, <2>2, <2>3, <2>4 DEF FileArrives, FilesInv
<1>5. CASE UNCHANGED filesVars
  BY <1>5 DEF filesVars, FilesInv, FetchInv, RunningBuilds, NewBuildsPickedUp
<1> QED BY <1>1, <1>2, <1>3, <1>4, <1>5 DEF FilesNext

(* The inductive invariant of replicas and the HTTP cache.                 *)
THEOREM FilesInvariant == FilesSpec => []FilesInv
BY FilesInvInit, FilesInvStep, PTL DEF FilesSpec

(* Replicas and the HTTP cache keep their state within its types.          *)
THEOREM FilesTypeCorrect == FilesSpec => []FilesTypeOK
<1>1. FilesInv => FilesTypeOK
  <2> SUFFICES ASSUME FilesInv PROVE FilesTypeOK
    OBVIOUS
  <2>1. ASSUME NEW p \in URL
        PROVE  /\ cache[p].data \in Content \cup {NoContent}
               /\ (cache[p].data = NoContent) <=> (cache[p].etag = NoTag)
    <3>1. cache[p] \in Kept /\ Tagged(cache[p])
      BY DEF FilesInv
    <3> QED BY <3>1 DEF Kept, Datum, Tagged, Nothing, NoTag
  <2> QED BY <2>1 DEF FilesInv, FilesTypeOK, Datum
<1> QED BY <1>1, FilesInvariant, PTL

(* However many replicas run whatever builds, in whatever order answers    *)
(* come: a fetch yields what a build had that ran during it, and a content *)
(* the HTTP cache has is not sent to it again.                             *)
THEOREM TagsTellContents == FilesSpec => []ETagsTellContents
<1>1. FilesInv => ETagsTellContents
  BY DEF FilesInv, FetchInv, ETagsTellContents, UnchangedNotResent
<1> QED BY <1>1, FilesInvariant, PTL

-----------------------------------------------------------------------------
(* Notifications.                                                          *)

(* The events of the process.                                              *)
Event == ToSet(Events)

(* Publish has been called for the nth event: Notify got that far, or is   *)
(* there now.                                                              *)
Published(n) ==
  \/ n < next /\ result[n] \in {"sent", "publish"}
  \/ n = next /\ call = "publish"

(* Messages are of events that were published.                             *)
OnlyPublished ==
  \A e \in ToSet(outbox) \cup ToSet(broker) :
    \E n \in DOMAIN Events : e = Events[n] /\ Published(n)

(* Every wait began with the whole timeout, the second one when the first  *)
(* was over.                                                               *)
InTime ==
  /\ took \in Nat /\ took <= 2 * Timeout
  /\ call = "connect" => took + due <= Timeout
  /\ call = "publish" => took + due <= 2 * Timeout

(* Events are notified of one after the other.                             *)
OneByOne ==
  /\ call \in {"connect", "publish"} => next \in DOMAIN Events
  /\ \A n \in DOMAIN Events : n >= next => result[n] = "none"

(* The inductive invariant of the notifier.                                *)
NotifierInv ==
  /\ NotifierTypeOK /\ {outbox, broker} \subseteq Seq(Event)
  /\ OnlyPublished /\ InTime /\ OneByOne /\ SentIsReceived

(* The events are a sequence without repetitions.                          *)
LEMMA EventsFacts ==
  /\ Events \in Seq(Event) /\ Len(Events) \in Nat /\ DOMAIN Events = 1..Len(Events)
  /\ \A n \in DOMAIN Events : Events[n] \in Event
  /\ \A m, n \in DOMAIN Events : Events[m] = Events[n] => m = n
  /\ Timeout \in Nat /\ Timeout > 0 /\ MaxLost \in Nat
<1>1. Events \in Seq(Event)
  BY NotifierAssumption DEF Event
<1>2. Len(Events) \in Nat /\ DOMAIN Events = 1..Len(Events)
  BY <1>1
<1> QED BY <1>1, <1>2, NotifierAssumption DEF IsInjective, Event, ToSet

(* The members of a sequence that grows at one end and shrinks at the      *)
(* other.                                                                  *)
LEMMA SetOfAppend ==
  ASSUME NEW S, NEW s \in Seq(S), NEW e \in S
  PROVE  Append(s, e) \in Seq(S) /\ ToSet(Append(s, e)) = ToSet(s) \cup {e}
<1>1. Append(s, e) \in Seq(S) /\ DOMAIN Append(s, e) = 1..(Len(s) + 1)
  OBVIOUS
<1>2. DOMAIN s = 1..Len(s) /\ Len(s) \in Nat
  OBVIOUS
<1>3. /\ \A i \in 1..Len(s) : Append(s, e)[i] = s[i]
      /\ Append(s, e)[Len(s) + 1] = e
  OBVIOUS
<1>4. 1..(Len(s) + 1) = (1..Len(s)) \cup {Len(s) + 1}
  BY <1>2
<1> QED BY <1>1, <1>2, <1>3, <1>4 DEF ToSet

(* See SetOfAppend.                                                        *)
LEMMA SetOfTail ==
  ASSUME NEW S, NEW s \in Seq(S), s # <<>>
  PROVE  /\ Tail(s) \in Seq(S) /\ ToSet(Tail(s)) \subseteq ToSet(s)
         /\ Head(s) \in ToSet(s) /\ Head(s) \in S
<1>1. DOMAIN s = 1..Len(s) /\ Len(s) \in Nat /\ Len(s) > 0 /\ Head(s) = s[1]
  OBVIOUS
<1>2. /\ Tail(s) \in Seq(S) /\ DOMAIN Tail(s) = 1..(Len(s) - 1)
      /\ \A i \in 1..(Len(s) - 1) : Tail(s)[i] = s[i + 1]
  OBVIOUS
<1>3. \A i \in 1..(Len(s) - 1) : i + 1 \in DOMAIN s
  BY <1>1
<1> QED BY <1>1, <1>2, <1>3 DEF ToSet

(* Two timeouts are one after the other.                                   *)
LEMMA TwoTimeouts ==
  ASSUME NEW t \in Nat, NEW d \in Nat, NEW T \in Nat
  PROVE  /\ t + d <= T => t <= 2 * T
         /\ t + d <= 2 * T => t <= 2 * T
         /\ t <= T => t <= 2 * T /\ t + T <= 2 * T
OBVIOUS

(* Before its first event a notifier has sent nothing.                     *)
LEMMA NotifierInvInit == NotifierInit => NotifierInv
<1> SUFFICES ASSUME NotifierInit PROVE NotifierInv
  OBVIOUS
<1>1. ToSet(outbox) = {} /\ ToSet(broker) = {} /\ {outbox, broker} \subseteq Seq(Event)
  BY DEF NotifierInit, ToSet
<1>2. 1 \in 1..(Len(Events) + 1) /\ 0 \in 0..Timeout
  BY EventsFacts
<1>3. NotifierTypeOK
  BY <1>1, <1>2 DEF NotifierInit, NotifierTypeOK
<1>4. InTime
  BY EventsFacts DEF NotifierInit, InTime
<1> QED BY <1>1, <1>3, <1>4 DEF NotifierInit, NotifierInv, OnlyPublished, OneByOne,
             SentIsReceived

(* The types of a notifier, in the form the proofs use.                    *)
LEMMA NotifierTypes ==
  ASSUME NotifierInv
  PROVE  /\ next \in Nat /\ next > 0 /\ next <= Len(Events) + 1
         /\ due \in Nat /\ due <= Timeout /\ took \in Nat
         /\ result \in [DOMAIN Events -> {"none", "sent", "connect", "publish"}]
         /\ outbox \in Seq(Event) /\ broker \in Seq(Event)
BY EventsFacts DEF NotifierInv, NotifierTypeOK, InTime

(* When Notify returns, with success only for an event the broker has, and *)
(* for want of a connection only when it has not published, the caller's   *)
(* part of the invariant is kept.                                          *)
LEMMA CallReturns ==
  ASSUME NotifierInv, NEW v \in {"sent", "connect", "publish"}, NotifyReturns(v),
         next \in DOMAIN Events, took' \in Nat, took' <= 2 * Timeout,
         UNCHANGED <<client, tried, outbox, acked, broker>>,
         v = "sent" => Events[next] \in ToSet(broker),
         call = "publish" => v # "connect"
  PROVE  NotifierInv'
<1>0. /\ next \in Nat /\ next > 0 /\ next <= Len(Events)
      /\ result \in [DOMAIN Events -> {"none", "sent", "connect", "publish"}]
  BY NotifierTypes, EventsFacts
<1>1. /\ result' = [result EXCEPT ![next] = v] /\ next' = next + 1
      /\ call' = "idle" /\ due' = 0
  BY DEF NotifyReturns
<1>2. NotifierTypeOK'
  <2>1. next' \in 1..(Len(Events) + 1) /\ due' \in 0..Timeout
    BY <1>0, <1>1, EventsFacts
  <2>2. result' \in [DOMAIN Events -> {"none", "sent", "connect", "publish"}]
    BY <1>0, <1>1
  <2> QED BY <1>1, <2>1, <2>2 DEF NotifierTypeOK, NotifierInv
<1>3. \A n \in DOMAIN Events : Published(n) => Published(n)'
  <2> SUFFICES ASSUME NEW n \in DOMAIN Events, Published(n)
               PROVE  n < next' /\ result'[n] \in {"sent", "publish"}
    BY DEF Published
  <2>1. n \in Nat
    BY EventsFacts
  <2>2. CASE n = next /\ call = "publish"
    BY <1>0, <1>1, <2>2
  <2>3. CASE n < next /\ result[n] \in {"sent", "publish"}
    BY <1>0, <1>1, <2>1, <2>3
  <2> QED BY <2>2, <2>3 DEF Published
<1>4. OnlyPublished'
  BY <1>3 DEF OnlyPublished, NotifierInv
<1>5. InTime'
  BY <1>1 DEF InTime
<1>6. OneByOne'
  <2>1. \A n \in DOMAIN Events : n >= next' => n >= next /\ n # next
    BY <1>0, <1>1, EventsFacts
  <2> QED BY <1>0, <1>1, <2>1 DEF OneByOne, NotifierInv
<1>7. SentIsReceived'
  BY <1>0, <1>1 DEF SentIsReceived, NotifierInv
<1> QED BY <1>2, <1>4, <1>5, <1>6, <1>7 DEF NotifierInv

(* Publish is called with time enough for its timeout.                     *)
LEMMA CallPublishes ==
  ASSUME NotifierInv, PublishNow, call # "publish", next \in DOMAIN Events,
         took' \in Nat, took' <= Timeout,
         UNCHANGED <<client, tried, acked, broker>>
  PROVE  NotifierInv'
<1>1. /\ call' = "publish" /\ due' = Timeout /\ UNCHANGED <<next, result>>
      /\ outbox' = IF client = "up" THEN Append(outbox, Events[next]) ELSE outbox
  BY DEF PublishNow
<1>2. outbox' \in Seq(Event) /\ ToSet(outbox') \subseteq ToSet(outbox) \cup {Events[next]}
  BY <1>1, NotifierTypes, EventsFacts, SetOfAppend
<1>3. NotifierTypeOK'
  <2>1. due' \in 0..Timeout
    BY <1>1, EventsFacts
  <2>2. ToSet(outbox') \subseteq ToSet(Events)
    BY <1>2, EventsFacts DEF NotifierInv, NotifierTypeOK, Event
  <2> QED BY <1>1, <2>1, <2>2 DEF NotifierTypeOK, NotifierInv
<1>4. OnlyPublished'
  <2>1. \A n \in DOMAIN Events : Published(n) => Published(n)'
    BY <1>1 DEF Published
  <2>2. Published(next)'
    BY <1>1 DEF Published
  <2> QED BY <1>1, <1>2, <2>1, <2>2 DEF OnlyPublished, NotifierInv
<1>5. InTime'
  <2>1. Timeout \in Nat
    BY EventsFacts
  <2>2. took' + Timeout <= 2 * Timeout /\ took' <= 2 * Timeout
    BY <2>1, TwoTimeouts
  <2> QED BY <1>1, <2>2 DEF InTime
<1>6. OneByOne' /\ SentIsReceived'
  BY <1>1 DEF OneByOne, SentIsReceived, NotifierInv
<1> QED BY <1>2, <1>3, <1>4, <1>5, <1>6, NotifierTypes DEF NotifierInv

(* Every step of caller, client and broker keeps the invariant.            *)
LEMMA NotifierInvStep == NotifierInv /\ [NotifierNext]_notifierVars => NotifierInv'
<1> SUFFICES ASSUME NotifierInv, [NotifierNext]_notifierVars PROVE NotifierInv'
  OBVIOUS
<1>0. /\ outbox \in Seq(Event) /\ broker \in Seq(Event) /\ took \in Nat /\ due \in Nat
      /\ Timeout \in Nat /\ due <= Timeout /\ next \in Nat
  BY NotifierTypes, EventsFacts
<1>1. CASE Notify
  <2>1. call = "idle" /\ next \in DOMAIN Events /\ took' = 0 /\ 0 <= Timeout
    BY <1>0, <1>1 DEF Notify
  <2>2. CASE PublishNow /\ UNCHANGED <<client, tried>>
    BY <1>1, <2>1, <2>2, CallPublishes DEF Notify
  <2>3. CASE NotifyReturns("connect") /\ UNCHANGED <<client, tried, outbox>>
    <3>1. took' <= 2 * Timeout
      BY <1>0, <2>1
    <3> QED BY <1>1, <2>1, <2>3, <3>1, CallReturns DEF Notify
  <2>4. CASE /\ client' = "connecting" /\ tried' = "wait"
             /\ call' = "connect" /\ due' = Timeout
             /\ UNCHANGED <<next, result, outbox>>
    <3>1. UNCHANGED <<acked, broker>>
      BY <1>1 DEF Notify
    <3>2. NotifierTypeOK'
      <4>1. due' \in 0..Timeout
        BY <1>0, <2>4
      <4> QED BY <2>4, <3>1, <4>1 DEF NotifierInv, NotifierTypeOK
    <3>3. OnlyPublished'
      BY <2>1, <2>4, <3>1 DEF NotifierInv, OnlyPublished, Published
    <3>4. InTime'
      <4>1. took' + due' <= Timeout /\ took' <= 2 * Timeout /\ took' \in Nat
        BY <1>0, <2>1, <2>4
      <4> QED BY <2>4, <4>1 DEF InTime
    <3> QED BY <2>1, <2>4, <3>1, <3>2, <3>3, <3>4
            DEF NotifierInv, OneByOne, SentIsReceived
  <2> QED BY <1>1, <2>2, <2>3, <2>4 DEF Notify
<1>2. CASE ConnectReturns
  <2>1. /\ call = "connect" /\ UNCHANGED <<took, client, tried, acked, broker>>
        /\ next \in DOMAIN Events
    BY <1>2 DEF ConnectReturns, NotifierInv, OneByOne
  <2>2. took' \in Nat /\ took' <= Timeout /\ took' <= 2 * Timeout
    <3>1. took + due <= Timeout
      BY <2>1 DEF NotifierInv, InTime
    <3> QED BY <1>0, <2>1, <3>1
  <2>3. CASE PublishNow
    BY <2>1, <2>2, <2>3, CallPublishes
  <2>4. CASE ConnectFailed
    BY <2>1, <2>2, <2>4, CallReturns DEF ConnectFailed
  <2> QED BY <1>2, <2>3, <2>4 DEF ConnectReturns
<1>3. CASE PublishReturns
  <2>1. /\ call = "publish" /\ UNCHANGED <<took, client, tried, outbox, acked, broker>>
        /\ next \in DOMAIN Events /\ took' \in Nat /\ took' <= 2 * Timeout
    BY <1>3 DEF PublishReturns, mqtt, NotifierInv, OneByOne, InTime
  <2>2. TokenDone => Events[next] \in ToSet(broker)
    BY DEF TokenDone, NotifierInv, NotifierTypeOK
  <2>3. CASE TokenDone /\ NotifyReturns("sent")
    BY <2>1, <2>2, <2>3, CallReturns
  <2>4. CASE NotifyReturns("publish")
    BY <2>1, <2>4, CallReturns
  <2> QED BY <1>3, <2>3, <2>4 DEF PublishReturns
<1>4. CASE Close
  <2>1. /\ call = "idle" /\ call' = "closed" /\ client' = "down" /\ outbox' = <<>>
        /\ UNCHANGED <<next, due, took, result, tried, acked, broker>>
    BY <1>4 DEF Close
  <2>2. ToSet(outbox') = {} /\ outbox' \in Seq(Event)
    BY <2>1 DEF ToSet
  <2>3. NotifierTypeOK'
    BY <2>1, <2>2 DEF NotifierInv, NotifierTypeOK
  <2>4. OnlyPublished'
    BY <2>1, <2>2 DEF NotifierInv, OnlyPublished, Published
  <2> QED BY <2>1, <2>2, <2>3, <2>4 DEF NotifierInv, InTime, OneByOne, SentIsReceived
<1>5. CASE ConnectEnds
  <2>1. NotifierTypeOK'
    BY <1>5 DEF ConnectEnds, caller, NotifierInv, NotifierTypeOK
  <2> QED BY <1>5, <2>1 DEF ConnectEnds, caller, NotifierInv, OnlyPublished, Published,
            InTime, OneByOne, SentIsReceived
<1>6. CASE BrokerReceives
  <2>1. outbox # <<>> /\ outbox' = Tail(outbox) /\ broker' = Append(broker, Head(outbox))
    BY <1>6 DEF BrokerReceives
  <2>2. UNCHANGED <<next, call, due, took, result, client, tried, acked>>
    BY <1>6 DEF BrokerReceives, caller
  <2>3. /\ outbox' \in Seq(Event) /\ ToSet(outbox') \subseteq ToSet(outbox)
        /\ Head(outbox) \in ToSet(outbox) /\ Head(outbox) \in Event
    BY <1>0, <2>1, SetOfTail
  <2>4. broker' \in Seq(Event) /\ ToSet(broker') = ToSet(broker) \cup {Head(outbox)}
    BY <1>0, <2>1, <2>3, SetOfAppend
  <2>5. NotifierTypeOK'
    <3>1. ToSet(outbox') \subseteq ToSet(Events) /\ ToSet(broker') \subseteq ToSet(Events)
      BY <2>3, <2>4 DEF NotifierInv, NotifierTypeOK
    <3>2. acked' \subseteq ToSet(broker')
      BY <2>2, <2>4 DEF NotifierInv, NotifierTypeOK
    <3> QED BY <2>2, <3>1, <3>2 DEF NotifierInv, NotifierTypeOK
  <2>6. OnlyPublished'
    <3>1. ToSet(outbox') \cup ToSet(broker') \subseteq ToSet(outbox) \cup ToSet(broker)
      BY <2>3, <2>4
    <3> QED BY <2>2, <3>1 DEF NotifierInv, OnlyPublished, Published
  <2> QED BY <2>2, <2>3, <2>4, <2>5, <2>6 DEF NotifierInv, InTime, OneByOne, SentIsReceived
<1>7. CASE AckArrives
  <2>1. acked' \subseteq ToSet(broker)
    BY <1>7 DEF AckArrives, NotifierInv, NotifierTypeOK
  <2>2. NotifierTypeOK'
    BY <1>7, <2>1 DEF AckArrives, caller, NotifierInv, NotifierTypeOK
  <2> QED BY <1>7, <2>2 DEF AckArrives, caller, NotifierInv, OnlyPublished, Published,
            InTime, OneByOne, SentIsReceived
<1>8. CASE ConnectionLost
  <2>1. /\ client' = "down" /\ outbox' = <<>>
        /\ UNCHANGED <<next, call, due, took, result, tried, acked, broker>>
    BY <1>8 DEF ConnectionLost, caller
  <2>2. ToSet(outbox') = {} /\ outbox' \in Seq(Event)
    BY <2>1 DEF ToSet
  <2>3. NotifierTypeOK'
    BY <2>1, <2>2 DEF NotifierInv, NotifierTypeOK
  <2>4. OnlyPublished'
    BY <2>1, <2>2 DEF NotifierInv, OnlyPublished, Published
  <2> QED BY <2>1, <2>2, <2>3, <2>4 DEF NotifierInv, InTime, OneByOne, SentIsReceived
<1>9. CASE NotifierSecond
  <2>1. /\ due # 0 /\ due' = due - 1 /\ took' = took + 1
        /\ UNCHANGED <<next, call, result, client, tried, outbox, acked, broker>>
        /\ call \in {"connect", "publish"}
    BY <1>9 DEF NotifierSecond, GivesUp, Waiting, mqtt
  <2>2. NotifierTypeOK'
    <3>1. due' \in 0..Timeout
      BY <1>0, <2>1
    <3> QED BY <2>1, <3>1 DEF NotifierInv, NotifierTypeOK
  <2>3. InTime'
    <3>1. took' + due' = took + due /\ took' \in Nat /\ due' \in Nat
      BY <1>0, <2>1
    <3>2. CASE call = "connect"
      <4>1. took + due <= Timeout
        BY <3>2 DEF NotifierInv, InTime
      <4>2. took' <= 2 * Timeout
        BY <1>0, <3>1, <4>1, TwoTimeouts
      <4> QED BY <2>1, <3>1, <3>2, <4>1, <4>2 DEF InTime
    <3>3. CASE call = "publish"
      <4>1. took + due <= 2 * Timeout
        BY <3>3 DEF NotifierInv, InTime
      <4>2. took' <= 2 * Timeout
        BY <1>0, <3>1, <4>1, TwoTimeouts
      <4> QED BY <2>1, <3>1, <3>3, <4>1, <4>2 DEF InTime
    <3> QED BY <2>1, <3>2, <3>3
  <2> QED BY <2>1, <2>2, <2>3
          DEF NotifierInv, OnlyPublished, Published, OneByOne, SentIsReceived
<1>10. CASE UNCHANGED notifierVars
  BY <1>10 DEF notifierVars, NotifierInv, NotifierTypeOK, OnlyPublished, Published, InTime,
       OneByOne, SentIsReceived
<1> QED BY <1>1, <1>2, <1>3, <1>4, <1>5, <1>6, <1>7, <1>8, <1>9, <1>10 DEF NotifierNext

(* The inductive invariant of the notifier.                                *)
THEOREM NotifierInvariant == NotifierSpec => []NotifierInv
BY NotifierInvInit, NotifierInvStep, PTL DEF NotifierSpec

(* The notifier keeps its state within its types.                          *)
THEOREM NotifierTypeCorrect == NotifierSpec => []NotifierTypeOK
<1>1. NotifierInv => NotifierTypeOK
  BY DEF NotifierInv
<1> QED BY <1>1, NotifierInvariant, PTL

(* Whatever broker and connection do: Notify takes no longer than its two  *)
(* timeouts, an event it reports as sent is with the broker, and one that  *)
(* it could not connect for never gets there.                              *)
THEOREM NotificationsBestEffort == NotifierSpec => []BestEffort
<1>1. NotifierInv => BestEffort
  <2> SUFFICES ASSUME NotifierInv PROVE BestEffort
    OBVIOUS
  <2>1. ASSUME NEW n \in DOMAIN Events, result[n] = "connect",
               Events[n] \in ToSet(broker)
        PROVE  FALSE
    <3>1. PICK m \in DOMAIN Events : Events[n] = Events[m] /\ Published(m)
      BY <2>1 DEF NotifierInv, OnlyPublished
    <3>2. m = n
      BY <3>1, EventsFacts
    <3>3. n = next
      BY <2>1, <3>1, <3>2 DEF Published
    <3>4. n >= next
      BY <3>3, NotifierTypes
    <3> QED BY <2>1, <3>4 DEF NotifierInv, OneByOne
  <2> QED BY <2>1 DEF NotifierInv, InTime, BestEffort, NotifyBounded, NoReplay
<1> QED BY <1>1, NotifierInvariant, PTL

-----------------------------------------------------------------------------
(* The worker launcher.                                                    *)

(* The Job asked for is the one made of the pod, and it is there once, or  *)
(* not at all, as the API server decided.                                  *)
Requested ==
  /\ pc \in {"start", "account", "get"} => post = "none"
  /\ pc = "post" => post # "none"
  /\ post # "none" => job = syncWorkerJob /\ Selected
  /\ jobs = IF post = "created" THEN <<job>> ELSE <<>>

(* A local worker is one that was reported, where there is no cluster, and *)
(* has the server's command line but for its sync.                         *)
Reported ==
  /\ \/ procs = <<>>
     \/ procs = <<syncWorkerArgs(args)>> /\ pc = "ok" /\ post = "none" /\ host = "unset"
  /\ pc = "ok" => post = "created" \/ (post = "none" /\ Len(procs) = 1)

(* The inductive invariant of a launch.                                    *)
LauncherInv == LauncherTypeOK /\ Requested /\ Reported

(* A set of positions has a last one.                                      *)
LEMMA LastPosition ==
  ASSUME NEW k \in Nat, NEW S, S \subseteq 1..k, S # {}
  PROVE  \E n \in S : \A m \in S : m <= n
<1> DEFINE T == {k - n : n \in S}
<1>1. T \subseteq Nat /\ T # {}
  <2>1. \A n \in S : k - n \in Nat
    <3> TAKE n \in S
    <3>1. n \in 1..k
      OBVIOUS
    <3> QED BY <3>1
  <2> QED BY <2>1
<1>2. PICK t \in T : \A u \in T : ~(<<u, t>> \in OpToRel(<, Nat))
  BY <1>1, NatLessThanWellFounded, WFMin
<1>3. \A u \in T : ~(u < t)
  BY <1>1, <1>2 DEF OpToRel
<1>4. PICK n \in S : t = k - n
  OBVIOUS
<1>5. \A m \in S : ~(k - m < k - n)
  BY <1>3, <1>4
<1> QED BY <1>4, <1>5

(* What holds of 0 and goes from n to n + 1 holds of all numbers.          *)
LEMMA CountingUp ==
  ASSUME NEW S, 0 \in S, \A n \in Nat : n \in S => n + 1 \in S
  PROVE  \A n \in Nat : n \in S
<1> DEFINE T == {n \in Nat : n \notin S}
<1> SUFFICES ASSUME T # {} PROVE FALSE
  OBVIOUS
<1>1. T \subseteq Nat
  OBVIOUS
<1>2. PICK n \in T : \A m \in T : ~(<<m, n>> \in OpToRel(<, Nat))
  BY <1>1, NatLessThanWellFounded, WFMin
<1>3. \A m \in T : ~(m < n)
  BY <1>1, <1>2 DEF OpToRel
<1>4. n \in Nat /\ n # 0
  OBVIOUS
<1>5. n - 1 \in Nat /\ n - 1 < n /\ (n - 1) + 1 = n
  BY <1>4
<1>6. n - 1 \in S
  BY <1>3, <1>5
<1> QED BY <1>5, <1>6

(* The same backwards, over n positions of which each follows from the     *)
(* next two.                                                               *)
LEMMA CountingDown ==
  ASSUME NEW n \in Nat, NEW S, n + 1 \in S, n + 2 \in S,
         \A i \in 1..n : i + 1 \in S /\ i + 2 \in S => i \in S
  PROVE  \A i \in 1..(n + 2) : i \in S
<1> DEFINE T == {k \in Nat : \A i \in 1..(n + 2) : n < i + k => i \in S}
<1>1. 0 \in T
  <2>1. ASSUME NEW i \in 1..(n + 2), n < i + 0 PROVE i \in S
    <3>1. i = n + 1 \/ i = n + 2
      BY <2>1
    <3> QED BY <3>1
  <2> QED BY <2>1
<1>2. ASSUME NEW k \in Nat, k \in T PROVE k + 1 \in T
  <2>1. ASSUME NEW i \in 1..(n + 2), n < i + (k + 1) PROVE i \in S
    <3>1. CASE n < i + k
      BY <1>2, <3>1
    <3>2. CASE ~(n < i + k) /\ i \in 1..n
      <4>1. /\ i + 1 \in 1..(n + 2) /\ n < (i + 1) + k
            /\ i + 2 \in 1..(n + 2) /\ n < (i + 2) + k
        BY <2>1, <3>2
      <4> QED BY <1>2, <3>2, <4>1
    <3>3. CASE i \notin 1..n
      <4>1. i = n + 1 \/ i = n + 2
        BY <3>3
      <4> QED BY <4>1
    <3> QED BY <3>1, <3>2, <3>3
  <2> QED BY <2>1
<1>3. n \in T
  <2> HIDE DEF T
  <2>1. \A k \in Nat : k \in T => k + 1 \in T
    BY <1>2
  <2> QED BY <1>1, <2>1, CountingUp
<1>4. \A i \in 1..(n + 2) : n < i + n
  OBVIOUS
<1> QED BY <1>3, <1>4

(* The results, position by position, of a loop over n positions in which  *)
(* each depends on those of the next two, and is v after the end.          *)
LoopResults(n, V, v, G) ==
  {f \in [1..(n + 2) -> V] :
     /\ f[n + 1] = v /\ f[n + 2] = v
     /\ \A i \in 1..n : f[i] = G[<<i, f[i + 1], f[i + 2]>>]}

(* Such a loop has a result.                                               *)
LEMMA LoopResult ==
  ASSUME NEW n \in Nat, NEW V, NEW v \in V, NEW G \in [(1..n) \X V \X V -> V]
  PROVE  \E f : f \in LoopResults(n, V, v, G)
<1> DEFINE Ok(k, f) == /\ f[n + 1] = v /\ f[n + 2] = v
                       /\ \A i \in 1..n : n < i + k => f[i] = G[<<i, f[i + 1], f[i + 2]>>]
           S == {k \in Nat : \E f \in [1..(n + 2) -> V] : Ok(k, f)}
<1>1. 0 \in S
  <2> DEFINE f == [i \in 1..(n + 2) |-> v]
  <2>1. f \in [1..(n + 2) -> V] /\ Ok(0, f)
    OBVIOUS
  <2> QED BY <2>1
<1>2. ASSUME NEW k \in Nat, k \in S PROVE k + 1 \in S
  <2>1. PICK f \in [1..(n + 2) -> V] : Ok(k, f)
    BY <1>2
  <2>2. CASE k < n
    <3> DEFINE p == n - k
               g == [f EXCEPT ![p] = G[<<p, f[p + 1], f[p + 2]>>]]
    <3>1. p \in 1..n /\ p + 1 \in 1..(n + 2) /\ p + 2 \in 1..(n + 2)
      BY <2>2
    <3>2. f[p + 1] \in V /\ f[p + 2] \in V
      BY <3>1
    <3>3. <<p, f[p + 1], f[p + 2]>> \in (1..n) \X V \X V
      BY <3>1, <3>2
    <3>4. g \in [1..(n + 2) -> V]
      BY <3>1, <3>3
    <3>5. g[p] = G[<<p, f[p + 1], f[p + 2]>>] /\ \A i \in 1..(n + 2) : i # p => g[i] = f[i]
      BY <3>1
    <3> HIDE DEF g
    <3>6. g[n + 1] = v /\ g[n + 2] = v
      BY <2>1, <3>1, <3>5
    <3>7. ASSUME NEW i \in 1..n, n < i + (k + 1)
          PROVE  g[i] = G[<<i, g[i + 1], g[i + 2]>>]
      <4>1. i >= p /\ i + 1 \in 1..(n + 2) /\ i + 2 \in 1..(n + 2)
        BY <3>7, <2>2
      <4>2. g[i + 1] = f[i + 1] /\ g[i + 2] = f[i + 2]
        BY <4>1, <3>1, <3>5
      <4>3. CASE i = p
        BY <4>2, <4>3, <3>5
      <4>4. CASE i # p
        <5>1. n < i + k
          BY <4>4, <4>1, <2>2
        <5>2. f[i] = G[<<i, f[i + 1], f[i + 2]>>]
          BY <5>1, <2>1
        <5> QED BY <4>2, <4>4, <5>2, <3>5
      <4> QED BY <4>3, <4>4
    <3>8. Ok(k + 1, g)
      BY <3>6, <3>7
    <3> QED BY <3>4, <3>8
  <2>3. CASE ~(k < n)
    <3>1. Ok(k + 1, f)
      BY <2>1, <2>3
    <3> QED BY <3>1
  <2> QED BY <2>2, <2>3
<1>3. n \in S
  <2> HIDE DEF S
  <2>1. \A k \in Nat : k \in S => k + 1 \in S
    BY <1>2
  <2> QED BY <1>1, <2>1, CountingUp
<1>4. PICK f \in [1..(n + 2) -> V] : Ok(n, f)
  BY <1>3
<1>5. \A i \in 1..n : n < i + n
  OBVIOUS
<1> QED BY <1>4, <1>5 DEF LoopResults

(* A word, a flag with a value and a flag whose value comes next, as the   *)
(* loop over the flags takes them.                                         *)
SettingAt(f, a, k, i) ==
  IF a[i].kind # "flag" THEN {}
  ELSE IF a[i].value # "" THEN Override(f[i + 1], a[i], k, a[i].value)
  ELSE IF i = Len(a) THEN {}
  ELSE Override(f[i + 2], a[i], k, a[i + 1].key)

(* What the loop over the flags finds, position by position.               *)
LEMMA SettingUnfolds ==
  ASSUME NEW S, NEW a \in Seq(S), NEW k
  PROVE  /\ SettingFrom(a, k)[Len(a) + 1] = {} /\ SettingFrom(a, k)[Len(a) + 2] = {}
         /\ \A i \in 1..Len(a) : SettingFrom(a, k)[i] = SettingAt(SettingFrom(a, k), a, k, i)
<1> DEFINE n == Len(a)
           W == {a[i].key : i \in 1..n} \cup {a[i].value : i \in 1..n}
           V == SUBSET W
           G == [x \in (1..n) \X V \X V |->
                   IF a[x[1]].kind # "flag" THEN {}
                   ELSE IF a[x[1]].value # "" THEN Override(x[2], a[x[1]], k, a[x[1]].value)
                   ELSE IF x[1] = n THEN {}
                   ELSE Override(x[3], a[x[1]], k, a[x[1] + 1].key)]
           P(f) == f = [i \in 1..(n + 2) |->
                          IF i > n THEN {}
                          ELSE IF a[i].kind # "flag" THEN {}
                          ELSE IF a[i].value # "" THEN Override(f[i + 1], a[i], k, a[i].value)
                          ELSE IF i = n THEN {}
                          ELSE Override(f[i + 2], a[i], k, a[i + 1].key)]
<1>1. n \in Nat
  OBVIOUS
<1>2. {} \in V
  OBVIOUS
<1>3. ASSUME NEW x \in (1..n) \X V \X V PROVE G[x] \in V
  <2>1. x[1] \in 1..n /\ x[2] \in V /\ x[3] \in V
    OBVIOUS
  <2>2. a[x[1]].value \in W
    BY <2>1
  <2>3. x[1] # n => a[x[1] + 1].key \in W
    <3>1. x[1] # n => x[1] + 1 \in 1..n
      BY <2>1, <1>1
    <3> QED BY <3>1
  <2> HIDE DEF W
  <2> QED BY <2>1, <2>2, <2>3 DEF Override
<1>4. G \in [(1..n) \X V \X V -> V]
  BY <1>3
<1>5. \E f : P(f)
  <2>1. PICK f \in [1..(n + 2) -> V] :
           /\ f[n + 1] = {} /\ f[n + 2] = {}
           /\ \A i \in 1..n : f[i] = G[<<i, f[i + 1], f[i + 2]>>]
    <3>1. PICK m, U, H : m = n /\ U = V /\ H = G
      <4> HIDE DEF n, V, G
      <4> QED OBVIOUS
    <3>2. m \in Nat /\ {} \in U /\ H \in [(1..m) \X U \X U -> U]
      <4> HIDE DEF n, V, G
      <4> QED BY <1>1, <1>2, <1>4, <3>1
    <3>3. \E f : f \in LoopResults(m, U, {}, H)
      BY <3>2, LoopResult
    <3> HIDE DEF n, V, G
    <3> QED BY <3>1, <3>3 DEF LoopResults
  <2>2. ASSUME NEW i \in 1..n
        PROVE  f[i] = IF a[i].kind # "flag" THEN {}
                      ELSE IF a[i].value # "" THEN Override(f[i + 1], a[i], k, a[i].value)
                      ELSE IF i = n THEN {}
                      ELSE Override(f[i + 2], a[i], k, a[i + 1].key)
    <3>1. i + 1 \in 1..(n + 2) /\ i + 2 \in 1..(n + 2)
      BY <1>1
    <3>2. <<i, f[i + 1], f[i + 2]>> \in (1..n) \X V \X V
      BY <3>1
    <3>3. f[i] = G[<<i, f[i + 1], f[i + 2]>>]
      BY <2>1
    <3> HIDE DEF V
    <3> QED BY <3>2, <3>3
  <2>3. P(f)
    <3> HIDE DEF V, G
    <3>1. ASSUME NEW i \in 1..(n + 2), i > n PROVE f[i] = {}
      <4>1. i = n + 1 \/ i = n + 2
        BY <3>1, <1>1
      <4> QED BY <4>1, <2>1
    <3>2. \A i \in 1..(n + 2) : ~(i > n) => i \in 1..n
      BY <1>1
    <3> QED BY <2>1, <2>2, <3>1, <3>2
  <2> QED BY <2>3
<1>6. P(CHOOSE f : P(f))
  <2> HIDE DEF P
  <2> QED BY <1>5
<1>7. SettingFrom(a, k) = CHOOSE f : P(f)
  BY DEF SettingFrom
<1>8. P(SettingFrom(a, k))
  <2> HIDE DEF P
  <2> QED BY <1>6, <1>7
<1>9. PICK f : f = SettingFrom(a, k)
  OBVIOUS
<1>10. P(f)
  <2> HIDE DEF P
  <2> QED BY <1>8, <1>9
<1>11. f[n + 1] = {} /\ f[n + 2] = {}
  <2>1. n + 1 \in 1..(n + 2) /\ n + 2 \in 1..(n + 2) /\ n + 1 > n /\ n + 2 > n
    BY <1>1
  <2> QED BY <1>10, <2>1
<1>12. ASSUME NEW i \in 1..n PROVE f[i] = SettingAt(f, a, k, i)
  <2>1. i \in 1..(n + 2) /\ ~(i > n)
    BY <1>1
  <2> QED BY <1>10, <2>1 DEF SettingAt
<1> QED BY <1>9, <1>11, <1>12

(* What stays of a command line, as the loop of syncWorkerArgs takes it.   *)
KeptAt(f, a, i) ==
  IF a[i].kind = "end" THEN SubSeq(a, i, Len(a))
  ELSE IF a[i].kind = "flag" /\ a[i].key \in WorkerKey THEN f[NextKept(a, i)]
  ELSE <<a[i]>> \o f[i + 1]

(* What the loop of syncWorkerArgs keeps, position by position.            *)
LEMMA KeptUnfolds ==
  ASSUME NEW S, NEW a \in Seq(S)
  PROVE  /\ KeptFrom(a) \in [1..(Len(a) + 2) -> Seq(S)]
         /\ KeptFrom(a)[Len(a) + 1] = <<>> /\ KeptFrom(a)[Len(a) + 2] = <<>>
         /\ \A i \in 1..Len(a) : KeptFrom(a)[i] = KeptAt(KeptFrom(a), a, i)
<1> DEFINE n == Len(a)
           V == Seq(S)
           G == [x \in (1..n) \X V \X V |->
                   IF a[x[1]].kind = "end" THEN SubSeq(a, x[1], n)
                   ELSE IF a[x[1]].kind = "flag" /\ a[x[1]].key \in WorkerKey
                   THEN IF a[x[1]].value = "" THEN x[3] ELSE x[2]
                   ELSE <<a[x[1]]>> \o x[2]]
           P(f) == f = [i \in 1..(n + 2) |->
                          IF i > n THEN <<>>
                          ELSE IF a[i].kind = "end" THEN SubSeq(a, i, n)
                          ELSE IF a[i].kind = "flag" /\ a[i].key \in WorkerKey
                          THEN f[NextKept(a, i)]
                          ELSE <<a[i]>> \o f[i + 1]]
<1>1. n \in Nat
  OBVIOUS
<1>2. <<>> \in V
  OBVIOUS
<1>3. ASSUME NEW x \in (1..n) \X V \X V PROVE G[x] \in V
  <2>1. x[1] \in 1..n /\ x[2] \in V /\ x[3] \in V
    OBVIOUS
  <2>2. SubSeq(a, x[1], n) \in V
    BY <2>1, <1>1
  <2>3. <<a[x[1]]>> \o x[2] \in V
    BY <2>1
  <2> HIDE DEF V
  <2> QED BY <2>1, <2>2, <2>3
<1>4. G \in [(1..n) \X V \X V -> V]
  BY <1>3
<1>5. PICK f \in [1..(n + 2) -> V] :
         /\ f[n + 1] = <<>> /\ f[n + 2] = <<>>
         /\ \A i \in 1..n : f[i] = G[<<i, f[i + 1], f[i + 2]>>]
  <2>1. PICK m, U, H : m = n /\ U = V /\ H = G
    <3> HIDE DEF n, V, G
    <3> QED OBVIOUS
  <2>2. m \in Nat /\ <<>> \in U /\ H \in [(1..m) \X U \X U -> U]
    <3> HIDE DEF n, V, G
    <3> QED BY <1>1, <1>2, <1>4, <2>1
  <2>3. \E f : f \in LoopResults(m, U, <<>>, H)
    BY <2>2, LoopResult
  <2> HIDE DEF n, V, G
  <2> QED BY <2>1, <2>3 DEF LoopResults
<1>6. ASSUME NEW i \in 1..n
      PROVE  f[i] = IF a[i].kind = "end" THEN SubSeq(a, i, n)
                    ELSE IF a[i].kind = "flag" /\ a[i].key \in WorkerKey
                    THEN f[NextKept(a, i)]
                    ELSE <<a[i]>> \o f[i + 1]
  <2>1. i + 1 \in 1..(n + 2) /\ i + 2 \in 1..(n + 2)
    BY <1>1
  <2>2. <<i, f[i + 1], f[i + 2]>> \in (1..n) \X V \X V
    BY <2>1
  <2>3. f[i] = G[<<i, f[i + 1], f[i + 2]>>]
    BY <1>5
  <2> HIDE DEF V
  <2> QED BY <2>2, <2>3 DEF NextKept
<1>7. P(f)
  <2> HIDE DEF V, G
  <2>1. ASSUME NEW i \in 1..(n + 2), i > n PROVE f[i] = <<>>
    <3>1. i = n + 1 \/ i = n + 2
      BY <2>1, <1>1
    <3> QED BY <3>1, <1>5
  <2>2. \A i \in 1..(n + 2) : ~(i > n) => i \in 1..n
    BY <1>1
  <2> QED BY <1>5, <1>6, <2>1, <2>2
<1>8. P(CHOOSE g : P(g))
  <2> HIDE DEF P
  <2> QED BY <1>7
<1>9. KeptFrom(a) = CHOOSE g : P(g)
  BY DEF KeptFrom
<1>10. PICK g : g = KeptFrom(a)
  OBVIOUS
<1>11. P(g)
  <2> HIDE DEF P
  <2> QED BY <1>8, <1>9, <1>10
<1>12. DOMAIN g = 1..(n + 2) /\ g[n + 1] = <<>> /\ g[n + 2] = <<>>
  <2>1. n + 1 \in 1..(n + 2) /\ n + 2 \in 1..(n + 2) /\ n + 1 > n /\ n + 2 > n
    BY <1>1
  <2> QED BY <1>11, <2>1
<1>13. ASSUME NEW i \in 1..n PROVE g[i] = KeptAt(g, a, i)
  <2>1. i \in 1..(n + 2) /\ ~(i > n)
    BY <1>1
  <2> QED BY <1>11, <2>1 DEF KeptAt
<1>14. \A i \in 1..(n + 2) : g[i] \in V
  <2> DEFINE T == {i \in 1..(n + 2) : g[i] \in V}
  <2>1. n + 1 \in T /\ n + 2 \in T
    <3>1. n + 1 \in 1..(n + 2) /\ n + 2 \in 1..(n + 2)
      BY <1>1
    <3> HIDE DEF V
    <3> QED BY <3>1, <1>2, <1>12
  <2>2. ASSUME NEW i \in 1..n, i + 1 \in T, i + 2 \in T PROVE i \in T
    <3>1. g[i + 1] \in V /\ g[i + 2] \in V /\ i \in 1..(n + 2)
      BY <2>2, <1>1
    <3>2. SubSeq(a, i, n) \in V /\ <<a[i]>> \o g[i + 1] \in V
      BY <3>1, <1>1
    <3> HIDE DEF V
    <3>3. g[i] \in V
      BY <3>1, <3>2, <1>13 DEF KeptAt, NextKept
    <3> QED BY <3>1, <3>3
  <2>3. \A i \in 1..(n + 2) : i \in T
    <3> HIDE DEF T, n
    <3> QED BY <1>1, <2>1, <2>2, CountingDown
  <2> QED BY <2>3
<1>15. g \in [1..(n + 2) -> V]
  BY <1>11, <1>12, <1>14
<1> QED BY <1>10, <1>12, <1>13, <1>15

(* A command line with one more argument in front is read the same from    *)
(* the second on.                                                          *)
LEMMA SettingShifts ==
  ASSUME NEW S, NEW x \in S, NEW t \in Seq(S), NEW k
  PROVE  \A j \in 1..(Len(t) + 2) :
           SettingFrom(<<x>> \o t, k)[j + 1] = SettingFrom(t, k)[j]
<1> DEFINE n == Len(t)
           T == {j \in 1..(n + 2) : SettingFrom(<<x>> \o t, k)[j + 1] = SettingFrom(t, k)[j]}
<1>1. PICK a : a = <<x>> \o t
  OBVIOUS
<1>2. a \in Seq(S) /\ Len(a) = n + 1 /\ n \in Nat
  BY <1>1
<1>3. \A j \in 1..n : a[j + 1] = t[j] /\ j + 1 \in 1..Len(a)
  BY <1>1, <1>2
<1>4. PICK f, g : f = SettingFrom(a, k) /\ g = SettingFrom(t, k)
  OBVIOUS
<1>5. /\ f[Len(a) + 1] = {} /\ f[Len(a) + 2] = {}
      /\ \A i \in 1..Len(a) : f[i] = SettingAt(f, a, k, i)
  BY <1>2, <1>4, SettingUnfolds
<1>6. /\ g[n + 1] = {} /\ g[n + 2] = {}
      /\ \A i \in 1..n : g[i] = SettingAt(g, t, k, i)
  BY <1>4, SettingUnfolds
<1>7. n + 1 \in T /\ n + 2 \in T
  <2>1. f[(n + 1) + 1] = {} /\ f[(n + 2) + 1] = {}
    <3>1. (n + 1) + 1 = Len(a) + 1 /\ (n + 2) + 1 = Len(a) + 2
      BY <1>2
    <3> QED BY <3>1, <1>5
  <2>2. n + 1 \in 1..(n + 2) /\ n + 2 \in 1..(n + 2)
    BY <1>2
  <2> QED BY <1>1, <1>4, <1>6, <2>1, <2>2
<1>8. ASSUME NEW j \in 1..n, j + 1 \in T, j + 2 \in T PROVE j \in T
  <2>1. f[(j + 1) + 1] = g[j + 1] /\ f[(j + 1) + 2] = g[j + 2]
    <3>1. (j + 1) + 2 = (j + 2) + 1
      BY <1>2
    <3> QED BY <1>8, <1>1, <1>4, <3>1
  <2>2. a[j + 1] = t[j] /\ j + 1 \in 1..Len(a)
    BY <1>3
  <2>3. j # n => a[(j + 1) + 1] = t[j + 1]
    <3>1. j # n => j + 1 \in 1..n
      BY <1>2
    <3> QED BY <3>1, <1>3
  <2>4. j + 1 = Len(a) <=> j = n
    BY <1>2
  <2>5. f[j + 1] = SettingAt(f, a, k, j + 1) /\ g[j] = SettingAt(g, t, k, j)
    BY <2>2, <1>5, <1>6
  <2>6. SettingAt(f, a, k, j + 1) = SettingAt(g, t, k, j)
    BY <2>1, <2>2, <2>3, <2>4 DEF SettingAt
  <2>7. j \in 1..(n + 2)
    BY <1>2
  <2> QED BY <2>5, <2>6, <2>7, <1>1, <1>4
<1>9. \A j \in 1..(n + 2) : j \in T
  <2> HIDE DEF T, n
  <2> QED BY <1>2, <1>7, <1>8, CountingDown
<1> QED BY <1>9

(* The second and the third position of a command line are the first and   *)
(* the second of what follows its first argument.                          *)
LEMMA SettingInFront ==
  ASSUME NEW S, NEW x \in S, NEW t \in Seq(S), NEW k
  PROVE  LET a == <<x>> \o t IN
         /\ a \in Seq(S) /\ Len(a) = Len(t) + 1 /\ a[1] = x
         /\ Setting(a, k) = SettingAt(SettingFrom(a, k), a, k, 1)
         /\ SettingFrom(a, k)[1 + 1] = Setting(t, k)
         /\ SettingFrom(a, k)[1 + 2] = SettingFrom(t, k)[2]
<1>0. PICK a : a = <<x>> \o t
  OBVIOUS
<1>1. a \in Seq(S) /\ Len(a) = Len(t) + 1 /\ a[1] = x /\ Len(t) \in Nat
  BY <1>0
<1>2. 1 \in 1..Len(a) /\ 1 \in 1..(Len(t) + 2) /\ 2 \in 1..(Len(t) + 2)
  BY <1>1
<1>3. SettingFrom(a, k)[1] = SettingAt(SettingFrom(a, k), a, k, 1)
  BY <1>1, <1>2, SettingUnfolds
<1>4. /\ SettingFrom(a, k)[1 + 1] = SettingFrom(t, k)[1]
      /\ SettingFrom(a, k)[2 + 1] = SettingFrom(t, k)[2]
  BY <1>0, <1>2, SettingShifts
<1> QED BY <1>0, <1>1, <1>3, <1>4 DEF Setting

(* Nothing is set where there is no argument.                              *)
LEMMA SettingOfNone ==
  ASSUME NEW k
  PROVE  Setting(<<>>, k) = {}
<1>1. <<>> \in Seq({0}) /\ Len(<<>>) = 0
  OBVIOUS
<1>2. SettingFrom(<<>>, k)[Len(<<>>) + 1] = {}
  BY <1>1, SettingUnfolds
<1> QED BY <1>1, <1>2 DEF Setting

(* Nothing is set by a command line that begins with no flag.              *)
LEMMA SettingOfWord ==
  ASSUME NEW S, NEW x \in S, NEW t \in Seq(S), NEW k
  PROVE  x.kind # "flag" => Setting(<<x>> \o t, k) = {}
<1>1. PICK a : a = <<x>> \o t
  OBVIOUS
<1>2. a[1] = x /\ Setting(a, k) = SettingAt(SettingFrom(a, k), a, k, 1)
  BY <1>1, SettingInFront
<1> QED BY <1>1, <1>2 DEF SettingAt

(* A flag with its value sets its key, unless that is set later.           *)
LEMMA SettingOfFlag ==
  ASSUME NEW S, NEW x \in S, NEW t \in Seq(S), NEW k
  PROVE  x.kind = "flag" /\ x.value # "" =>
           Setting(<<x>> \o t, k) = Override(Setting(t, k), x, k, x.value)
<1>1. PICK a : a = <<x>> \o t
  OBVIOUS
<1>2. /\ a[1] = x /\ Setting(a, k) = SettingAt(SettingFrom(a, k), a, k, 1)
      /\ SettingFrom(a, k)[1 + 1] = Setting(t, k)
  BY <1>1, SettingInFront
<1> QED BY <1>1, <1>2 DEF SettingAt

(* So does a flag with the argument after it.                              *)
LEMMA SettingOfPair ==
  ASSUME NEW S, NEW x \in S, NEW t \in Seq(S), NEW k
  PROVE  x.kind = "flag" /\ x.value = "" /\ Len(t) # 0 =>
           Setting(<<x>> \o t, k) = Override(SettingFrom(t, k)[2], x, k, t[1].key)
<1>1. PICK a : a = <<x>> \o t
  OBVIOUS
<1>2. /\ a[1] = x /\ Setting(a, k) = SettingAt(SettingFrom(a, k), a, k, 1)
      /\ SettingFrom(a, k)[1 + 2] = SettingFrom(t, k)[2] /\ Len(a) = Len(t) + 1
  BY <1>1, SettingInFront
<1>3. Len(t) # 0 => Len(a) # 1 /\ a[1 + 1] = t[1]
  BY <1>1, <1>2
<1> QED BY <1>1, <1>2, <1>3 DEF SettingAt

(* A flag's separate value is there and is a word.                         *)
WellFormed(a) ==
  \A i \in DOMAIN a : a[i].kind = "flag" /\ a[i].value = "" =>
    i + 1 \in DOMAIN a /\ a[i + 1].kind = "word"

(* From every position on, what syncWorkerArgs keeps sets what was set     *)
(* there before, but for the keys that make a worker.                      *)
LEMMA KeptIsRead ==
  ASSUME NEW S, NEW a \in Seq(S), WellFormed(a), NEW k
  PROVE  \A i \in 1..(Len(a) + 2) :
           Setting(KeptFrom(a)[i], k) = IF k \in WorkerKey THEN {} ELSE SettingFrom(a, k)[i]
<1>1. PICK r, f : r = KeptFrom(a) /\ f = SettingFrom(a, k)
  OBVIOUS
<1> DEFINE n == Len(a)
           Want(i) == IF k \in WorkerKey THEN {} ELSE f[i]
           T == {i \in 1..(n + 2) : Setting(r[i], k) = Want(i)}
<1>2. n \in Nat /\ DOMAIN a = 1..n
  OBVIOUS
<1>3. /\ r \in [1..(n + 2) -> Seq(S)] /\ r[n + 1] = <<>> /\ r[n + 2] = <<>>
      /\ \A i \in 1..n : r[i] = KeptAt(r, a, i)
  BY <1>1, KeptUnfolds
<1>4. /\ f[n + 1] = {} /\ f[n + 2] = {}
      /\ \A i \in 1..n : f[i] = SettingAt(f, a, k, i)
  BY <1>1, SettingUnfolds
<1>5. n + 1 \in T /\ n + 2 \in T
  <2>1. n + 1 \in 1..(n + 2) /\ n + 2 \in 1..(n + 2)
    BY <1>2
  <2>2. Setting(<<>>, k) = {}
    BY SettingOfNone
  <2> QED BY <1>3, <1>4, <2>1, <2>2
<1>6. ASSUME NEW i \in 1..n, i + 1 \in T, i + 2 \in T PROVE i \in T
  <2>1. /\ i \in 1..(n + 2) /\ i + 1 \in 1..(n + 2) /\ i + 2 \in 1..(n + 2)
    BY <1>2
  <2>2. PICK x, t : x = a[i] /\ t = r[i + 1]
    OBVIOUS
  <2>3. x \in S /\ t \in Seq(S) /\ r[i + 2] \in Seq(S)
    <3>1. a[i] \in S
      OBVIOUS
    <3>2. r[i + 1] \in Seq(S) /\ r[i + 2] \in Seq(S)
      BY <2>1, <1>3
    <3> QED BY <2>2, <3>1, <3>2
  <2>4. Setting(t, k) = Want(i + 1) /\ Setting(r[i + 2], k) = Want(i + 2)
    BY <1>6, <2>2
  <2>5. r[i] = KeptAt(r, a, i) /\ f[i] = SettingAt(f, a, k, i)
    BY <1>3, <1>4
  <2>6. x.kind # "flag" => f[i] = {}
    BY <2>2, <2>5 DEF SettingAt
  <2>7. CASE x.kind = "end"
    <3>1. r[i] = SubSeq(a, i, n)
      BY <2>2, <2>5, <2>7 DEF KeptAt
    <3>2. PICK u : u = SubSeq(a, i + 1, n)
      OBVIOUS
    <3>3. u \in Seq(S) /\ SubSeq(a, i, n) = <<x>> \o u
      BY <1>2, <2>2, <3>2
    <3>4. Setting(<<x>> \o u, k) = {}
      BY <2>3, <2>7, <3>3, SettingOfWord
    <3> QED BY <2>1, <2>6, <2>7, <3>1, <3>3, <3>4
  <2>8. CASE x.kind # "end" /\ x.kind # "flag"
    <3>1. r[i] = <<x>> \o t
      BY <2>2, <2>5, <2>8 DEF KeptAt
    <3>2. Setting(<<x>> \o t, k) = {}
      BY <2>3, <2>8, SettingOfWord
    <3> QED BY <2>1, <2>6, <2>8, <3>1, <3>2
  <2>9. CASE x.kind = "flag" /\ x.value # ""
    <3>1. f[i] = Override(f[i + 1], x, k, x.value)
      BY <2>2, <2>5, <2>9 DEF SettingAt
    <3>2. CASE x.key \in WorkerKey
      <4>1. r[i] = t
        BY <2>2, <2>5, <2>9, <3>2 DEF KeptAt, NextKept
      <4>2. k \notin WorkerKey => f[i] = f[i + 1]
        BY <3>1, <3>2 DEF Override
      <4> QED BY <2>1, <2>4, <4>1, <4>2
    <3>3. CASE x.key \notin WorkerKey
      <4>1. r[i] = <<x>> \o t
        BY <2>2, <2>5, <2>9, <3>3 DEF KeptAt
      <4>2. Setting(r[i], k) = Override(Setting(t, k), x, k, x.value)
        <5>1. Setting(<<x>> \o t, k) = Override(Setting(t, k), x, k, x.value)
          BY <2>3, <2>9, SettingOfFlag
        <5> QED BY <4>1, <5>1
      <4>3. k \in WorkerKey => Setting(r[i], k) = {}
        BY <2>4, <4>2, <3>3 DEF Override
      <4> QED BY <2>1, <2>4, <3>1, <4>2, <4>3
    <3> QED BY <3>2, <3>3
  <2>10. CASE x.kind = "flag" /\ x.value = ""
    <3>1. i + 1 \in 1..n /\ a[i + 1].kind = "word" /\ i # n
      <4>1. i + 1 \in DOMAIN a /\ a[i + 1].kind = "word"
        BY <1>2, <2>2, <2>10 DEF WellFormed
      <4> HIDE DEF n
      <4>2. i \in Nat /\ i + 1 \in 1..n
        BY <1>2, <4>1
      <4> QED BY <1>2, <4>1, <4>2
    <3>2. PICK y, u : y = a[i + 1] /\ u = r[i + 2]
      OBVIOUS
    <3>3. y \in S /\ u \in Seq(S)
      BY <2>3, <3>1, <3>2
    <3>4. f[i] = Override(f[i + 2], x, k, y.key)
      BY <2>2, <2>5, <2>10, <3>1, <3>2 DEF SettingAt
    <3>5. CASE x.key \in WorkerKey
      <4>1. r[i] = u
        BY <2>2, <2>5, <2>10, <3>2, <3>5 DEF KeptAt, NextKept
      <4>2. k \notin WorkerKey => f[i] = f[i + 2]
        BY <3>4, <3>5 DEF Override
      <4> QED BY <2>1, <2>4, <3>2, <4>1, <4>2
    <3>6. CASE x.key \notin WorkerKey
      <4>1. r[i] = <<x>> \o t
        BY <2>2, <2>5, <2>10, <3>6 DEF KeptAt
      <4>2. r[i + 1] = <<y>> \o r[(i + 1) + 1]
        BY <3>1, <3>2, <1>3 DEF KeptAt
      <4>3. t = <<y>> \o u
        <5>1. (i + 1) + 1 = i + 2
          BY <1>2
        <5> QED BY <4>2, <5>1, <2>2, <3>2
      <4>4. Setting(r[i], k) = Override(Setting(u, k), x, k, y.key)
        <5>1. Len(t) = Len(u) + 1 /\ t[1] = y /\ SettingFrom(t, k)[1 + 1] = Setting(u, k)
          BY <3>3, <4>3, SettingInFront
        <5>2. Len(t) # 0
          <6>1. Len(u) \in Nat
            BY <3>3
          <6> QED BY <5>1, <6>1
        <5>3. Setting(<<x>> \o t, k) = Override(SettingFrom(t, k)[2], x, k, t[1].key)
          BY <2>3, <2>10, <5>2, SettingOfPair
        <5> QED BY <4>1, <5>1, <5>3
      <4>5. k \in WorkerKey => Setting(r[i], k) = {}
        BY <2>4, <3>2, <4>4, <3>6 DEF Override
      <4> QED BY <2>1, <2>4, <3>2, <3>4, <4>4, <4>5
    <3> QED BY <3>5, <3>6
  <2> QED BY <2>7, <2>8, <2>9, <2>10
<1>7. \A i \in 1..(n + 2) : i \in T
  <2> HIDE DEF T, n
  <2> QED BY <1>2, <1>5, <1>6, CountingDown
<1> QED BY <1>1, <1>7

(* A worker's command line says which sync it runs, and nothing else that  *)
(* the server's does not.                                                  *)
LEMMA WorkerReadsTheSame ==
  ASSUME NEW a \in ServerArgs, NEW k
  PROVE  /\ Setting(syncWorkerArgs(a), "sync_worker") = {Id}
         /\ k \notin WorkerKey => Setting(syncWorkerArgs(a), k) = Setting(a, k)
<1>1. PICK x, S : x = Flag("sync_worker", Id) /\ S = Range(a) \cup {x}
  OBVIOUS
<1>2. a \in Seq(S) /\ WellFormed(a) /\ x \in S /\ Id # ""
  <2>1. a \in Seq(Range(a)) /\ WellFormed(a) /\ Id # ""
    BY ArgsAssumption DEF WellFormed
  <2>2. Range(a) \subseteq S
    BY <1>1
  <2>3. a \in Seq(Range(a))
    BY <2>1
  <2>4. \A R : a \in Seq(R) /\ R \subseteq S => a \in Seq(S)
    OBVIOUS
  <2>5. a \in Seq(S)
    BY <2>2, <2>3, <2>4
  <2> QED BY <2>1, <2>5, <1>1
<1>3. x.kind = "flag" /\ x.key = "sync_worker" /\ x.value = Id
  BY <1>1 DEF Flag
<1>4. PICK t : t = KeptFrom(a)[1]
  OBVIOUS
<1>5. 1 \in 1..(Len(a) + 2)
  <2>1. a \in Seq(S)
    BY <1>2
  <2>2. Len(a) \in Nat
    BY <2>1
  <2> QED BY <2>2
<1>6. t \in Seq(S)
  BY <1>2, <1>4, <1>5, KeptUnfolds
<1>7. ASSUME NEW q PROVE Setting(<<x>> \o t, q) = Override(Setting(t, q), x, q, x.value)
  BY <1>2, <1>3, <1>6, SettingOfFlag
<1>8. \A q : Setting(t, q) = IF q \in WorkerKey THEN {} ELSE SettingFrom(a, q)[1]
  BY <1>2, <1>4, <1>5, KeptIsRead
<1>9. syncWorkerArgs(a) = <<x>> \o t
  BY <1>1, <1>4 DEF syncWorkerArgs
<1>10. "sync_worker" \in WorkerKey
  BY DEF WorkerKey
<1> QED BY <1>3, <1>7, <1>8, <1>9, <1>10 DEF Override, Setting

(* A Job that is asked for has one container, the configured one without   *)
(* what only a server needs.                                               *)
LEMMA JobOfApplication ==
  ASSUME pod \in Pods, Selected
  PROVE  /\ Len(syncWorkerJob.app) = 1
         /\ syncWorkerJob.app[1].args = syncWorkerArgs(args)
         /\ \E c \in Range(pod.containers) :
              /\ container = "" => Len(pod.containers) = 1
              /\ container # "" => syncWorkerJob.app[1].name = container
              /\ syncWorkerJob.app[1].name = c.name
              /\ syncWorkerJob.app[1].fields = c.fields \ ServerOnly
              /\ syncWorkerJob.fields = pod.fields \ PodOnly
<1> DEFINE cs == pod.containers
           chosen == {n \in DOMAIN cs : App(n)}
           last == CHOOSE n \in chosen : \A m \in chosen : m <= n
           c == cs[last]
<1>1. cs \in Seq(Range(cs))
  BY LauncherAssumption
<1>2. Len(cs) \in Nat /\ DOMAIN cs = 1..Len(cs)
  BY <1>1
<1>3. chosen # {}
  BY DEF Selected, syncWorkerJob
<1>4. chosen \subseteq 1..Len(cs)
  BY <1>2
<1>5. \E n \in chosen : \A m \in chosen : m <= n
  BY <1>2, <1>3, <1>4, LastPosition
<1>6. last \in DOMAIN cs /\ App(last)
  BY <1>5
<1>7. c \in Range(cs)
  BY <1>6 DEF Range
<1>8. PICK a : a = [name |-> c.name, fields |-> c.fields \ ServerOnly,
                    args |-> syncWorkerArgs(args)]
  OBVIOUS
<1>9. syncWorkerJob = [app |-> <<a>>, fields |-> pod.fields \ PodOnly]
  BY <1>3, <1>8 DEF syncWorkerJob
<1>10. /\ container = "" => Len(cs) = 1
       /\ container # "" => c.name = container
  BY <1>6 DEF App
<1> HIDE DEF cs, c
<1>11. a.name = c.name /\ a.fields = c.fields \ ServerOnly /\ a.args = syncWorkerArgs(args)
  BY <1>8
<1>12. /\ syncWorkerJob.app = <<a>> /\ Len(syncWorkerJob.app) = 1
       /\ syncWorkerJob.app[1] = a /\ syncWorkerJob.fields = pod.fields \ PodOnly
  BY <1>9
<1> QED BY <1>7, <1>10, <1>11, <1>12 DEF cs

(* Nothing is asked for before the launch.                                 *)
LEMMA LauncherInvInit == LauncherInit => LauncherInv
BY DEF LauncherInit, LauncherInv, LauncherTypeOK, Requested, Reported, Range

(* A step that starts nothing and returns, or goes on, keeps the invariant.*)
LEMMA LaunchGoesOn ==
  ASSUME LauncherInv, NEW v \in {"account", "get", "error"}, LaunchReturns(v),
         v # "error" => pc \in {"start", "account", "get"},
         pc # "ok", UNCHANGED <<post, job, jobs, procs>>
  PROVE  LauncherInv'
<1>1. UNCHANGED <<args, host, container, pod>> /\ pc' = v
  BY DEF LaunchReturns
<1>2. syncWorkerJob' = syncWorkerJob
  BY <1>1 DEF syncWorkerJob, App
<1>3. Selected' = Selected
  BY <1>2 DEF Selected
<1>4. LauncherTypeOK'
  BY <1>1 DEF LauncherInv, LauncherTypeOK
<1>5. Requested' /\ Reported'
  BY <1>1, <1>2, <1>3 DEF LauncherInv, Requested, Reported
<1> QED BY <1>4, <1>5 DEF LauncherInv

(* Every step of launcher and API server keeps the invariant.              *)
LEMMA LauncherInvStep == LauncherInv /\ [LauncherNext]_launcherVars => LauncherInv'
<1> SUFFICES ASSUME LauncherInv, [LauncherNext]_launcherVars PROVE LauncherInv'
  OBVIOUS
<1>0. UNCHANGED <<args, container, pod>> => syncWorkerJob' = syncWorkerJob
                                              /\ Selected' = Selected
  BY DEF syncWorkerJob, App, Selected
<1>1. CASE LocalFails
  BY <1>1, LaunchGoesOn DEF LocalFails, Local
<1>2. CASE StartProcess
  <2>1. /\ pc = "start" /\ host = "unset" /\ pc' = "ok"
        /\ UNCHANGED <<args, host, container, pod, post, job, jobs>>
        /\ procs' = Append(procs, syncWorkerArgs(args))
    BY <1>2 DEF StartProcess, Local, LaunchReturns
  <2>2. procs = <<>> /\ post = "none"
    BY <2>1 DEF LauncherInv, Requested, Reported
  <2>3. Len(procs') = 1
    <3>1. \A a : Len(Append(<<>>, a)) = 1
      OBVIOUS
    <3> QED BY <2>1, <2>2, <3>1
  <2>4. LauncherTypeOK'
    BY <2>1 DEF LauncherInv, LauncherTypeOK
  <2>5. Requested' /\ Reported'
    BY <2>1, <2>2, <2>3 DEF LauncherInv, Requested, Reported
  <2> QED BY <2>4, <2>5 DEF LauncherInv
<1>3. CASE launchInClusterSyncWorker
  BY <1>3, LaunchGoesOn DEF launchInClusterSyncWorker
<1>4. CASE ReadAccount
  BY <1>4, LaunchGoesOn DEF ReadAccount
<1>5. CASE GetPod
  <2>1. CASE /\ Selected /\ LaunchReturns("post")
             /\ post' = "sent" /\ job' = syncWorkerJob
    <3>1. /\ pc = "get" /\ pc' = "post" /\ post = "none"
          /\ UNCHANGED <<args, host, container, pod, jobs, procs>>
      BY <1>5, <2>1 DEF GetPod, LaunchReturns, LauncherInv, Requested
    <3>2. LauncherTypeOK'
      BY <2>1, <3>1 DEF LauncherInv, LauncherTypeOK
    <3>3. Requested' /\ Reported'
      BY <1>0, <2>1, <3>1 DEF LauncherInv, Requested, Reported
    <3> QED BY <3>2, <3>3 DEF LauncherInv
  <2>2. CASE LaunchReturns("error") /\ UNCHANGED <<post, job>>
    BY <1>5, <2>2, LaunchGoesOn DEF GetPod
  <2> QED BY <1>5, <2>1, <2>2 DEF GetPod
<1>6. CASE APIServer
  <2>1. /\ post = "sent" /\ jobs = <<>> /\ job = syncWorkerJob /\ Selected /\ pc # "ok"
        /\ UNCHANGED <<args, host, container, pod, pc, job, procs>>
    BY <1>6 DEF APIServer, LauncherInv, Requested, Reported
  <2>2. Len(job.app) = 1
    BY <2>1, JobOfApplication DEF LauncherInv, LauncherTypeOK
  <2>3. CASE post' = "created" /\ jobs' = Append(jobs, job)
    <3>1. jobs' = <<job>>
      BY <2>1, <2>3
    <3>2. \A j \in Range(jobs') : j = job
      BY <3>1 DEF Range
    <3>3. LauncherTypeOK'
      BY <2>1, <2>2, <2>3, <3>2 DEF LauncherInv, LauncherTypeOK
    <3>4. Requested' /\ Reported'
      BY <1>0, <2>1, <2>3, <3>1 DEF LauncherInv, Requested, Reported
    <3> QED BY <3>3, <3>4 DEF LauncherInv
  <2>4. CASE post' = "refused" /\ UNCHANGED jobs
    <3>1. LauncherTypeOK'
      BY <2>1, <2>4 DEF LauncherInv, LauncherTypeOK
    <3>2. Requested' /\ Reported'
      BY <1>0, <2>1, <2>4 DEF LauncherInv, Requested, Reported
    <3> QED BY <3>1, <3>2 DEF LauncherInv
  <2> QED BY <1>6, <2>3, <2>4 DEF APIServer
<1>7. CASE PostAnswered
  <2>1. CASE StatusOK
    <3>1. /\ pc = "post" /\ post = "created" /\ pc' = "ok"
          /\ UNCHANGED <<args, host, container, pod, post, job, jobs, procs>>
      BY <1>7, <2>1 DEF PostAnswered, StatusOK, LaunchReturns
    <3>2. LauncherTypeOK'
      BY <3>1 DEF LauncherInv, LauncherTypeOK
    <3>3. Requested' /\ Reported'
      BY <1>0, <3>1 DEF LauncherInv, Requested, Reported
    <3> QED BY <3>2, <3>3 DEF LauncherInv
  <2>2. CASE ~StatusOK
    BY <1>7, <2>2, LaunchGoesOn DEF PostAnswered
  <2> QED BY <2>1, <2>2
<1>8. CASE PostFails
  BY <1>8, LaunchGoesOn DEF PostFails
<1>9. CASE UNCHANGED launcherVars
  <2>1. UNCHANGED <<args, host, container, pod, pc, post, job, jobs, procs>>
    BY <1>9 DEF launcherVars
  <2> QED BY <1>0, <2>1 DEF LauncherInv, LauncherTypeOK, Requested, Reported
<1> QED BY <1>1, <1>2, <1>3, <1>4, <1>5, <1>6, <1>7, <1>8, <1>9 DEF LauncherNext

(* The inductive invariant of a launch.                                    *)
THEOREM LauncherInvariant == LauncherSpec => []LauncherInv
BY LauncherInvInit, LauncherInvStep, PTL DEF LauncherSpec

(* A launch keeps its state within its types.                              *)
THEOREM LauncherTypeCorrect == LauncherSpec => []LauncherTypeOK
<1>1. LauncherInv => LauncherTypeOK
  BY DEF LauncherInv
<1> QED BY <1>1, LauncherInvariant, PTL

(* What starts is the application itself, for every command line, pod and  *)
(* way in which requests fail: in a cluster no worker is a local process,  *)
(* a Job's one container is the application's own, without probes and      *)
(* ports, and a worker reads all its settings as the server does, but for  *)
(* the sync it is to run.                                                  *)
THEOREM WorkersRunTheApplication == LauncherSpec => []WorkerIsApplication
<1>1. LauncherInv => WorkerIsApplication
  <2> SUFFICES ASSUME LauncherInv PROVE WorkerIsApplication
    OBVIOUS
  <2>1. NotDowngraded
    BY DEF LauncherInv, Reported, NotDowngraded
  <2>2. Configured(syncWorkerArgs(args))
    <3>1. args \in ServerArgs
      BY DEF LauncherInv, LauncherTypeOK
    <3> QED BY <3>1, WorkerReadsTheSame DEF Configured
  <2>3. \A n \in DOMAIN procs : Configured(procs[n])
    <3>1. \A n \in DOMAIN procs : procs[n] = syncWorkerArgs(args)
      BY DEF LauncherInv, Reported
    <3> QED BY <2>2, <3>1
  <2>4. CASE post = "created"
    <3>1. jobs = <<syncWorkerJob>> /\ Selected /\ pod \in Pods
      BY <2>4 DEF LauncherInv, LauncherTypeOK, Requested
    <3>2. \A n \in DOMAIN jobs : jobs[n] = syncWorkerJob
      BY <3>1
    <3>3. JobIsTheApplication
      BY <3>1, <3>2, JobOfApplication DEF JobIsTheApplication
    <3>4. WorkersConfigured
      BY <2>2, <2>3, <3>1, <3>2, JobOfApplication DEF WorkersConfigured
    <3> QED BY <2>1, <3>3, <3>4 DEF WorkerIsApplication
  <2>5. CASE post # "created"
    <3>1. DOMAIN jobs = {}
      BY <2>5 DEF LauncherInv, Requested
    <3> QED BY <2>1, <2>3, <3>1 DEF WorkerIsApplication, WorkersConfigured, JobIsTheApplication
  <2> QED BY <2>4, <2>5
<1> QED BY <1>1, LauncherInvariant, PTL

(* How many workers a launch has started, by what became of the request.   *)
LEMMA StartedWorkers ==
  ASSUME LauncherInv
  PROVE  /\ post = "created" => Len(jobs) = 1 /\ Len(procs) = 0
         /\ post # "created" => Len(jobs) = 0
         /\ pc # "ok" => Len(procs) = 0
         /\ pc = "ok" => Len(jobs) + Len(procs) = 1
<1>1. /\ jobs = IF post = "created" THEN <<job>> ELSE <<>>
      /\ procs = <<>> \/ (Len(procs) = 1 /\ pc = "ok" /\ post = "none")
      /\ pc = "ok" => post = "created" \/ (post = "none" /\ Len(procs) = 1)
  BY DEF LauncherInv, Requested, Reported
<1>2. Len(<<job>>) = 1 /\ Len(<<>>) = 0
  OBVIOUS
<1> QED BY <1>1, <1>2

(* launchSyncWorker keeps the promise SyncSystem is built on: one worker   *)
(* at most, success for one that was started, and an error that says       *)
(* nothing, the Job of a request that timed out included.                  *)
THEOREM LauncherKeepsPromise == LauncherSpec => KeepsPromise
<1> DEFINE n == Len(jobs) + Len(procs)
           o == IF pc \in {"ok", "error"} THEN pc ELSE "none"
<1>1. LauncherInit => Promise!Init
  BY DEF LauncherInit, Promise!Init
<1>2. LauncherInv /\ LauncherInv' /\ [LauncherNext]_launcherVars
        => [Promise!Next]_<<n, o>>
  <2> SUFFICES ASSUME LauncherInv, LauncherInv', [LauncherNext]_launcherVars
               PROVE  Promise!Next \/ (n' = n /\ o' = o)
    OBVIOUS
  <2>1. /\ post = "created" => Len(jobs) = 1 /\ Len(procs) = 0
        /\ post # "created" => Len(jobs) = 0
        /\ pc # "ok" => Len(procs) = 0
        /\ pc = "ok" => n = 1
    BY StartedWorkers
  <2>2. ASSUME NEW v \in {"account", "get", "post", "error"}, LaunchReturns(v),
               pc \in {"start", "account", "get", "post"}, UNCHANGED <<jobs, procs>>
        PROVE  Promise!Next \/ (n' = n /\ o' = o)
    <3>1. n' = n /\ o = "none"
      BY <2>2
    <3>2. CASE v = "error"
      <4>1. o' = "error"
        BY <2>2, <3>2 DEF LaunchReturns
      <4> QED BY <3>1, <4>1 DEF Promise!Next, Promise!Return
    <3>3. CASE v # "error"
      <4>1. o' = "none"
        BY <2>2, <3>3 DEF LaunchReturns
      <4> QED BY <3>1, <4>1
    <3> QED BY <3>2, <3>3
  <2>3. CASE LocalFails
    BY <2>2, <2>3 DEF LocalFails, Local
  <2>4. CASE StartProcess
    <3>1. pc = "start" /\ pc' = "ok" /\ UNCHANGED jobs /\ post = "none"
      BY <2>4 DEF StartProcess, Local, LaunchReturns, LauncherInv, Requested
    <3>2. n = 0 /\ o = "none" /\ o' = "ok"
      BY <2>1, <3>1
    <3>3. n' = 1
      BY <3>1, StartedWorkers DEF LauncherInv, Requested, Reported
    <3> QED BY <3>2, <3>3 DEF Promise!Next, Promise!StartAndReturn
  <2>5. CASE launchInClusterSyncWorker
    BY <2>2, <2>5 DEF launchInClusterSyncWorker
  <2>6. CASE ReadAccount
    BY <2>2, <2>6 DEF ReadAccount
  <2>7. CASE GetPod
    BY <2>2, <2>7 DEF GetPod
  <2>8. CASE APIServer
    <3>1. post = "sent" /\ pc # "ok" /\ UNCHANGED <<pc, procs>>
      BY <2>8 DEF APIServer, LauncherInv, Reported
    <3>2. n = 0 /\ o' = o /\ o # "ok"
      BY <2>1, <3>1
    <3>3. CASE post' = "created"
      <4>1. n' = 1
        BY <2>8, <3>3 DEF APIServer, LauncherInv, Requested, Reported
      <4> QED BY <3>2, <4>1 DEF Promise!Next, Promise!Start
    <3>4. CASE UNCHANGED jobs
      BY <3>1, <3>2, <3>4
    <3> QED BY <2>8, <3>3, <3>4 DEF APIServer
  <2>9. CASE PostAnswered
    <3>1. CASE StatusOK
      <4>1. pc = "post" /\ pc' = "ok" /\ post = "created" /\ UNCHANGED <<jobs, procs>>
        BY <2>9, <3>1 DEF PostAnswered, StatusOK, LaunchReturns
      <4>2. n = 1 /\ n' = n /\ o = "none" /\ o' = "ok"
        BY <2>1, <4>1
      <4> QED BY <4>2 DEF Promise!Next, Promise!Return
    <3>2. CASE ~StatusOK
      BY <2>2, <2>9, <3>2 DEF PostAnswered
    <3> QED BY <3>1, <3>2
  <2>10. CASE PostFails
    BY <2>2, <2>10 DEF PostFails
  <2>11. CASE UNCHANGED launcherVars
    BY <2>11 DEF launcherVars
  <2> QED BY <2>3, <2>4, <2>5, <2>6, <2>7, <2>8, <2>9, <2>10, <2>11 DEF LauncherNext
<1> QED BY <1>1, <1>2, LauncherInvariant, LauncherInvStep, PTL
        DEF LauncherSpec, KeepsPromise, Promise!Spec

-----------------------------------------------------------------------------
(* The dashboard's tables.                                                 *)

(* Every row's handlers are for the directory the row names, however often *)
(* it was patched, since the scope they were kept by is its path.          *)
RowsInv ==
  \A t \in Table : \A i \in DOMAIN rows[t] :
    rows[t][i].handler = rows[t][i].path /\ rows[t][i].scope = rows[t][i].path

(* The inductive invariant of the tables.                                  *)
ViewInv == RowsInv /\ ClickHitsRow

(* Patching rows with scoped handlers gives rows with scoped handlers.     *)
LEMMA PatchedRows ==
  ASSUME NEW old, NEW new,
         \A i \in DOMAIN old : old[i].handler = old[i].path /\ old[i].scope = old[i].path
  PROVE  \A i \in DOMAIN Patched(old, new) :
           /\ Patched(old, new)[i].handler = Patched(old, new)[i].path
           /\ Patched(old, new)[i].scope = Patched(old, new)[i].path
<1> SUFFICES ASSUME NEW i \in DOMAIN new,
                    NEW row, row = Patched(old, new)[i]
             PROVE  row.handler = row.path /\ row.scope = row.path
  BY DEF Patched
<1>1. /\ row.path = new[i].path /\ row.scope = new[i].path
      /\ row.handler = IF /\ i \in DOMAIN old /\ SameElement(old[i], new[i])
                          /\ old[i].scope = new[i].path
                       THEN old[i].handler ELSE new[i].path
  BY DEF Patched, EventScope
<1> QED BY <1>1

(* The page is empty before it is rendered.                                *)
LEMMA ViewInvInit == ViewInit => ViewInv
BY DEF ViewInit, ViewInv, RowsInv, ClickHitsRow

(* Every change, rendering and click keeps the invariant.                  *)
LEMMA ViewInvStep == ViewInv /\ [ViewNext]_viewVars => ViewInv'
<1> SUFFICES ASSUME ViewInv, [ViewNext]_viewVars PROVE ViewInv'
  OBVIOUS
<1>1. ASSUME UNCHANGED <<rows, clicked>> PROVE ViewInv'
  BY <1>1 DEF ViewInv, RowsInv, ClickHitsRow
<1>2. CASE Render
  <2>1. \A i \in DOMAIN rows'["dirs"] :
          /\ rows'["dirs"][i].handler = rows'["dirs"][i].path
          /\ rows'["dirs"][i].scope = rows'["dirs"][i].path
    <3>1. rows'["dirs"] = Patched(rows["dirs"], renderDirsTable)
      BY <1>2 DEF Render
    <3> QED BY <3>1, PatchedRows DEF ViewInv, RowsInv, Table
  <2>2. \A i \in DOMAIN rows'["syncs"] :
          /\ rows'["syncs"][i].handler = rows'["syncs"][i].path
          /\ rows'["syncs"][i].scope = rows'["syncs"][i].path
    <3>1. rows'["syncs"] = Patched(rows["syncs"], renderSyncsTable)
      BY <1>2 DEF Render
    <3> QED BY <3>1, PatchedRows DEF ViewInv, RowsInv, Table
  <2>3. clicked' = clicked
    BY <1>2 DEF Render
  <2> QED BY <2>1, <2>2, <2>3 DEF ViewInv, RowsInv, Table, ClickHitsRow
<1>3. ASSUME NEW t \in Table, NEW b \in Button, NEW i \in DOMAIN rows[t], Click(t, i, b)
      PROVE  ViewInv'
  <2>1. clicked'.acted = clicked'.path
    BY <1>3 DEF Click, ViewInv, RowsInv
  <2> QED BY <1>3, <2>1 DEF Click, ViewInv, RowsInv, ClickHitsRow
<1> QED BY <1>1, <1>2, <1>3 DEF ViewNext, viewVars, ShowDirs, ShowSyncs, OnInput, DirsFail

(* A click acts on the directory its row names, and no table claims that   *)
(* there are no remote directories when there are, for any lists and any   *)
(* filter.                                                                 *)
THEOREM PageTellsTruth == ViewSpec => PageIsTrue
<1>1. ViewInv' /\ [ViewNext]_viewVars => [ClickHitsRow' /\ NeverFalselyEmpty]_viewVars
  <2> SUFFICES ASSUME ViewInv', [ViewNext]_viewVars
               PROVE  ClickHitsRow' /\ NeverFalselyEmpty
    OBVIOUS
  <2>1. ASSUME Render, message' = "none found" PROVE dirs = <<>>
    <3>1. emptyMessage = "none found"
      BY <2>1 DEF Render
    <3>2. /\ ~(dirsLoadComplete /\ filteredDirs # <<>>) /\ dirsLoadComplete
          /\ ~(TrimSpace(dirFilter) # "" /\ dirs # <<>>)
      BY <3>1 DEF emptyMessage
    <3> QED BY <3>2 DEF filteredDirs
  <2>2. ~Render => message' = message
    BY DEF ViewNext, viewVars, ShowDirs, ShowSyncs, OnInput, DirsFail, Click
  <2> QED BY <2>1, <2>2 DEF ViewInv, NeverFalselyEmpty
<1> QED BY <1>1, ViewInvInit, ViewInvStep, PTL DEF ViewSpec, PageIsTrue

(* The filter gives a list of directories again.                           *)
LEMMA MatchingIsList ==
  ASSUME NEW S, NEW l \in Seq(S), NEW f
  PROVE  Matching(l, f) \in Seq(S)
<1> DEFINE n == Len(l)
           V == Seq(S)
           G == [x \in (1..n) \X V \X V |->
                   IF HasPart(l[(n + 1) - x[1]].path, f)
                   THEN Append(x[2], l[(n + 1) - x[1]]) ELSE x[2]]
           P(u) == u = [i \in 0..n |->
                          IF i = 0 THEN <<>>
                          ELSE IF HasPart(l[i].path, f) THEN Append(u[i - 1], l[i])
                          ELSE u[i - 1]]
<1>1. n \in Nat /\ <<>> \in V
  OBVIOUS
<1>2. ASSUME NEW x \in (1..n) \X V \X V PROVE G[x] \in V
  <2>1. x[1] \in 1..n /\ x[2] \in V
    OBVIOUS
  <2>2. (n + 1) - x[1] \in 1..n
    BY <2>1, <1>1
  <2>3. l[(n + 1) - x[1]] \in S
    BY <2>2
  <2>4. Append(x[2], l[(n + 1) - x[1]]) \in V
    BY <2>1, <2>3
  <2> HIDE DEF V
  <2> QED BY <2>1, <2>4
<1>3. G \in [(1..n) \X V \X V -> V]
  BY <1>2
<1>4. PICK h \in [1..(n + 2) -> V] :
         /\ h[n + 1] = <<>> /\ h[n + 2] = <<>>
         /\ \A i \in 1..n : h[i] = G[<<i, h[i + 1], h[i + 2]>>]
  <2>1. PICK m, U, H : m = n /\ U = V /\ H = G
    <3> HIDE DEF n, V, G
    <3> QED OBVIOUS
  <2>2. m \in Nat /\ <<>> \in U /\ H \in [(1..m) \X U \X U -> U]
    <3> HIDE DEF n, V, G
    <3> QED BY <1>1, <1>3, <2>1
  <2>3. \E g : g \in LoopResults(m, U, <<>>, H)
    BY <2>2, LoopResult
  <2> HIDE DEF n, V, G
  <2> QED BY <2>1, <2>3 DEF LoopResults
<1> DEFINE u == [i \in 0..n |-> h[(n + 1) - i]]
<1>5. u \in [0..n -> V]
  <2>1. \A i \in 0..n : (n + 1) - i \in 1..(n + 2)
    BY <1>1
  <2> HIDE DEF V
  <2> QED BY <2>1
<1>6. u[0] = <<>>
  <2>1. (n + 1) - 0 = n + 1 /\ 0 \in 0..n
    BY <1>1
  <2> QED BY <1>4, <2>1
<1>7. ASSUME NEW i \in 0..n, i # 0
      PROVE  u[i] = IF HasPart(l[i].path, f) THEN Append(u[i - 1], l[i]) ELSE u[i - 1]
  <2>1. PICK j : j = (n + 1) - i
    OBVIOUS
  <2>2. j \in 1..n /\ i - 1 \in 0..n /\ (n + 1) - j = i /\ (n + 1) - (i - 1) = j + 1
    BY <1>1, <1>7, <2>1
  <2>3. j + 1 \in 1..(n + 2) /\ j + 2 \in 1..(n + 2)
    BY <1>1, <2>2
  <2>4. u[i] = h[j] /\ u[i - 1] = h[j + 1]
    BY <2>1, <2>2
  <2>5. <<j, h[j + 1], h[j + 2]>> \in (1..n) \X V \X V
    BY <2>2, <2>3
  <2>6. h[j] = G[<<j, h[j + 1], h[j + 2]>>]
    BY <1>4, <2>2
  <2>7. G[<<j, h[j + 1], h[j + 2]>>] =
          IF HasPart(l[i].path, f) THEN Append(h[j + 1], l[i]) ELSE h[j + 1]
    <3> HIDE DEF V
    <3> QED BY <2>2, <2>5
  <2> QED BY <2>4, <2>6, <2>7
<1>8. P(u)
  <2> HIDE DEF V, G
  <2> QED BY <1>5, <1>6, <1>7
<1>9. P(CHOOSE v : P(v))
  <2> HIDE DEF P, u
  <2> QED BY <1>8
<1>10. Matching(l, f) = (CHOOSE v : P(v))[n]
  BY DEF Matching
<1>11. PICK v : v = CHOOSE g : P(g)
  OBVIOUS
<1>12. P(v) /\ Matching(l, f) = v[n]
  <2> HIDE DEF P, n
  <2> QED BY <1>9, <1>10, <1>11
<1>13. \A k \in Nat : k <= n => v[k] \in V
  <2> DEFINE T == {k \in Nat : k <= n => v[k] \in V}
  <2>1. 0 \in T
    <3>1. 0 \in 0..n
      BY <1>1
    <3>2. v[0] = <<>>
      BY <1>12, <3>1
    <3> HIDE DEF V
    <3> QED BY <1>1, <3>2
  <2>2. ASSUME NEW k \in Nat, k \in T PROVE k + 1 \in T
    <3> SUFFICES ASSUME k + 1 <= n PROVE v[k + 1] \in V
      OBVIOUS
    <3>1. k <= n /\ k + 1 \in 0..n /\ k + 1 # 0 /\ (k + 1) - 1 = k
      BY <1>1
    <3>2. v[k] \in V
      BY <2>2, <3>1
    <3>3. v[k + 1] = IF HasPart(l[k + 1].path, f) THEN Append(v[k], l[k + 1]) ELSE v[k]
      BY <1>12, <3>1
    <3>4. l[k + 1] \in S
      <4>1. k + 1 \in 1..n
        BY <1>1
      <4> QED BY <4>1
    <3>5. Append(v[k], l[k + 1]) \in V
      BY <3>2, <3>4
    <3> HIDE DEF V
    <3> QED BY <3>2, <3>3, <3>5
  <2>3. \A k \in Nat : k \in T => k + 1 \in T
    BY <2>2
  <2> HIDE DEF T
  <2>4. \A k \in Nat : k \in T
    BY <2>1, <2>3, CountingUp
  <2> QED BY <2>4 DEF T
<1>14. v[n] \in V
  <2>1. n <= n
    BY <1>1
  <2> HIDE DEF V, n
  <2> QED BY <1>1, <1>13, <2>1
<1> QED BY <1>12, <1>14

(* Directories as the server lists them, and the rows of a table.          *)
Entry == [path : Path, synced : BOOLEAN]
Row == [path : Path, synced : BOOLEAN, scope : Path, handler : Path]

(* Types of the tables, as an inductive invariant.                         *)
ViewTypes == ViewTypeOK /\ \A t \in Table : rows[t] \in Seq(Row)

(* Patching rows gives rows, one for each directory.                       *)
LEMMA PatchedTypes ==
  ASSUME NEW old \in Seq(Row), NEW new \in Seq(Entry)
  PROVE  /\ Patched(old, new) \in Seq(Row)
         /\ (Patched(old, new) = <<>>) <=> (new = <<>>)
<1>1. Len(new) \in Nat /\ DOMAIN new = 1..Len(new) /\ DOMAIN old = 1..Len(old)
  OBVIOUS
<1>2. ASSUME NEW i \in 1..Len(new) PROVE Patched(old, new)[i] \in Row
  <2>1. new[i] \in Entry
    OBVIOUS
  <2>2. i \in DOMAIN old => old[i] \in Row
    OBVIOUS
  <2>3. PICK p, s, h : /\ p = new[i].path /\ s = new[i].synced
                       /\ h = IF /\ i \in DOMAIN old /\ SameElement(old[i], new[i])
                                 /\ old[i].scope = EventScope(new[i].path)
                              THEN old[i].handler ELSE new[i].path
    OBVIOUS
  <2>4. p \in Path /\ s \in BOOLEAN /\ h \in Path
    BY <2>1, <2>2, <2>3 DEF Row, Entry
  <2>5. Patched(old, new)[i] = [path |-> p, synced |-> s, scope |-> p, handler |-> h]
    BY <1>1, <2>3 DEF Patched, EventScope
  <2> QED BY <2>4, <2>5 DEF Row
<1>3. PICK q : q = Patched(old, new)
  OBVIOUS
<1>4. q = [i \in 1..Len(new) |-> q[i]]
  BY <1>1, <1>3 DEF Patched
<1>5. q \in [1..Len(new) -> Row]
  BY <1>2, <1>3, <1>4
<1>6. q \in Seq(Row) /\ Len(q) = Len(new)
  BY <1>1, <1>5
<1>7. (q = <<>>) <=> (new = <<>>)
  BY <1>1, <1>6
<1> QED BY <1>3, <1>6, <1>7

(* Lists are lists of directories, filtered too.                           *)
LEMMA Lists ==
  ASSUME ViewTypes
  PROVE  /\ dirs \in Seq(Entry) /\ syncs \in Seq(Entry)
         /\ filteredDirs \in Seq(Entry) /\ renderDirsTable \in Seq(Entry)
<1>1. dirs \in Seq(Entry) /\ syncs \in Seq(Entry)
  BY ViewAssumption DEF ViewTypes, ViewTypeOK, Entry
<1>2. filteredDirs \in Seq(Entry)
  BY <1>1, MatchingIsList DEF filteredDirs
<1>3. <<>> \in Seq(Entry)
  OBVIOUS
<1> QED BY <1>1, <1>2, <1>3 DEF renderDirsTable

(* The page says something instead of rows exactly if it has none.         *)
LEMMA MessageOrRows == (emptyMessage = "") <=> (renderDirsTable # <<>>)
<1>1. CASE ~dirsLoadComplete
  BY <1>1 DEF emptyMessage, renderDirsTable
<1>2. CASE dirsLoadComplete /\ filteredDirs # <<>>
  BY <1>2 DEF emptyMessage, renderDirsTable
<1>3. CASE dirsLoadComplete /\ filteredDirs = <<>>
  BY <1>3 DEF emptyMessage, renderDirsTable
<1> QED BY <1>1, <1>2, <1>3

(* Nothing is loaded yet.                                                  *)
LEMMA ViewTypesInit == ViewInit => ViewTypes
<1> SUFFICES ASSUME ViewInit PROVE ViewTypes
  OBVIOUS
<1>1. \A t \in Table : rows[t] = <<>>
  BY DEF ViewInit
<1>2. rows["dirs"] = <<>>
  BY <1>1 DEF Table
<1>3. \A t \in Table : rows[t] \in Seq(Row) /\ Len(rows[t]) = 0
  <2>1. <<>> \in Seq(Row) /\ Len(<<>>) = 0
    OBVIOUS
  <2> QED BY <1>1, <2>1
<1>4. message # "" /\ message \in {"", "Loading", "none found", "none match"}
  BY DEF ViewInit
<1>5. dirs \in Listings /\ syncs \in Listings
  BY ViewAssumption DEF ViewInit
<1>6. \A t \in Table : \A i \in 1..Len(rows[t]) :
        rows[t][i].path \in Path /\ rows[t][i].handler \in Path
  BY <1>3
<1> QED BY <1>2, <1>3, <1>4, <1>5, <1>6 DEF ViewInit, ViewTypes, ViewTypeOK

(* Every change, rendering and click keeps the types.                      *)
LEMMA ViewTypesStep == ViewTypes /\ [ViewNext]_viewVars => ViewTypes'
<1> SUFFICES ASSUME ViewTypes, [ViewNext]_viewVars PROVE ViewTypes'
  OBVIOUS
<1>1. ASSUME UNCHANGED <<rows, message, clicked>>,
             dirs' \in Listings, syncs' \in Listings,
             dirsLoadComplete' \in BOOLEAN, dirFilter' \in Filter
      PROVE  ViewTypes'
  BY <1>1 DEF ViewTypes, ViewTypeOK
<1>2. /\ dirs \in Listings /\ syncs \in Listings
      /\ dirsLoadComplete \in BOOLEAN /\ dirFilter \in Filter
  BY DEF ViewTypes, ViewTypeOK
<1>3. ASSUME NEW l \in Listings, ShowDirs(l) \/ ShowSyncs(l) PROVE ViewTypes'
  BY <1>1, <1>2, <1>3 DEF ShowDirs, ShowSyncs
<1>4. ASSUME NEW f \in Filter, OnInput(f) PROVE ViewTypes'
  BY <1>1, <1>2, <1>4 DEF OnInput
<1>5. CASE DirsFail
  BY <1>1, <1>2, <1>5 DEF DirsFail
<1>6. CASE UNCHANGED viewVars
  BY <1>1, <1>2, <1>6 DEF viewVars
<1>7. CASE Render
  <2>1. PICK d, s : /\ d = Patched(rows["dirs"], renderDirsTable)
                    /\ s = Patched(rows["syncs"], renderSyncsTable)
    OBVIOUS
  <2>2. rows["dirs"] \in Seq(Row) /\ rows["syncs"] \in Seq(Row)
    BY DEF ViewTypes, Table
  <2>3. d \in Seq(Row) /\ (d = <<>> <=> renderDirsTable = <<>>)
    BY <2>1, <2>2, Lists, PatchedTypes
  <2>4. s \in Seq(Row)
    BY <2>1, <2>2, Lists, PatchedTypes DEF renderSyncsTable
  <2>5. rows' = [dirs |-> d, syncs |-> s]
    BY <1>7, <2>1 DEF Render
  <2>6. rows'["dirs"] = d /\ rows'["syncs"] = s
    BY <2>5
  <2>7. \A t \in Table : rows'[t] \in Seq(Row)
    BY <2>3, <2>4, <2>6 DEF Table
  <2>8. ASSUME NEW t \in Table, NEW i \in 1..Len(rows'[t])
        PROVE  rows'[t][i].path \in Path /\ rows'[t][i].handler \in Path
    <3>1. PICK r : r = rows'[t]
      OBVIOUS
    <3>2. r \in Seq(Row) /\ i \in 1..Len(r)
      BY <2>7, <3>1
    <3>3. r[i] \in Row
      BY <3>2
    <3>4. r[i].path \in Path /\ r[i].handler \in Path
      BY <3>3 DEF Row
    <3> QED BY <3>1, <3>4
  <2>9. (message' = "") <=> (rows'["dirs"] # <<>>)
    BY <1>7, <2>3, <2>6, MessageOrRows DEF Render
  <2>10. message' \in {"", "Loading", "none found", "none match"}
    BY <1>7 DEF Render, emptyMessage
  <2>11. /\ UNCHANGED <<dirs, syncs, dirsLoadComplete, dirFilter, clicked>>
         /\ (clicked = NoClick \/ clicked.button \in Button)
    BY <1>7 DEF Render, ViewTypes, ViewTypeOK
  <2> QED BY <1>2, <2>7, <2>8, <2>9, <2>10, <2>11 DEF ViewTypes, ViewTypeOK
<1>8. ASSUME NEW t \in Table, NEW b \in Button, NEW i \in DOMAIN rows[t], Click(t, i, b)
      PROVE  ViewTypes'
  <2>1. clicked'.button \in Button
    BY <1>8 DEF Click
  <2>2. UNCHANGED <<dirs, syncs, dirsLoadComplete, dirFilter, rows, message>>
    BY <1>8 DEF Click
  <2> QED BY <2>1, <2>2 DEF ViewTypes, ViewTypeOK
<1> QED BY <1>3, <1>4, <1>5, <1>6, <1>7, <1>8 DEF ViewNext

(* The page has a message exactly if it has no rows, and rows and clicks   *)
(* are of directories, for any lists and filters.                          *)
THEOREM ViewTypeCorrect == ViewSpec => []ViewTypeOK
<1>1. ViewTypes => ViewTypeOK
  BY DEF ViewTypes
<1> QED BY <1>1, ViewTypesInit, ViewTypesStep, PTL DEF ViewSpec

-----------------------------------------------------------------------------
(* The progress writer.                                                    *)

(* What rsync's words are made of.                                         *)
Bytes == UNION {ToSet(w.text) : w \in Words}

(* The writer is at a word or behind the last, and holds all it has read   *)
(* of the word, or nothing once that was too much.                         *)
Place ==
  /\ words \in Seq(Words) /\ word \in Nat /\ word >= 1 /\ word <= Len(words) + 1
  /\ col \in Nat /\ (Printed => col <= Len(Text)) /\ (~Printed => col = 0)

Held ==
  /\ ~discarding => /\ pending \in Seq(Bytes) /\ Len(pending) = col /\ col <= MaxToken
                    /\ \A n \in 1..col : pending[n] = Text[n]
  /\ discarding => pending = <<>> /\ col > MaxToken

(* The inductive invariant of the writer.                                  *)
WriterInv ==
  /\ Place /\ Held /\ FieldsFollowWords
  /\ discarding \in BOOLEAN /\ writing \in BOOLEAN
  /\ DOMAIN sync = DOMAIN NoSync

(* What is assumed of words, one by one.                                   *)
LEMMA WordFacts ==
  ASSUME NEW w \in Words
  PROVE  /\ w.text \in Seq(Bytes) /\ Len(w.text) \in Nat /\ Len(w.text) # 0
         /\ \A n \in 1..Len(w.text) : w.text[n] # Space
         /\ Len(w.text) <= MaxToken => Read(w)
         /\ w.field \in Number => w.value \in 0..MaxUint
<1>1. PICK t : t = w.text
  OBVIOUS
<1>2. t \in Seq(ToSet(t)) /\ t # <<>> /\ Space \notin ToSet(t)
  BY <1>1, WriterAssumption
<1>3. ToSet(t) \subseteq Bytes
  BY <1>1 DEF Bytes
<1>4. t \in Seq(Bytes)
  <2>1. \A R : t \in Seq(R) /\ R \subseteq Bytes => t \in Seq(Bytes)
    OBVIOUS
  <2> QED BY <1>2, <1>3, <2>1
<1>5. Len(t) \in Nat /\ Len(t) # 0 /\ DOMAIN t = 1..Len(t)
  <2>1. t # <<>>
    BY <1>2
  <2> QED BY <1>4, <2>1
<1>6. \A n \in 1..Len(t) : t[n] # Space
  BY <1>2, <1>5 DEF ToSet
<1> QED BY <1>1, <1>4, <1>5, <1>6, WriterAssumption

(* The limits are numbers.                                                 *)
LEMMA WriterLimits == MaxWords \in Nat /\ MaxToken \in Nat /\ MaxUint \in Nat
BY WriterAssumption

(* Nothing is read yet.                                                    *)
LEMMA WriterInvInit == WriterInit => WriterInv
<1> SUFFICES ASSUME WriterInit PROVE WriterInv
  OBVIOUS
<1>1. words \in Seq(Words)
  BY WriterLimits DEF WriterInit, SeqOf
<1>2. Len(words) \in Nat
  BY <1>1
<1>3. Printed => Len(Text) \in Nat
  <2>1. Printed => words[word] \in Words
    BY <1>1, <1>2 DEF WriterInit, Printed
  <2> QED BY <2>1, WordFacts DEF Text
<1>4. Place
  BY <1>1, <1>2, <1>3 DEF WriterInit, Place
<1>5. Held
  BY WriterLimits DEF WriterInit, Held
<1>6. Complete = {}
  BY DEF WriterInit, Complete
<1>7. FieldsFollowWords
  <2>1. sync = NoSync /\ \A f : Said(f) = {}
    BY <1>6 DEF WriterInit, Said
  <2> QED BY <2>1 DEF FieldsFollowWords
<1> QED BY <1>4, <1>5, <1>7 DEF WriterInit, WriterInv

(* The word the writer is at.                                              *)
LEMMA AtWord ==
  ASSUME Place, Printed
  PROVE  /\ word \in 1..Len(words) /\ words[word] \in Words /\ Text = words[word].text
         /\ Text \in Seq(Bytes) /\ Len(Text) \in Nat /\ Len(Text) # 0
         /\ \A n \in 1..Len(Text) : Text[n] # Space
<1>1. word \in 1..Len(words)
  BY DEF Place, Printed
<1>2. words[word] \in Words
  BY <1>1 DEF Place
<1> QED BY <1>1, <1>2, WordFacts DEF Text

(* Between the first byte of a word and the whitespace after it.           *)
InWord == col < Len(Text)

(* A byte of a word is kept, or the word is dropped for good.              *)
LEMMA ByteRead ==
  ASSUME WriterInv, WriteChar, InWord
  PROVE  WriterInv'
<1>1. Place /\ Held /\ FieldsFollowWords /\ Printed
  BY DEF WriterInv, WriteChar
<1>2. PICK t, c : t = Text /\ c = char
  OBVIOUS
<1>3. /\ t \in Seq(Bytes) /\ Len(t) \in Nat
      /\ \A n \in 1..Len(t) : t[n] # Space
  BY <1>1, <1>2, AtWord
<1>4. col \in Nat /\ col < Len(t)
  BY <1>1, <1>2 DEF Place, InWord
<1>5. col + 1 \in 1..Len(t)
  BY <1>3, <1>4
<1>6. c = t[col + 1] /\ c # Space /\ c \in Bytes
  <2>1. c = t[col + 1]
    BY <1>2, <1>4 DEF char, InWord
  <2> QED BY <2>1, <1>3, <1>5
<1>7. col' = col + 1 /\ word' = word /\ words' = words /\ writing' = writing
  BY DEF WriteChar, NextChar, InWord
<1>8. Text' = t /\ Printed'
  BY <1>1, <1>2, <1>7 DEF Text, Printed
<1>9. Place'
  <2>1. col + 1 <= Len(t) /\ col + 1 \in Nat
    BY <1>3, <1>4
  <2> QED BY <1>1, <1>7, <1>8, <2>1 DEF Place
<1>10. sync' = sync
  BY <1>2, <1>6 DEF WriteChar
<1>11. FieldsFollowWords'
  <2>1. \A f : Said(f)' = Said(f)
    BY <1>7 DEF Complete, Said
  <2> QED BY <1>1, <1>7, <1>10, <2>1 DEF FieldsFollowWords
<1>12. Held' /\ discarding' \in BOOLEAN
  <2>1. CASE discarding
    <3>1. pending' = <<>> /\ discarding' = TRUE
      BY <1>1, <1>2, <1>6, <2>1 DEF WriteChar, Held
    <3>2. col > MaxToken
      BY <1>1, <2>1 DEF Held
    <3> QED BY <1>4, <1>7, <3>1, <3>2, WriterLimits DEF Held
  <2>2. CASE ~discarding
    <3>1. PICK p : p = pending
      OBVIOUS
    <3>2. /\ p \in Seq(Bytes) /\ Len(p) = col /\ col <= MaxToken
          /\ \A n \in 1..col : p[n] = t[n]
      BY <1>1, <1>2, <2>2, <3>1 DEF Held
    <3>3. CASE TooLarge
      <4>1. pending' = <<>> /\ discarding' = TRUE
        BY <1>2, <1>6, <2>2, <3>3 DEF WriteChar
      <4>2. col + 1 > MaxToken
        BY <1>4, <3>1, <3>2, <3>3, WriterLimits DEF TooLarge
      <4> QED BY <1>7, <4>1, <4>2 DEF Held
    <3>4. CASE ~TooLarge
      <4>1. pending' = Append(p, c) /\ discarding' = FALSE
        BY <1>2, <1>6, <2>2, <3>1, <3>4 DEF WriteChar
      <4>2. col + 1 <= MaxToken
        BY <1>4, <3>1, <3>2, <3>4, WriterLimits DEF TooLarge
      <4>3. PICK q : q = Append(p, c)
        OBVIOUS
      <4>4. /\ q \in Seq(Bytes) /\ Len(q) = col + 1 /\ q[col + 1] = c
            /\ \A n \in 1..col : q[n] = p[n]
        BY <1>4, <1>6, <3>2, <4>3
      <4>5. \A n \in 1..(col + 1) : n = col + 1 \/ n \in 1..col
        BY <1>4
      <4>6. \A n \in 1..(col + 1) : q[n] = t[n]
        BY <1>6, <3>2, <4>4, <4>5
      <4> QED BY <1>7, <1>8, <4>1, <4>2, <4>3, <4>4, <4>6 DEF Held
    <3> QED BY <3>3, <3>4
  <2> QED BY <2>1, <2>2 DEF WriterInv
<1>13. DOMAIN sync' = DOMAIN NoSync /\ writing' \in BOOLEAN
  BY <1>7, <1>10 DEF WriterInv
<1> QED BY <1>9, <1>11, <1>12, <1>13 DEF WriterInv

(* Sequences of the same length and elements are the same.                 *)
LEMMA SameBytes ==
  ASSUME NEW S, NEW p \in Seq(S), NEW t \in Seq(S), Len(p) = Len(t),
         \A n \in 1..Len(t) : p[n] = t[n]
  PROVE  p = t
OBVIOUS

(* A position that is in a set and not before any of it is the latest.     *)
LEMMA LatestIs ==
  ASSUME NEW S, S \subseteq Nat, NEW m \in S, \A n \in S : n <= m
  PROVE  Latest(S) = m
<1>1. /\ Latest(S) \in S
      /\ \A n \in S : n <= Latest(S)
  BY DEF Latest
<1>2. Latest(S) <= m /\ m <= Latest(S) /\ Latest(S) \in Nat /\ m \in Nat
  BY <1>1
<1> QED BY <1>2

(* At the whitespace after a word its field gets its value, if the word    *)
(* was not too long, and no other field does.                              *)
LEMMA WordRead ==
  ASSUME WriterInv, WriteChar, ~InWord
  PROVE  WriterInv'
<1>1. Place /\ Held /\ FieldsFollowWords /\ Printed
  BY DEF WriterInv, WriteChar
<1>2. PICK w, t : w = words[word] /\ t = Text
  OBVIOUS
<1>3. word \in 1..Len(words) /\ word \in Nat /\ Len(words) \in Nat
  BY <1>1, AtWord DEF Place
<1>4. w \in Words /\ t = w.text
  BY <1>1, <1>2, AtWord
<1>5. t \in Seq(Bytes) /\ Len(t) \in Nat /\ Len(t) # 0
  BY <1>1, <1>2, AtWord
<1>6. col = Len(t)
  <2>1. col \in Nat /\ col <= Len(t) /\ ~(col < Len(t))
    BY <1>1, <1>2 DEF Place, InWord
  <2> QED BY <2>1, <1>5
<1>7. /\ col' = 0 /\ word' = word + 1 /\ words' = words /\ writing' = writing
      /\ pending' = <<>> /\ discarding' = FALSE
      /\ sync' = IF pending = <<>> THEN sync ELSE Store(parseRsyncProgressToken(pending))
  BY DEF WriteChar, NextChar, InWord, char, applyPending
<1>8. Place'
  <2>1. word + 1 \in Nat /\ word + 1 >= 1 /\ word + 1 <= Len(words) + 1 /\ words \in Seq(Words)
    BY <1>1, <1>3 DEF Place
  <2>2. Printed' => Len(Text') \in Nat
    <3>1. Printed' => word + 1 \in 1..Len(words)
      BY <1>3, <1>7, <2>1 DEF Printed
    <3>2. Printed' => words[word + 1] \in Words
      BY <2>1, <3>1
    <3> QED BY <1>7, <3>2, WordFacts DEF Text
  <2> QED BY <1>7, <2>1, <2>2 DEF Place
<1>9. Held'
  BY <1>7, WriterLimits DEF Held
<1>10. Complete' = IF Len(t) <= MaxToken THEN Complete \cup {word} ELSE Complete
  <2>1. Complete' = {i \in 1..word : Len(words[i].text) <= MaxToken}
    BY <1>3, <1>7 DEF Complete
  <2>2. 1..word = (1..(word - 1)) \cup {word}
    BY <1>3
  <2> QED BY <1>2, <1>4, <2>1, <2>2 DEF Complete
<1>11. CASE discarding
  <2>1. sync' = sync
    BY <1>1, <1>7, <1>11 DEF Held
  <2>2. ~(Len(t) <= MaxToken)
    BY <1>1, <1>5, <1>6, <1>11, WriterLimits DEF Held
  <2>3. \A f : Said(f)' = Said(f)
    BY <1>7, <1>10, <2>2 DEF Said
  <2>4. FieldsFollowWords'
    BY <1>1, <1>7, <2>1, <2>3 DEF FieldsFollowWords
  <2> QED BY <1>7, <1>8, <1>9, <2>1, <2>4 DEF WriterInv
<1>12. CASE ~discarding
  <2>1. pending = t /\ Len(t) <= MaxToken
    <3>1. PICK p : p = pending
      OBVIOUS
    <3>2. p \in Seq(Bytes) /\ Len(p) = Len(t) /\ \A n \in 1..Len(t) : p[n] = t[n]
      BY <1>1, <1>2, <1>6, <1>12, <3>1 DEF Held
    <3>3. p = t
      BY <1>5, <3>2, SameBytes
    <3> QED BY <1>1, <1>6, <1>12, <3>1, <3>3 DEF Held
  <2>2. t # <<>>
    BY <1>5
  <2>3. PICK token : token = parseRsyncProgressToken(t)
    OBVIOUS
  <2>4. token.field = w.field /\ (w.field # Ignored => token.value = w.value)
    BY <1>4, <2>1, <2>3, WordFacts DEF Read
  <2>5. sync' = IF w.field = Ignored THEN sync ELSE [sync EXCEPT ![w.field] = w.value]
    BY <1>7, <2>1, <2>2, <2>3, <2>4 DEF Store
  <2>6. DOMAIN sync' = DOMAIN NoSync /\ DOMAIN sync' = DOMAIN sync
    BY <2>5 DEF WriterInv
  <2>7. ASSUME NEW f PROVE Said(f)' = IF w.field = f THEN Said(f) \cup {word} ELSE Said(f)
    BY <1>2, <1>7, <1>10, <2>1 DEF Said
  <2>8. FieldsFollowWords'
    <3> SUFFICES ASSUME NEW f \in DOMAIN sync
                 PROVE  sync'[f] = IF Said(f)' = {} THEN NoSync[f]
                                   ELSE words[Latest(Said(f)')].value
      BY <1>7, <2>6 DEF FieldsFollowWords
    <3>1. f # Ignored
      BY WriterAssumption DEF WriterInv
    <3>2. CASE w.field = f
      <4>1. sync'[f] = w.value
        BY <2>5, <3>1, <3>2
      <4>2. Said(f)' = Said(f) \cup {word}
        BY <2>7, <3>2
      <4>3. \A n \in Said(f) : n \in Nat /\ n <= word
        <5>1. \A n \in 1..(word - 1) : n \in Nat /\ n <= word
          BY <1>3
        <5> QED BY <5>1 DEF Said, Complete
      <4>4. Latest(Said(f)') = word
        <5>1. PICK S : S = Said(f)'
          OBVIOUS
        <5>2. S \subseteq Nat /\ word \in S /\ \A n \in S : n <= word
          BY <1>3, <4>2, <4>3, <5>1
        <5>3. Latest(S) = word
          BY <5>2, LatestIs
        <5> QED BY <5>1, <5>3
      <4> QED BY <1>2, <4>1, <4>2, <4>4
    <3>3. CASE w.field # f
      <4>1. sync'[f] = sync[f]
        BY <2>5, <3>3
      <4>2. Said(f)' = Said(f)
        BY <2>7, <3>3
      <4> QED BY <1>1, <4>1, <4>2 DEF FieldsFollowWords
    <3> QED BY <3>2, <3>3
  <2> QED BY <1>7, <1>8, <1>9, <2>6, <2>8 DEF WriterInv
<1> QED BY <1>11, <1>12 DEF WriterInv

(* Every step of the writer keeps its invariant.                           *)
LEMMA WriterInvStep == WriterInv /\ [WriterNext]_writerVars => WriterInv'
<1> SUFFICES ASSUME WriterInv, [WriterNext]_writerVars PROVE WriterInv'
  OBVIOUS
<1>1. CASE WriteChar
  BY <1>1, ByteRead, WordRead
<1>2. ASSUME UNCHANGED <<words, word, col, pending, discarding, sync>>,
             writing' \in BOOLEAN
      PROVE  WriterInv'
  <2>1. Place' /\ Held'
    BY <1>2 DEF WriterInv, Place, Held, Printed, Text
  <2>2. \A f : Said(f)' = Said(f)
    BY <1>2 DEF Said, Complete
  <2>3. FieldsFollowWords'
    BY <1>2, <2>2 DEF WriterInv, FieldsFollowWords
  <2> QED BY <1>2, <2>1, <2>3 DEF WriterInv
<1>3. CASE Write \/ WriteReturns \/ UNCHANGED writerVars
  BY <1>2, <1>3 DEF Write, WriteReturns, writerVars, WriterInv
<1> QED BY <1>1, <1>3 DEF WriterNext

(* The writer keeps its invariant, for any words and limits.               *)
THEOREM WriterInvariant == WriterSpec => []WriterInv
BY WriterInvInit, WriterInvStep, PTL DEF WriterSpec

(* However rsync's output is cut into Writes, at every moment each field   *)
(* of the sync has the value of the last complete word for it that was not *)
(* longer than maxScannerTokenSize, and none that is part of a word's.     *)
THEOREM FieldsOfWords == WriterSpec => []FieldsFollowWords
<1>1. WriterInv => FieldsFollowWords
  BY DEF WriterInv
<1> QED BY <1>1, WriterInvariant, PTL

(* The buffer never outgrows maxScannerTokenSize, and the numbers stay     *)
(* those of words.                                                         *)
THEOREM WriterTypeCorrect == WriterSpec => []WriterTypeOK
<1>1. WriterInv => WriterTypeOK
  <2> SUFFICES ASSUME WriterInv PROVE WriterTypeOK
    OBVIOUS
  <2>1. word \in 1..(Len(words) + 1) /\ col \in Nat
    <3>1. words \in Seq(Words) /\ word \in Nat /\ word >= 1 /\ word <= Len(words) + 1 /\ col \in Nat
      BY DEF WriterInv, Place
    <3> QED BY <3>1
  <2>2. Len(pending) <= MaxToken
    <3>1. CASE discarding
      <4>1. pending = <<>>
        BY <3>1 DEF WriterInv, Held
      <4> QED BY <4>1, WriterLimits
    <3>2. CASE ~discarding
      BY <3>2 DEF WriterInv, Held
    <3> QED BY <3>1, <3>2
  <2>3. ASSUME NEW f \in Number PROVE sync[f] \in 0..MaxUint
    <3>1. f \in DOMAIN NoSync /\ NoSync[f] = 0 /\ 0 \in 0..MaxUint
      BY WriterLimits DEF Number, NoSync
    <3>2. sync[f] = IF Said(f) = {} THEN NoSync[f] ELSE words[Latest(Said(f))].value
      BY <3>1 DEF WriterInv, FieldsFollowWords
    <3>3. CASE Said(f) = {}
      BY <3>1, <3>2, <3>3
    <3>4. CASE Said(f) # {}
      <4>1. words \in Seq(Words) /\ word \in Nat /\ word <= Len(words) + 1
        BY DEF WriterInv, Place
      <4>2. Said(f) \subseteq 1..Len(words)
        <5>1. 1..(word - 1) \subseteq 1..Len(words)
          BY <4>1
        <5> QED BY <5>1 DEF Said, Complete
      <4>3. \E n \in Said(f) : \A m \in Said(f) : m <= n
        <5>1. Len(words) \in Nat
          BY <4>1
        <5> QED BY <3>4, <4>2, <5>1, LastPosition
      <4>4. Latest(Said(f)) \in Said(f)
        BY <4>3 DEF Latest
      <4>5. PICK w : w = words[Latest(Said(f))]
        OBVIOUS
      <4>6. w \in Words /\ w.field = f
        <5>1. w \in Words
          BY <4>1, <4>2, <4>4, <4>5
        <5> QED BY <4>4, <4>5, <5>1 DEF Said
      <4>7. w.value \in 0..MaxUint
        BY <4>6, WordFacts
      <4> QED BY <3>2, <3>4, <4>5, <4>7
    <3> QED BY <3>3, <3>4
  <2> QED BY <2>1, <2>2, <2>3 DEF WriterInv, WriterTypeOK
<1> QED BY <1>1, WriterInvariant, PTL

-----------------------------------------------------------------------------
(* The parts side by side.                                                 *)

(* A step of one part, or of none, is a step of each part or leaves it     *)
(* alone.                                                                  *)
LEMMA PartsStep ==
  ASSUME [Next]_vars
  PROVE  /\ [WriterNext]_writerVars /\ [LauncherNext]_launcherVars
         /\ [NotifierNext]_notifierVars /\ [MainNext]_mainVars
         /\ [FilesNext]_filesVars /\ [ViewNext]_viewVars
         /\ part' = part
<1>1. CASE Next
  BY <1>1 DEF Next, Idle
<1>2. CASE UNCHANGED vars
  BY <1>2 DEF vars
<1> QED BY <1>1, <1>2

(* What is checked side by side are the parts themselves: the composition  *)
(* implements the specification of every part, so that every theorem about *)
(* a part holds of it.                                                     *)
THEOREM PartsAreThemselves ==
  Spec => /\ WriterSpec /\ LauncherSpec /\ NotifierSpec
          /\ MainSpec /\ FilesSpec /\ ViewSpec
<1>1. Init => /\ WriterInit /\ LauncherInit /\ NotifierInit
              /\ MainInit /\ FilesInit /\ ViewInit
  BY DEF Init
<1>2. [Next]_vars => /\ [WriterNext]_writerVars /\ [LauncherNext]_launcherVars
                     /\ [NotifierNext]_notifierVars /\ [MainNext]_mainVars
                     /\ [FilesNext]_filesVars /\ [ViewNext]_viewVars
  BY PartsStep
<1> QED
  BY <1>1, <1>2, PTL DEF Spec, WriterSpec, LauncherSpec, NotifierSpec, MainSpec, FilesSpec, ViewSpec

(* Every part keeps its state within the types of the program, for all     *)
(* words, command lines, pods, events, settings, builds and lists.         *)
THEOREM PartsTypeCorrect == Spec => []PartsTypeOK
<1>1. Init => part \in Part
  BY DEF Init
<1>2. part \in Part /\ [Next]_vars => (part \in Part)'
  BY PartsStep
<1>3. Spec => [](part \in Part)
  BY <1>1, <1>2, PTL DEF Spec
<1>4. /\ part \in Part /\ WriterTypeOK /\ LauncherTypeOK /\ NotifierTypeOK
      /\ MainTypeOK /\ FilesTypeOK /\ ViewTypeOK
      => PartsTypeOK
  BY DEF PartsTypeOK
<1> QED
  BY <1>3, <1>4, PartsAreThemselves, WriterTypeCorrect, LauncherTypeCorrect,
     NotifierTypeCorrect, MainTypeCorrect, FilesTypeCorrect, ViewTypeCorrect, PTL

(* Each part keeps its promises while they are checked side by side.       *)
THEOREM PartsCorrect ==
  Spec => /\ [](FieldsFollowWords /\ WorkerIsApplication /\ BestEffort)
          /\ []ETagsTellContents
          /\ KeepsPromise /\ ShutdownIsGraceful /\ PageIsTrue
BY PartsAreThemselves, FieldsOfWords, WorkersRunTheApplication, NotificationsBestEffort,
   TagsTellContents, LauncherKeepsPromise, GracefulShutdown, PageTellsTruth, PTL
=============================================================================
