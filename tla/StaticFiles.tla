------------------------------ MODULE StaticFiles ------------------------------
(***************************************************************************)
(* frontend_fs.go and the two middlewares for files: replicas that run     *)
(* different builds, one after the other or at once, and the HTTP cache of *)
(* a browser that keeps what it was sent.  Names do not change with their  *)
(* content, so only the ETags tell builds apart.  Every file has one, and  *)
(* so the times of builds never decide an answer.                          *)
(* What fetches is a page, or the service worker that go-app puts into the *)
(* site (generate.go): that one answers pages from a store of its own and  *)
(* fetches to fill it, so a page under it may still show the build of the  *)
(* last fill.  The store is not modelled: all here is about fetches.       *)
(***************************************************************************)
EXTENDS Naturals, FiniteSets

CONSTANTS Replica, Build,
          URL,          \* what a browser asks for
          IndexOf,      \* IndexOf[p]: the index.html below p
          Files,        \* Files[b]: a function from the names in build b to contents
          NoContent,
          MaxRollouts, MaxFetches

VARIABLES build,        \* build[r]
          rollouts, fetches,
          cache,        \* cache[p]: what the HTTP cache keeps
          wire,         \* requests and answers on their way
          fetched       \* the last fetch that ended

filesVars == <<build, rollouts, fetches, cache, wire, fetched>>

Content == UNION {{Files[b][f] : f \in DOMAIN Files[b]} : b \in Build}

ASSUME FilesAssumption ==
  {MaxRollouts, MaxFetches} \subseteq Nat /\ NoContent \notin Content

NoTag == {}
Nothing == [data |-> NoContent, etag |-> NoTag]
NoFetch == [path |-> NoContent, data |-> NoContent, ran |-> {}]

FilesTypeOK ==
  /\ build \in [Replica -> Build]
  /\ rollouts \in 0..MaxRollouts /\ fetches \in 0..MaxFetches
  /\ \A p \in URL : /\ cache[p].data \in Content \cup {NoContent}
                     /\ (cache[p].data = NoContent) <=> (cache[p].etag = NoTag)
  /\ fetched.data \in Content \cup {NoContent}

FilesInit ==
  /\ build \in [Replica -> Build]
  /\ rollouts = 0 /\ fetches = 0
  /\ cache = [p \in URL |-> Nothing]
  /\ wire = {} /\ fetched = NoFetch

-----------------------------------------------------------------------------
(* newFrontendFS: a hash of the content, which no other content has.       *)
makeETag(data) == {data}

(* What echo serves: a file, or the index of a directory.                  *)
Served(b, p) ==
  IF p \in DOMAIN Files[b] THEN Files[b][p]
  ELSE IF IndexOf[p] \in DOMAIN Files[b] THEN Files[b][IndexOf[p]] ELSE NoContent

(* Mutant: only the names of files are looked up.                          *)
ETagMutant(b, p) == IF p \in DOMAIN Files[b] THEN makeETag(Files[b][p]) ELSE NoTag

ETag(b, p) ==
  CASE p \in DOMAIN Files[b] -> makeETag(Files[b][p])
    [] p \notin DOMAIN Files[b] /\ IndexOf[p] \in DOMAIN Files[b] ->
         makeETag(Files[b][IndexOf[p]])
    [] OTHER -> NoTag

RunningBuilds == {build[r] : r \in Replica}

(* A replica is replaced by one with another build, older ones too.        *)
Rollout(r, b) ==
  /\ rollouts < MaxRollouts /\ build[r] # b
  /\ build' = [build EXCEPT ![r] = b]
  /\ rollouts' = rollouts + 1
  /\ wire' = {[m EXCEPT !.ran = @ \cup {b}] : m \in wire}
  /\ UNCHANGED <<fetches, cache, fetched>>

-----------------------------------------------------------------------------
Get(p) ==
  [type |-> "get", path |-> p, has |-> cache[p], id |-> fetches, ran |-> RunningBuilds,
   data |-> NoContent, etag |-> NoTag]

(* Mutant: without "no-cache" the HTTP cache answers with what it has.     *)
FetchMutant(p) ==
  /\ fetches < MaxFetches /\ fetches' = fetches + 1
  /\ IF cache[p] = Nothing THEN wire' = wire \cup {Get(p)} /\ UNCHANGED fetched
     ELSE /\ fetched' = [path |-> p, data |-> cache[p].data, ran |-> RunningBuilds]
          /\ UNCHANGED wire
  /\ UNCHANGED <<build, rollouts, cache>>

(* staticCacheControlMiddleware says "no-cache": the HTTP cache has every  *)
(* fetch asked of a server, naming what it holds.                          *)
Fetch(p) ==
  /\ fetches < MaxFetches /\ fetches' = fetches + 1
  /\ wire' = wire \cup {Get(p)}
  /\ UNCHANGED <<build, rollouts, cache, fetched>>

(* frontendETagMiddleware sets the tag, http.ServeContent compares it.     *)
ServeFile(r, m) ==
  LET b == build[r]
      tag == ETag(b, m.path)
  IN  /\ m.type = "get"
      /\ wire' = (wire \ {m}) \cup
           {IF tag # NoTag /\ m.has.etag = tag THEN [m EXCEPT !.type = "304"]
            ELSE IF Served(b, m.path) = NoContent THEN [m EXCEPT !.type = "404"]
            ELSE [m EXCEPT !.type = "200", !.data = Served(b, m.path), !.etag = tag]}
      /\ UNCHANGED <<build, rollouts, fetches, cache, fetched>>

(* The answer arrives, perhaps after that of a later fetch.                *)
FileArrives(m) ==
  /\ m.type # "get" /\ wire' = wire \ {m}
  /\ cache' = IF m.type = "200"
              THEN [cache EXCEPT ![m.path] = [data |-> m.data, etag |-> m.etag]]
              ELSE cache
  /\ fetched' = [path |-> m.path, ran |-> m.ran,
               data |-> IF m.type = "304" THEN m.has.data ELSE m.data]
  /\ UNCHANGED <<build, rollouts, fetches>>

FilesNext ==
  \/ \E r \in Replica, b \in Build : Rollout(r, b)
  \/ \E p \in URL : Fetch(p)
  \/ \E m \in wire : FileArrives(m) \/ \E r \in Replica : ServeFile(r, m)

FilesSpec == FilesInit /\ [][FilesNext]_filesVars

-----------------------------------------------------------------------------
(* "ensures new builds are picked up" (main.go): what a fetch yields is in *)
(* a build some replica ran while it was under way, never left over from   *)
(* one that was replaced before, whichever replicas answered and in        *)
(* whatever order.                                                         *)
NewBuildsPickedUp ==
  fetched # NoFetch => \E b \in fetched.ran : fetched.data = Served(b, fetched.path)

(* "lets the ETag middleware drive 304 responses": a file the HTTP cache   *)
(* still has is not sent again, also by a build that only changed others.  *)
UnchangedNotResent ==
  \A m \in wire : m.type = "200" => m.data # m.has.data

(* For every fetch the tags tell contents apart, and nothing but contents. *)
ETagsTellContents == NewBuildsPickedUp /\ UnchangedNotResent
=============================================================================
