------------------------------ MODULE RemoteTree ------------------------------
(***************************************************************************)
(* ListDirs of main.go: buildLocalTree walks the data directory while syncs *)
(* and removals change it; buildRemoteTree reads a listing from ssh through *)
(* a pipe and marks what is not there locally.  A path is the sequence of   *)
(* its names; << >> is "/".  What ssh prints is parent first and without    *)
(* gaps (assumed of the remote command, which the repository leaves out).   *)
(***************************************************************************)
EXTENDS Naturals, SequencesExt

CONSTANTS Path,         \* directories that may exist locally
          Listings,     \* sequences of lines the remote side may print
          TooLong,      \* a line longer than maxScannerTokenSize
          PipeSize,     \* lines that fit into the pipe
          MaxChanges    \* bound on changes of the disk during the walk

(* filepath.Dir.                                                           *)
Dir(p) == IF p = <<>> THEN p ELSE Front(p)

Below(p) == {q \in Path : IsPrefix(p, q)}

Lines(listing) == {listing[i] : i \in DOMAIN listing}

Name == UNION {Lines(p) : p \in Path}

ASSUME TreeAssumption ==
  /\ Path \subseteq Seq(Name)
  /\ <<>> \in Path /\ \A p \in Path : Dir(p) \in Path
  /\ Listings \subseteq Seq(Path \cup {TooLong})
  /\ PipeSize \in Nat \ {0} /\ MaxChanges \in Nat
  /\ \A l \in Listings :
       /\ \A i, j \in DOMAIN l : l[i] # TooLong /\ l[j] # TooLong /\ i # j =>
            l[i] # l[j] /\ (l[i] = Dir(l[j]) => i < j)
       /\ \A p, r \in Path \cap Lines(l), q \in Path :
            IsPrefix(p, q) /\ IsPrefix(q, r) => q \in Lines(l)

VARIABLES
  disk,         \* the directories under DataPath
  changes,
  ever, always, \* those there at some time, and all the time, of the walk
  ctxDone,      \* timeout, client gone or shutdown
  phase,        \* where the handler is
  todo,         \* directory entries read and not visited
  localPathMap,
  child,        \* the ssh process
  unwritten,    \* what it has still to print
  pipe,
  listing,      \* what it prints in all
  scanErr,
  pathMap,      \* the lines scanned
  linked,       \* those whose parent was found
  unmarked,     \* what the last loop has not come to
  notSynced     \* items whose Synced is false

vars == <<disk, changes, ever, always, ctxDone, phase, todo, localPathMap, child,
          unwritten, pipe, listing, scanErr, pathMap, linked, unmarked, notSynced>>

diskVars == <<disk, changes, ever, always>>
sshVars == <<child, unwritten, pipe, listing>>
treeVars == <<scanErr, pathMap, linked, unmarked, notSynced>>

TreeTypeOK ==
  /\ disk \in SUBSET Path /\ ever \in SUBSET Path /\ always \subseteq ever
  /\ changes \in 0..MaxChanges
  /\ ctxDone \in BOOLEAN /\ scanErr \in BOOLEAN
  /\ phase \in {"walk", "start", "scan", "drain", "stderr", "wait", "mark",
                "listed", "failed"}
  /\ todo \subseteq Path /\ localPathMap \subseteq Path
  /\ child \in {"none", "running", "ok", "fail"}
  /\ Lines(pipe) \cup Lines(unwritten) \subseteq Lines(listing)
  /\ Len(pipe) <= PipeSize
  /\ pathMap \subseteq Path
  /\ linked \subseteq pathMap /\ unmarked \subseteq pathMap
  /\ notSynced \subseteq pathMap

Init ==
  /\ disk \in {d \in SUBSET Path : <<>> \in d /\ \A p \in d : Dir(p) \in d}
  /\ changes = 0
  /\ ever = disk /\ always = disk
  /\ ctxDone = FALSE
  /\ phase = "walk"
  /\ todo = {<<>>}
  /\ localPathMap = {}
  /\ child = "none"
  /\ listing \in Listings
  /\ unwritten = listing
  /\ pipe = <<>>
  /\ scanErr = FALSE
  /\ pathMap = {} /\ linked = {} /\ unmarked = {} /\ notSynced = {}

-----------------------------------------------------------------------------
(* Syncs create directories, removals delete them; nothing reads the disk  *)
(* after the walk.                                                         *)
DiskChanges(d) ==
  /\ phase = "walk"
  /\ changes < MaxChanges
  /\ changes' = changes + 1
  /\ disk' = d
  /\ ever' = ever \cup d
  /\ always' = always \cap d
  /\ UNCHANGED <<ctxDone, phase, todo, localPathMap, sshVars, treeVars>>

Appears(p) == p \notin disk /\ Dir(p) \in disk /\ DiskChanges(disk \cup {p})

Disappears(p) == p \in disk \ {<<>>} /\ DiskChanges(disk \ Below(p))

(* remoteRequestContext: 45 s are over, the client or the server leaves.   *)
ContextEnds ==
  /\ ~ctxDone
  /\ ctxDone' = TRUE
  /\ UNCHANGED <<diskVars, phase, todo, localPathMap, sshVars, treeVars>>

-----------------------------------------------------------------------------
(* buildLocalTree.  The callback sees a directory that has just been       *)
(* deleted, as its entry was read before, and then the error of reading it.*)

(* Mutant: the data directory itself is entered as "" instead of "/".      *)
VisitedMutant(p) == {p} \ {<<>>}

(* The path below DataPath, with the leading "/" put back.                 *)
Visited(p) == {p}

WalkVisit(p) ==
  /\ phase = "walk" /\ ~ctxDone
  /\ p \in todo
  /\ localPathMap' = localPathMap \cup Visited(p)
  /\ IF p \in disk
     THEN /\ todo' = (todo \ {p}) \cup {q \in disk : Dir(q) = p /\ q # p}
          /\ phase' = IF todo' = {} THEN "start" ELSE "walk"
     ELSE /\ phase' = "failed"
          /\ UNCHANGED todo
  /\ UNCHANGED <<diskVars, ctxDone, sshVars, treeVars>>

WalkFails ==
  /\ phase = "walk" /\ ctxDone
  /\ phase' = "failed"
  /\ UNCHANGED <<diskVars, ctxDone, todo, localPathMap, sshVars, treeVars>>

-----------------------------------------------------------------------------
(* buildRemoteTree: the ssh process.  The read end of its pipe sees the    *)
(* end of file when it has ended.                                          *)

StartSSH ==
  /\ phase = "start"
  /\ \/ ~ctxDone /\ phase' = "scan" /\ child' = "running"
     \/ phase' = "failed" /\ UNCHANGED child
  /\ UNCHANGED <<diskVars, ctxDone, todo, localPathMap, unwritten, pipe, listing,
                 treeVars>>

ChildWrites ==
  /\ child = "running"
  /\ unwritten # <<>> /\ Len(pipe) < PipeSize
  /\ pipe' = Append(pipe, Head(unwritten))
  /\ unwritten' = Tail(unwritten)
  /\ UNCHANGED <<diskVars, ctxDone, phase, todo, localPathMap, child, listing,
                 treeVars>>

ChildExits(status) ==
  /\ child = "running"
  /\ status = "ok" => unwritten = <<>>
  /\ child' = status
  /\ UNCHANGED <<diskVars, ctxDone, phase, todo, localPathMap, unwritten, pipe,
                 listing, treeVars>>

(* Mutant: exec.Command, which knows no context.                           *)
CancelsMutant == FALSE

Cancels == ctxDone

(* cmd.Cancel kills the process group as soon as the context is done.      *)
ChildKilled == Cancels /\ ChildExits("fail")

-----------------------------------------------------------------------------
(* buildRemoteTree: the reader.                                            *)

EOF == pipe = <<>> /\ child # "running"

(* Mutant: nobody reads on after a line that is too long.                  *)
AfterScanErrorMutant == "stderr"

AfterScanError == "drain"

ScanLine ==
  /\ phase = "scan" /\ pipe # <<>>
  /\ LET line == Head(pipe)
     IN  \/ /\ line # TooLong
            /\ pathMap' = pathMap \cup {line}
            /\ linked' = IF Dir(line) \in pathMap THEN linked \cup {line} ELSE linked
            /\ UNCHANGED <<phase, scanErr>>
         \/ /\ line = TooLong
            /\ scanErr' = TRUE
            /\ phase' = AfterScanError
            /\ UNCHANGED <<pathMap, linked>>
  /\ pipe' = Tail(pipe)
  /\ UNCHANGED <<diskVars, ctxDone, todo, localPathMap, child, unwritten, listing,
                 unmarked, notSynced>>

Drain ==
  /\ phase = "drain" /\ pipe # <<>>
  /\ pipe' = Tail(pipe)
  /\ UNCHANGED <<diskVars, ctxDone, phase, todo, localPathMap, child, unwritten,
                 listing, treeVars>>

ReadEnds ==
  /\ phase \in {"scan", "drain"} /\ EOF
  /\ phase' = "stderr"
  /\ UNCHANGED <<diskVars, ctxDone, todo, localPathMap, sshVars, treeVars>>

(* The goroutine that logs stderr ends with the process.                   *)
StderrDone ==
  /\ phase = "stderr" /\ child # "running"
  /\ phase' = "wait"
  /\ UNCHANGED <<diskVars, ctxDone, todo, localPathMap, sshVars, treeVars>>

(* Mutant: the status of ssh is not looked at.                             *)
UsableMutant == ~scanErr

Usable == child = "ok" /\ ~scanErr

WaitReturns ==
  /\ phase = "wait"
  /\ phase' = IF Usable THEN "mark" ELSE "failed"
  /\ unmarked' = IF Usable THEN pathMap ELSE {}
  /\ UNCHANGED <<diskVars, ctxDone, todo, localPathMap, sshVars, scanErr, pathMap,
                 linked, notSynced>>

-----------------------------------------------------------------------------
(* The last loop, which goes through the map in any order.                 *)

(* Mutant: only the direct parent is told.                                 *)
setNotSyncedMutant(p) == {p, Dir(p)} \cap pathMap

(* Mutant: a parent that was not listed is followed.                       *)
setNotSyncedNilMutant(p) == {q \in Path : IsPrefix(q, p)}

(* setNotSynced follows the Parent pointers.                               *)
setNotSynced(p) ==
  {q \in pathMap : /\ IsPrefix(q, p)
                   /\ \A r \in Below(q) \ {q} : IsPrefix(r, p) => r \in linked}

Mark(p) ==
  /\ phase = "mark"
  /\ p \in unmarked
  /\ unmarked' = unmarked \ {p}
  /\ notSynced' = IF p \in localPathMap THEN notSynced
                ELSE notSynced \cup setNotSynced(p)
  /\ UNCHANGED <<diskVars, ctxDone, phase, todo, localPathMap, sshVars, scanErr,
                 pathMap, linked>>

(* The result is every item of pathMap with its flag.                      *)
ListDirs ==
  /\ phase = "mark" /\ unmarked = {}
  /\ phase' = "listed"
  /\ UNCHANGED <<diskVars, ctxDone, todo, localPathMap, sshVars, treeVars>>

-----------------------------------------------------------------------------
Handler ==
  \/ \E p \in Path : WalkVisit(p) \/ Mark(p)
  \/ WalkFails \/ StartSSH \/ ScanLine \/ Drain \/ ReadEnds \/ StderrDone
  \/ WaitReturns \/ ListDirs

Next ==
  \/ Handler
  \/ \E p \in Path : Appears(p) \/ Disappears(p)
  \/ ContextEnds \/ ChildWrites \/ ChildKilled
  \/ \E status \in {"ok", "fail"} : ChildExits(status)

Spec == Init /\ [][Next]_vars

(* The handler runs, and os/exec kills the process when the context is     *)
(* done.  The remote side may hang.                                        *)
FairSpec == Spec /\ WF_vars(Handler) /\ WF_vars(ChildKilled)

-----------------------------------------------------------------------------
(* A directory is shown as synced only if it and every listed directory    *)
(* below it was there, however syncs and removals interfere and in         *)
(* whatever order the map is gone through.                                 *)
SyncedWasLocal ==
  phase = "listed" =>
    \A p \in pathMap \ notSynced : Below(p) \cap pathMap \subseteq ever

(* A directory is shown as not synced only if it or a listed directory     *)
(* below it was missing at some time.                                      *)
NotSyncedWasMissing ==
  \A p \in notSynced : ~(Below(p) \cap pathMap \subseteq always)

(* The synced flags of a listing are true, one way and the other.          *)
SyncedIsTrue == SyncedWasLocal /\ NotSyncedWasMissing

(* No part of a listing is taken for the whole.                            *)
OnlyComplete == phase = "listed" => pathMap = Lines(listing)

(* As long as ssh runs, somebody reads what it prints: the two never wait  *)
(* for each other.                                                         *)
PipeIsRead == child = "running" => phase \in {"scan", "drain"}

(* A request whose context is done is answered, even if ssh hangs.         *)
CancelAnswers == ctxDone ~> phase \in {"listed", "failed"}
=============================================================================
