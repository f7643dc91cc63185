-------------------------------- MODULE Parts --------------------------------
(***************************************************************************)
(* The parts that share no state with the reservations or with each other, *)
(* checked side by side: in a behaviour one of them is at work and the     *)
(* others stay where they began.  No step of one is visible to another, so *)
(* their interleavings would show nothing more.                            *)
(***************************************************************************)
EXTENDS ProgressWriter, Launcher, Notifier, ServerMain, StaticFiles,
        DashboardView

VARIABLE part

Part == {"writer", "launcher", "notifier", "main", "files", "view"}

(* Where there is a choice, a part that is not at work begins anywhere.    *)
Start(p, S) == IF part = p THEN S ELSE {CHOOSE x \in S : TRUE}

Init ==
  /\ part \in Part
  /\ words \in Start("writer", SeqOf(Words, MaxWords)) /\ WriterInit
  /\ args \in Start("launcher", ServerArgs) /\ pod \in Start("launcher", Pods)
  /\ container \in Start("launcher", ContainerName)
  /\ host \in Start("launcher", {"unset", "empty", "set"}) /\ LauncherInit
  /\ NotifierInit
  /\ settings \in Start("main", [Key -> {"", "blank", "set"}])
  /\ kind \in Start("main", [Request -> {"list", "work"}]) /\ MainInit
  /\ build \in Start("files", [Replica -> Build]) /\ FilesInit
  /\ dirFilter \in Start("view", Filter) /\ ViewInit

Idle(p, v) == part # p => UNCHANGED v

Next ==
  /\ UNCHANGED part
  /\ \/ part = "writer" /\ WriterNext
     \/ part = "launcher" /\ LauncherNext
     \/ part = "notifier" /\ NotifierNext
     \/ part = "main" /\ MainNext
     \/ part = "files" /\ FilesNext
     \/ part = "view" /\ ViewNext
  /\ Idle("writer", writerVars) /\ Idle("launcher", launcherVars)
  /\ Idle("notifier", notifierVars) /\ Idle("main", mainVars)
  /\ Idle("files", filesVars) /\ Idle("view", viewVars)

vars == <<part, writerVars, launcherVars, notifierVars, mainVars, filesVars,
          viewVars>>

Spec == Init /\ [][Next]_vars

(* Every part keeps its state within the types of the program.             *)
PartsTypeOK ==
  /\ part \in Part
  /\ part = "writer" => WriterTypeOK
  /\ part = "launcher" => LauncherTypeOK
  /\ part = "notifier" => NotifierTypeOK
  /\ part = "main" => MainTypeOK
  /\ part = "files" => FilesTypeOK
  /\ part = "view" => ViewTypeOK
=============================================================================
