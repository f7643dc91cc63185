----------------------------- MODULE DashboardView -----------------------------
(***************************************************************************)
(* The tables of app.go and their buttons.  go-app renders some time after *)
(* the state has changed and then patches the page: it keeps an element    *)
(* where the new one is of the same kind, and its handler where function   *)
(* and scope are the same.  Rows move when lists change or are filtered,   *)
(* and a user may click on any of them.                                    *)
(***************************************************************************)
EXTENDS Naturals, Sequences

CONSTANTS Path, Filter,
          Blank,            \* filters of spaces only
          HasPart(_, _),   \* HasPart(p, f): in lower case
          Listings,         \* lists of [path, synced] the server may send
          MaxChanges

VARIABLES dirs, dirsLoadComplete, dirFilter, syncs,
          rows,         \* rows[t]: the rows of table t
          message,      \* what the directories' table says instead of rows
          clicked,      \* the last click: what the row said and what was done
          changes

viewVars == <<dirs, dirsLoadComplete, dirFilter, syncs, rows, message, clicked,
          changes>>

ASSUME ViewAssumption ==
  /\ Listings \subseteq Seq([path : Path, synced : BOOLEAN])
  /\ <<>> \in Listings

Table == {"dirs", "syncs"}
Button == {"Sync", "Resync", "Remove", "Cancel"}
NoClick == [button |-> "none"]

ViewTypeOK ==
  /\ dirs \in Listings /\ syncs \in Listings
  /\ dirsLoadComplete \in BOOLEAN /\ dirFilter \in Filter
  /\ message \in {"", "Loading", "none found", "none match"}
  /\ (message = "") <=> (rows["dirs"] # <<>>)
  /\ \A t \in Table : \A i \in 1..Len(rows[t]) :
       rows[t][i].path \in Path /\ rows[t][i].handler \in Path
  /\ clicked = NoClick \/ clicked.button \in Button

ViewInit ==
  /\ dirs = <<>> /\ dirsLoadComplete = FALSE /\ syncs = <<>>
  /\ dirFilter \in Filter
  /\ rows = [t \in Table |-> <<>>]
  /\ message = "Loading" /\ clicked = NoClick /\ changes = 0

-----------------------------------------------------------------------------
Changed == changes < MaxChanges /\ changes' = changes + 1

ShowDirs(l) ==
  /\ Changed
  /\ dirs' = l /\ dirsLoadComplete' = TRUE
  /\ UNCHANGED <<dirFilter, syncs, rows, message, clicked>>

(* A listing that failed counts as loaded too.                             *)
DirsFail ==
  /\ Changed
  /\ dirsLoadComplete' = TRUE
  /\ UNCHANGED <<dirs, dirFilter, syncs, rows, message, clicked>>

(* Rows of syncs are all of one kind, which one flag stands for.           *)
ShowSyncs(l) ==
  /\ Changed /\ \A i \in DOMAIN l : l[i].synced
  /\ syncs' = l
  /\ UNCHANGED <<dirs, dirsLoadComplete, dirFilter, rows, message, clicked>>

OnInput(f) ==
  /\ Changed
  /\ dirFilter' = f
  /\ UNCHANGED <<dirs, dirsLoadComplete, syncs, rows, message, clicked>>

-----------------------------------------------------------------------------
TrimSpace(f) == IF f \in Blank THEN "" ELSE f

(* The directories that have f in their names, in their order.             *)
Matching(l, f) ==
  LET upto[i \in 0..Len(l)] ==
        IF i = 0 THEN <<>>
        ELSE IF HasPart(l[i].path, f) THEN Append(upto[i - 1], l[i])
        ELSE upto[i - 1]
  IN  upto[Len(l)]

(* Mutant: spaces are looked for in the names.                             *)
filteredDirsMutant == IF dirFilter = "" THEN dirs ELSE Matching(dirs, dirFilter)

filteredDirs ==
  IF TrimSpace(dirFilter) = "" THEN dirs ELSE Matching(dirs, dirFilter)

emptyMessage ==
  CASE ~dirsLoadComplete -> "Loading"
    [] dirsLoadComplete /\ filteredDirs # <<>> -> ""
    [] OTHER -> IF TrimSpace(dirFilter) # "" /\ dirs # <<>> THEN "none match"
                ELSE "none found"

renderDirsTable == IF dirsLoadComplete THEN filteredDirs ELSE <<>>

renderSyncsTable == syncs

(* Mutant: handlers without a scope.                                       *)
EventScopeMutant(p) == "none"

EventScope(p) == p

(* The action cells of two rows are of the same kind.                      *)
SameElement(old, new) == old.synced = new.synced

Patched(old, new) ==
  [i \in DOMAIN new |->
     [path |-> new[i].path, synced |-> new[i].synced, scope |-> EventScope(new[i].path),
      handler |-> IF /\ i \in DOMAIN old /\ SameElement(old[i], new[i])
                     /\ old[i].scope = EventScope(new[i].path)
                  THEN old[i].handler ELSE new[i].path]]

Render ==
  /\ rows' = [dirs |-> Patched(rows["dirs"], renderDirsTable),
              syncs |-> Patched(rows["syncs"], renderSyncsTable)]
  /\ message' = emptyMessage
  /\ UNCHANGED <<dirs, dirsLoadComplete, dirFilter, syncs, clicked, changes>>

(* The buttons of a row: renderDirActions and the syncs' Cancel.           *)
Buttons(t, row) ==
  CASE t = "syncs" -> {"Cancel"}
    [] t = "dirs" /\ row.synced -> {"Resync", "Remove"}
    [] t = "dirs" /\ ~row.synced -> {"Sync"}

Click(t, i, b) ==
  /\ b \in Buttons(t, rows[t][i])
  /\ clicked' = [button |-> b, path |-> rows[t][i].path, acted |-> rows[t][i].handler]
  /\ UNCHANGED <<dirs, dirsLoadComplete, dirFilter, syncs, rows, message, changes>>

ViewNext ==
  \/ \E l \in Listings : ShowDirs(l) \/ ShowSyncs(l)
  \/ \E f \in Filter : OnInput(f)
  \/ DirsFail \/ Render
  \/ \E t \in Table, b \in Button : \E i \in DOMAIN rows[t] : Click(t, i, b)

ViewSpec == ViewInit /\ [][ViewNext]_viewVars

-----------------------------------------------------------------------------
(* A click syncs, removes or cancels the directory its row names, however  *)
(* rows moved under the pointer and whatever the state has become since.   *)
ClickHitsRow == clicked # NoClick => clicked.acted = clicked.path

(* No table says that there are no remote directories when the dashboard   *)
(* has some, whatever is in the filter box.                                *)
NeverFalselyEmpty ==
  message' = "none found" /\ message # "none found" => dirs = <<>>

(* What a user reads and clicks is what the dashboard means.               *)
PageIsTrue == [][ClickHitsRow' /\ NeverFalselyEmpty]_viewVars
=============================================================================
