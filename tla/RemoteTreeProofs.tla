--------------------------- MODULE RemoteTreeProofs ---------------------------
(***************************************************************************)
(* Listings of RemoteTree are true and whole, for any directories, output  *)
(* of ssh, size of the pipe and number of changes on the disk.  Beside the *)
(* phases of the handler the invariant says how far the walk has come, and *)
(* what has become of the lines of ssh.                                    *)
(***************************************************************************)
EXTENDS RemoteTree, WellFoundedInduction, TLAPS

(* A line of ssh: a path, or one too long for the scanner.                 *)
Line == Path \cup {TooLong}

(* Where the handler is, ssh is too.                                       *)
Phases ==
  /\ phase \in {"walk", "start"} => child = "none"
  /\ child = "running" => phase \in {"scan", "drain"}
  /\ child = "ok" => unwritten = <<>>
  /\ phase \in {"walk", "start", "scan"} => ~scanErr
  /\ phase = "drain" => scanErr
  /\ phase \in {"stderr", "wait", "mark", "listed"} => pipe = <<>>
  /\ phase \in {"mark", "listed"} => child = "ok" /\ ~scanErr
  /\ phase # "mark" => unmarked = {}
  /\ phase \notin {"mark", "listed"} => notSynced = {}

(* The walk has seen, or is still to see, what was there all the time.     *)
Walked ==
  /\ always \subseteq disk /\ disk \subseteq ever
  /\ todo \subseteq ever /\ localPathMap \subseteq ever
  /\ <<>> \in always /\ \A q \in always : Dir(q) \in always
  /\ phase # "failed" =>
       /\ <<>> \in localPathMap \cup todo
       /\ \A q \in always \ {<<>>} : Dir(q) \in localPathMap => q \in localPathMap \cup todo
  /\ phase \notin {"walk", "failed"} => todo = {}

(* Lines taken out of the pipe.                                            *)
Taken == Len(listing) - Len(pipe) - Len(unwritten)

(* The pipe and what is to be written follow the lines that were taken.    *)
InOrder ==
  /\ Taken \in Nat
  /\ \A i \in 1..Len(pipe) : pipe[i] = listing[Taken + i]
  /\ \A i \in 1..Len(unwritten) : unwritten[i] = listing[Taken + Len(pipe) + i]

(* Without an error those are the items, tied to parents that came before. *)
Scanned ==
  ~scanErr =>
    /\ pathMap = {listing[i] : i \in 1..Taken}
    /\ \A i \in 1..Taken : listing[i] # TooLong
    /\ \A i, j \in 1..Taken : i < j /\ listing[i] = Dir(listing[j]) => listing[j] \in linked

(* What the last loop has come to is marked, for a reason.                 *)
Marked ==
  /\ phase \in {"mark", "listed"} =>
       \A q \in pathMap \ (unmarked \cup localPathMap) : setNotSynced(q) \subseteq notSynced
  /\ \A p \in notSynced : \E q \in Below(p) \cap pathMap : q \notin localPathMap

(* The inductive invariant.                                                *)
TreeInv ==
  /\ TreeTypeOK
  /\ listing \in Listings /\ listing \in Seq(Line)
  /\ pipe \in Seq(Line) /\ unwritten \in Seq(Line)
  /\ Phases /\ Walked /\ InOrder /\ Scanned /\ Marked
-----------------------------------------------------------------------------
(* Paths and lines, name by name and line by line.                         *)
LEMMA PathIsSeq ==
  ASSUME NEW p \in Path
  PROVE  p \in Seq(Name) /\ Len(p) \in Nat /\ Dir(p) \in Path
BY TreeAssumption

(* See PathIsSeq.                                                          *)
LEMMA PrefixPointwise ==
  ASSUME NEW s \in Path, NEW t \in Path
  PROVE  IsPrefix(s, t) <=> Len(s) <= Len(t) /\ \A i \in 1..Len(s) : s[i] = t[i]
<1>1. s \in Seq(Name) /\ t \in Seq(Name)
  BY PathIsSeq
<1> QED BY <1>1 DEF IsPrefix

(* See PathIsSeq.                                                          *)
LEMMA SamePath ==
  ASSUME NEW s \in Path, NEW t \in Path, Len(s) = Len(t), \A i \in 1..Len(s) : s[i] = t[i]
  PROVE  s = t
<1>1. s \in Seq(Name) /\ t \in Seq(Name)
  BY PathIsSeq
<1> QED BY <1>1

(* path.Dir drops the last name.                                           *)
LEMMA DirPointwise ==
  ASSUME NEW p \in Path, p # <<>>
  PROVE  /\ Len(Dir(p)) = Len(p) - 1 /\ Len(p) > 0
         /\ \A i \in 1..(Len(p) - 1) : Dir(p)[i] = p[i]
<1>1. p \in Seq(Name) /\ Len(p) \in Nat
  BY PathIsSeq
<1>2. Len(p) # 0
  BY <1>1
<1>3. Dir(p) = SubSeq(p, 1, Len(p) - 1)
  BY DEF Dir, Front
<1>4. PICK n \in Nat : n + 1 = Len(p)
  BY <1>1, <1>2
<1>5. Len(p) - 1 = n
  BY <1>4
<1>6. Len(SubSeq(p, 1, n)) = n
  BY <1>1, <1>4
<1>7. ASSUME NEW i \in 1..n PROVE SubSeq(p, 1, n)[i] = p[i]
  BY <1>1, <1>4
<1> QED BY <1>3, <1>4, <1>5, <1>6, <1>7

(* It is shorter, which the induction over the depth of paths needs.       *)
LEMMA DirIsOther ==
  ASSUME NEW p \in Path, p # <<>>
  PROVE  Dir(p) # p /\ Len(Dir(p)) < Len(p)
BY DirPointwise, PathIsSeq

(* What is above a path and not that path is above its directory.          *)
LEMMA PrefixOfDir ==
  ASSUME NEW p \in Path, NEW q \in Path, IsPrefix(p, q), p # q
  PROVE  q # <<>> /\ IsPrefix(p, Dir(q))
<1>1. Len(p) <= Len(q) /\ \A i \in 1..Len(p) : p[i] = q[i]
  BY PrefixPointwise
<1>2. Len(p) \in Nat /\ Len(q) \in Nat /\ Dir(q) \in Path
  BY PathIsSeq
<1>3. Len(p) # Len(q)
  BY <1>1, SamePath
<1>4. q # <<>>
  BY <1>1, <1>2, <1>3
<1> QED BY <1>1, <1>2, <1>3, <1>4, DirPointwise, PrefixPointwise

(* The converse.                                                           *)
LEMMA PrefixFromDir ==
  ASSUME NEW p \in Path, NEW q \in Path, IsPrefix(p, Dir(q))
  PROVE  IsPrefix(p, q)
<1>1. CASE q = <<>>
  BY <1>1 DEF Dir
<1>2. CASE q # <<>>
  <2>1. Len(p) <= Len(Dir(q)) /\ \A i \in 1..Len(p) : p[i] = Dir(q)[i]
    BY PrefixPointwise, PathIsSeq
  <2>2. Len(p) \in Nat /\ Len(q) \in Nat
    BY PathIsSeq
  <2> QED BY <1>2, <2>1, <2>2, DirPointwise, PrefixPointwise
<1> QED BY <1>1, <1>2

(* The directory of what is above a path is above it too.                  *)
LEMMA DirPrefix ==
  ASSUME NEW p \in Path, NEW q \in Path, IsPrefix(p, q)
  PROVE  IsPrefix(Dir(p), q)
<1>1. CASE p = <<>>
  BY <1>1 DEF Dir
<1>2. CASE p # <<>>
  <2>1. Len(p) <= Len(q) /\ \A i \in 1..Len(p) : p[i] = q[i]
    BY PrefixPointwise
  <2>2. Len(p) \in Nat /\ Len(q) \in Nat /\ Dir(p) \in Path
    BY PathIsSeq
  <2> QED BY <1>2, <2>1, <2>2, DirPointwise, PrefixPointwise
<1> QED BY <1>1, <1>2

(* A line is taken out of a sequence.                                      *)
LEMMA TakeFirst ==
  ASSUME NEW S, NEW s \in Seq(S), s # <<>>
  PROVE  /\ Head(s) = s[1] /\ Head(s) \in S /\ Tail(s) \in Seq(S)
         /\ Len(s) \in Nat \ {0} /\ Len(Tail(s)) = Len(s) - 1
         /\ \A i \in 1..(Len(s) - 1) : Tail(s)[i] = s[i + 1]
OBVIOUS

(* See TakeFirst.                                                          *)
LEMMA LinesTakeFirst ==
  ASSUME NEW S, NEW s \in Seq(S), s # <<>>
  PROVE  Head(s) \in Lines(s) /\ Lines(Tail(s)) \subseteq Lines(s)
<1>1. DOMAIN s = 1..Len(s) /\ DOMAIN Tail(s) = 1..(Len(s) - 1) /\ 1 \in 1..Len(s)
  BY TakeFirst
<1>2. ASSUME NEW i \in 1..(Len(s) - 1) PROVE i + 1 \in 1..Len(s) /\ Tail(s)[i] = s[i + 1]
  BY TakeFirst
<1> QED BY <1>1, <1>2, TakeFirst DEF Lines

(* A line is added to a sequence.                                          *)
LEMMA LinesAppend ==
  ASSUME NEW S, NEW s \in Seq(S), NEW e \in S
  PROVE  Lines(Append(s, e)) \subseteq Lines(s) \cup {e}
<1>1. DOMAIN s = 1..Len(s) /\ DOMAIN Append(s, e) = 1..(Len(s) + 1) /\ Len(s) \in Nat
  OBVIOUS
<1>2. ASSUME NEW i \in 1..(Len(s) + 1)
      PROVE  (i \in 1..Len(s) /\ Append(s, e)[i] = s[i]) \/ Append(s, e)[i] = e
  BY <1>1
<1> QED BY <1>1, <1>2 DEF Lines

(* What a Dir-closed set has all the way up, it has.                       *)
LEMMA ReachedFromRoot ==
  ASSUME NEW A \in SUBSET Path, NEW V, <<>> \in V,
         \A q \in A : Dir(q) \in A,
         \A q \in A \ {<<>>} : Dir(q) \in V => q \in V
  PROVE  A \subseteq V
<1> SUFFICES ASSUME NEW q0 \in A, q0 \notin V
             PROVE  FALSE
  OBVIOUS
<1> DEFINE T == {Len(q) : q \in A \ V}
<1>1. T \subseteq Nat
  BY PathIsSeq
<1>2. Len(q0) \in T
  OBVIOUS
<1>n. PICK n \in T : \A m \in T : ~(<<m, n>> \in OpToRel(<, Nat))
  BY <1>1, <1>2, NatLessThanWellFounded, WFMin
<1>3. \A m \in T : ~(m < n)
  BY <1>1, <1>n DEF OpToRel
<1>4. PICK q \in A \ V : n = Len(q)
  OBVIOUS
<1>5. q \in Path /\ q # <<>> /\ Dir(q) \in A \ V
  BY <1>4
<1>6. Len(Dir(q)) < Len(q) /\ Len(Dir(q)) \in T
  BY <1>5, DirIsOther
<1> QED BY <1>3, <1>4, <1>6

-----------------------------------------------------------------------------
(* Handler and ssh stay in step.                                           *)
LEMMA StepPhases == TreeInv /\ [Next]_vars => Phases'
<1> SUFFICES ASSUME TreeInv, [Next]_vars
             PROVE  Phases'
  OBVIOUS
<1> USE DEF TreeInv, Phases
<1>1. ASSUME NEW p \in Path, WalkVisit(p)
      PROVE  Phases'
  BY <1>1 DEF WalkVisit, sshVars, treeVars
<1>2. CASE WalkFails
  BY <1>2 DEF WalkFails, sshVars, treeVars
<1>3. CASE StartSSH
  BY <1>3 DEF StartSSH, treeVars
<1>4. CASE ChildWrites
  BY <1>4 DEF ChildWrites, treeVars
<1>5. ASSUME NEW status \in {"ok", "fail"}, ChildExits(status)
      PROVE  Phases'
  BY <1>5 DEF ChildExits, treeVars
<1>6. CASE ScanLine
  BY <1>6 DEF ScanLine, AfterScanError
<1>7. CASE Drain
  BY <1>7 DEF Drain, treeVars
<1>8. CASE ReadEnds
  BY <1>8 DEF ReadEnds, EOF, sshVars, treeVars
<1>9. CASE StderrDone
  BY <1>9 DEF StderrDone, sshVars, treeVars
<1>10. CASE WaitReturns
  BY <1>10 DEF WaitReturns, Usable, sshVars
<1>11. ASSUME NEW p \in Path, Mark(p)
       PROVE  Phases'
  BY <1>11 DEF Mark, sshVars
<1>12. CASE ListDirs
  BY <1>12 DEF ListDirs, sshVars, treeVars
<1>13. CASE UNCHANGED <<phase, sshVars, treeVars>>
  BY <1>13 DEF sshVars, treeVars
<1>14. ASSUME NEW p \in Path, Appears(p) \/ Disappears(p)
       PROVE  Phases'
  BY <1>13, <1>14 DEF Appears, Disappears, DiskChanges
<1> QED BY <1>1, <1>2, <1>3, <1>4, <1>5, <1>6, <1>7, <1>8, <1>9, <1>10, <1>11, <1>12, <1>13,
           <1>14 DEF Next, Handler, ContextEnds, ChildKilled, vars, sshVars, treeVars

(* Pipe and output keep the order of the listing.                          *)
LEMMA StepInOrder ==
  TreeInv /\ [Next]_vars =>
    /\ listing' \in Listings /\ listing' \in Seq(Line)
    /\ pipe' \in Seq(Line) /\ unwritten' \in Seq(Line)
    /\ InOrder'
<1> SUFFICES ASSUME TreeInv, [Next]_vars
             PROVE  /\ listing' \in Listings /\ listing' \in Seq(Line)
                    /\ pipe' \in Seq(Line) /\ unwritten' \in Seq(Line)
                    /\ InOrder'
  OBVIOUS
<1>1. /\ listing \in Listings /\ listing \in Seq(Line)
      /\ pipe \in Seq(Line) /\ unwritten \in Seq(Line) /\ InOrder
  BY DEF TreeInv
<1>2. /\ Len(listing) \in Nat /\ Len(pipe) \in Nat /\ Len(unwritten) \in Nat
  BY <1>1
<1>3. ASSUME UNCHANGED <<listing, pipe, unwritten>>
      PROVE  /\ listing' \in Listings /\ listing' \in Seq(Line)
             /\ pipe' \in Seq(Line) /\ unwritten' \in Seq(Line)
             /\ InOrder'
  BY <1>1, <1>3 DEF InOrder, Taken
<1>4. ASSUME pipe # <<>>, pipe' = Tail(pipe), UNCHANGED <<listing, unwritten>>
      PROVE  /\ listing' \in Listings /\ listing' \in Seq(Line)
             /\ pipe' \in Seq(Line) /\ unwritten' \in Seq(Line)
             /\ InOrder'
  <2>1. /\ pipe' \in Seq(Line) /\ Len(pipe) > 0 /\ Len(pipe') = Len(pipe) - 1
        /\ \A i \in 1..(Len(pipe) - 1) : pipe'[i] = pipe[i + 1]
    BY <1>1, <1>2, <1>4, TakeFirst
  <2>2. Taken' = Taken + 1 /\ Taken \in Nat /\ Taken' \in Nat
    BY <1>1, <1>2, <1>4, <2>1 DEF Taken, InOrder
  <2>3. ASSUME NEW i \in 1..Len(pipe') PROVE pipe'[i] = listing'[Taken' + i]
    <3>1. i \in 1..(Len(pipe) - 1) /\ i + 1 \in 1..Len(pipe) /\ Taken' + i = Taken + (i + 1)
      BY <1>2, <2>1, <2>2
    <3> QED BY <1>1, <1>4, <2>1, <3>1 DEF InOrder
  <2>4. ASSUME NEW i \in 1..Len(unwritten')
        PROVE  unwritten'[i] = listing'[Taken' + Len(pipe') + i]
    <3>1. Taken' + Len(pipe') + i = Taken + Len(pipe) + i
      BY <1>2, <2>1, <2>2
    <3> QED BY <1>1, <1>4, <3>1 DEF InOrder
  <2> QED BY <1>1, <1>4, <2>1, <2>2, <2>3, <2>4 DEF InOrder
<1>5. CASE ChildWrites
  <2>1. /\ unwritten # <<>> /\ pipe' = Append(pipe, Head(unwritten))
        /\ unwritten' = Tail(unwritten) /\ UNCHANGED listing
    BY <1>5 DEF ChildWrites
  <2>2. /\ Head(unwritten) = unwritten[1] /\ Head(unwritten) \in Line
        /\ Len(unwritten) > 0 /\ unwritten' \in Seq(Line)
        /\ Len(unwritten') = Len(unwritten) - 1
        /\ \A i \in 1..(Len(unwritten) - 1) : unwritten'[i] = unwritten[i + 1]
    BY <1>1, <1>2, <2>1, TakeFirst
  <2>3. pipe' \in Seq(Line) /\ Len(pipe') = Len(pipe) + 1
        /\ \A i \in 1..Len(pipe) : pipe'[i] = pipe[i]
        /\ pipe'[Len(pipe) + 1] = Head(unwritten)
    BY <1>1, <2>1, <2>2
  <2>4. Taken' = Taken /\ Taken \in Nat
    BY <1>1, <1>2, <2>1, <2>2, <2>3 DEF Taken, InOrder
  <2>5. ASSUME NEW i \in 1..Len(pipe') PROVE pipe'[i] = listing'[Taken' + i]
    <3>1. CASE i \in 1..Len(pipe)
      BY <1>1, <2>1, <2>3, <2>4, <3>1 DEF InOrder
    <3>2. CASE i = Len(pipe) + 1
      <4>1. 1 \in 1..Len(unwritten) /\ Taken + Len(pipe) + 1 = Taken' + i
        BY <1>2, <2>2, <2>4, <3>2
      <4> QED BY <1>1, <2>1, <2>2, <2>3, <3>2, <4>1 DEF InOrder
    <3> QED BY <1>2, <2>3, <3>1, <3>2
  <2>6. ASSUME NEW i \in 1..Len(unwritten')
        PROVE  unwritten'[i] = listing'[Taken' + Len(pipe') + i]
    <3>1. /\ i \in 1..(Len(unwritten) - 1) /\ i + 1 \in 1..Len(unwritten)
          /\ Taken' + Len(pipe') + i = Taken + Len(pipe) + (i + 1)
      BY <1>2, <2>2, <2>3, <2>4
    <3> QED BY <1>1, <2>1, <2>2, <3>1 DEF InOrder
  <2> QED BY <1>1, <2>1, <2>2, <2>3, <2>4, <2>5, <2>6 DEF InOrder
<1> QED BY <1>3, <1>4, <1>5
        DEF Next, Handler, WalkVisit, Mark, WalkFails, StartSSH, ScanLine, Drain, ReadEnds,
            StderrDone, WaitReturns, ListDirs, Appears, Disappears, DiskChanges, ContextEnds,
            ChildKilled, ChildExits, vars, sshVars

(* The scanner has taken in just the lines that were taken, in their       *)
(* order.                                                                  *)
LEMMA StepScanned == TreeInv /\ [Next]_vars => Scanned'
<1> SUFFICES ASSUME TreeInv, [Next]_vars
             PROVE  Scanned'
  OBVIOUS
<1>1. /\ listing \in Seq(Line) /\ pipe \in Seq(Line) /\ unwritten \in Seq(Line)
      /\ InOrder /\ Scanned
  BY DEF TreeInv
<1>2. /\ Len(listing) \in Nat /\ Len(pipe) \in Nat /\ Len(unwritten) \in Nat /\ Taken \in Nat
  BY <1>1 DEF InOrder
<1>3. ASSUME UNCHANGED <<listing, pipe, unwritten, scanErr, pathMap, linked>>
      PROVE  Scanned'
  BY <1>1, <1>3 DEF Scanned, Taken
<1>4. CASE ChildWrites
  <2>1. /\ unwritten # <<>> /\ pipe' = Append(pipe, Head(unwritten))
        /\ unwritten' = Tail(unwritten) /\ UNCHANGED <<listing, scanErr, pathMap, linked>>
    BY <1>4 DEF ChildWrites, treeVars
  <2>2. Head(unwritten) \in Line /\ Len(unwritten') = Len(unwritten) - 1
    BY <1>1, <2>1, TakeFirst
  <2>3. Len(pipe') = Len(pipe) + 1
    BY <1>1, <2>1, <2>2
  <2>4. Taken' = Taken
    BY <1>2, <2>1, <2>2, <2>3 DEF Taken
  <2> QED BY <1>1, <2>1, <2>4 DEF Scanned
<1>5. ASSUME pipe # <<>>, pipe' = Tail(pipe), UNCHANGED <<listing, unwritten>>
      PROVE  /\ Head(pipe) = listing[Taken + 1] /\ Taken' = Taken + 1
             /\ Taken + 1 \in 1..Len(listing) /\ Head(pipe) \in Line
  <2>1. /\ Head(pipe) = pipe[1] /\ Head(pipe) \in Line /\ Len(pipe) > 0
        /\ Len(pipe') = Len(pipe) - 1
    BY <1>1, <1>2, <1>5, TakeFirst
  <2>2. 1 \in 1..Len(pipe)
    BY <1>2, <2>1
  <2>3. pipe[1] = listing[Taken + 1]
    BY <1>1, <2>2 DEF InOrder
  <2>4. Taken' = Taken + 1 /\ Taken + 1 \in 1..Len(listing)
    BY <1>2, <1>5, <2>1 DEF Taken
  <2> QED BY <2>1, <2>3, <2>4
<1>6. CASE ScanLine
  <2>1. pipe # <<>> /\ pipe' = Tail(pipe) /\ UNCHANGED <<listing, unwritten>>
    BY <1>6 DEF ScanLine
  <2>2. phase = "scan" /\ ~scanErr
    BY <1>6 DEF ScanLine, TreeInv, Phases
  <2>3. CASE scanErr'
    BY <2>3 DEF Scanned
  <2>4. CASE ~scanErr'
    <3>1. /\ Head(pipe) # TooLong /\ pathMap' = pathMap \cup {Head(pipe)}
          /\ linked' = IF Dir(Head(pipe)) \in pathMap THEN linked \cup {Head(pipe)} ELSE linked
      BY <1>6, <2>4 DEF ScanLine
    <3>2. /\ Head(pipe) = listing[Taken + 1] /\ Taken' = Taken + 1
      BY <1>5, <2>1
    <3>3. \A i : i \in 1..(Taken + 1) <=> i \in 1..Taken \/ i = Taken + 1
      BY <1>2
    <3>4. pathMap' = {listing'[i] : i \in 1..Taken'}
      BY <1>1, <2>1, <2>2, <3>1, <3>2, <3>3 DEF Scanned
    <3>5. \A i \in 1..Taken' : listing'[i] # TooLong
      BY <1>1, <2>1, <2>2, <3>1, <3>2, <3>3 DEF Scanned
    <3>6. ASSUME NEW i \in 1..Taken', NEW j \in 1..Taken', i < j, listing[i] = Dir(listing[j])
          PROVE  listing[j] \in linked'
      <4>1. i \in 1..Taken
        BY <1>2, <3>2, <3>6
      <4>2. CASE j \in 1..Taken
        BY <1>1, <2>2, <3>1, <3>6, <4>1, <4>2 DEF Scanned
      <4>3. CASE j = Taken + 1
        <5>1. Dir(Head(pipe)) \in pathMap
          BY <1>1, <2>2, <3>2, <3>6, <4>1, <4>3 DEF Scanned
        <5> QED BY <3>1, <3>2, <4>3, <5>1
      <4> QED BY <3>2, <3>3, <4>2, <4>3
    <3> QED BY <2>1, <3>4, <3>5, <3>6 DEF Scanned
  <2> QED BY <2>3, <2>4
<1>7. CASE Drain
  <2>1. scanErr' = scanErr /\ scanErr
    BY <1>7 DEF Drain, treeVars, TreeInv, Phases
  <2> QED BY <2>1 DEF Scanned
<1> QED BY <1>3, <1>4, <1>6, <1>7
        DEF Next, Handler, WalkVisit, Mark, WalkFails, StartSSH, ReadEnds, StderrDone,
            WaitReturns, ListDirs, Appears, Disappears, DiskChanges, ContextEnds,
            ChildKilled, ChildExits, vars, sshVars, treeVars

(* Every step keeps the types.                                             *)
LEMMA StepTypes == TreeInv /\ [Next]_vars => TreeTypeOK'
<1> SUFFICES ASSUME TreeInv, [Next]_vars
             PROVE  TreeTypeOK'
  OBVIOUS
<1>1. TreeTypeOK /\ pipe \in Seq(Line) /\ unwritten \in Seq(Line)
  BY DEF TreeInv
<1> USE DEF TreeTypeOK
<1>2. ASSUME NEW p \in Path, WalkVisit(p)
      PROVE  TreeTypeOK'
  <2>1. Visited(p) \subseteq Path /\ {q \in disk : Dir(q) = p /\ q # p} \subseteq Path
    BY <1>1 DEF Visited
  <2> QED BY <1>1, <1>2, <2>1 DEF WalkVisit, diskVars, sshVars, treeVars
<1>3. CASE ChildWrites
  <2>1. /\ unwritten # <<>> /\ pipe' = Append(pipe, Head(unwritten))
        /\ unwritten' = Tail(unwritten) /\ Len(pipe) < PipeSize
        /\ UNCHANGED <<diskVars, ctxDone, phase, todo, localPathMap, child, listing, treeVars>>
    BY <1>3 DEF ChildWrites
  <2>2. /\ Head(unwritten) = unwritten[1] /\ Head(unwritten) \in Line
        /\ Len(unwritten) \in Nat \ {0} /\ unwritten' \in Seq(Line)
        /\ Len(unwritten') = Len(unwritten) - 1
        /\ \A i \in 1..(Len(unwritten) - 1) : unwritten'[i] = unwritten[i + 1]
    BY <1>1, <2>1, TakeFirst
  <2>3. pipe' \in Seq(Line) /\ Len(pipe') = Len(pipe) + 1
        /\ \A i \in 1..Len(pipe) : pipe'[i] = pipe[i]
        /\ pipe'[Len(pipe) + 1] = Head(unwritten)
    BY <1>1, <2>1, <2>2
  <2>4. Lines(unwritten') \cup {Head(unwritten)} \subseteq Lines(unwritten)
    BY <1>1, <2>1, LinesTakeFirst
  <2>5. Lines(pipe') \subseteq Lines(pipe) \cup {Head(unwritten)}
    BY <1>1, <2>1, <2>2, LinesAppend
  <2>6. Len(pipe') <= PipeSize
    BY <1>1, <2>1, <2>3, TreeAssumption
  <2> QED BY <1>1, <2>1, <2>4, <2>5, <2>6 DEF diskVars, treeVars
<1>4. ASSUME pipe # <<>>, pipe' = Tail(pipe)
      PROVE  /\ Head(pipe) \in Lines(pipe) \cap Line /\ Lines(pipe') \subseteq Lines(pipe)
             /\ Len(pipe') <= PipeSize
  <2>1. /\ Head(pipe) = pipe[1] /\ Head(pipe) \in Line
        /\ Len(pipe) \in Nat \ {0} /\ pipe' \in Seq(Line)
        /\ Len(pipe') = Len(pipe) - 1
        /\ \A i \in 1..(Len(pipe) - 1) : pipe'[i] = pipe[i + 1]
    BY <1>1, <1>4, TakeFirst
  <2>2. Lines(pipe') \subseteq Lines(pipe) /\ Head(pipe) \in Lines(pipe)
    BY <1>1, <1>4, LinesTakeFirst
  <2>3. Len(pipe') <= PipeSize
    BY <1>1, <2>1, TreeAssumption
  <2> QED BY <2>1, <2>2, <2>3
<1>5. CASE ScanLine
  BY <1>1, <1>4, <1>5 DEF ScanLine, AfterScanError, diskVars, Line
<1>6. CASE Drain
  BY <1>1, <1>4, <1>6 DEF Drain, diskVars, treeVars
<1>7. ASSUME NEW p \in Path, Mark(p)
      PROVE  TreeTypeOK'
  BY <1>1, <1>7 DEF Mark, setNotSynced, diskVars, sshVars
<1>8. CASE WaitReturns
  BY <1>1, <1>8 DEF WaitReturns, diskVars, sshVars
<1>9. ASSUME NEW d \in SUBSET Path, DiskChanges(d)
      PROVE  TreeTypeOK'
  <2>1. changes + 1 \in 0..MaxChanges
    BY <1>1, <1>9, TreeAssumption DEF DiskChanges
  <2> QED BY <1>1, <1>9, <2>1 DEF DiskChanges, sshVars, treeVars
<1>10. ASSUME NEW p \in Path, Appears(p) \/ Disappears(p)
       PROVE  TreeTypeOK'
  <2>1. disk \cup {p} \in SUBSET Path /\ disk \ Below(p) \in SUBSET Path
    BY <1>1
  <2> QED BY <1>9, <1>10, <2>1 DEF Appears, Disappears
<1>11. ASSUME NEW status \in {"ok", "fail"}, ChildExits(status)
       PROVE  TreeTypeOK'
  BY <1>1, <1>11 DEF ChildExits, diskVars, treeVars
<1>12. CASE WalkFails \/ StartSSH \/ ReadEnds \/ StderrDone \/ ListDirs \/ ContextEnds
  BY <1>1, <1>12 DEF WalkFails, StartSSH, ReadEnds, StderrDone, ListDirs, ContextEnds,
                     diskVars, sshVars, treeVars
<1>13. CASE UNCHANGED vars
  BY <1>1, <1>13 DEF vars
<1> QED BY <1>2, <1>3, <1>5, <1>6, <1>7, <1>8, <1>10, <1>11, <1>12, <1>13
        DEF Next, Handler, ChildKilled

(* The walk loses nothing that was there all the time.                     *)
LEMMA StepWalked == TreeInv /\ [Next]_vars => Walked'
<1> SUFFICES ASSUME TreeInv, [Next]_vars
             PROVE  Walked'
  OBVIOUS
<1>1. TreeTypeOK /\ Walked
  BY DEF TreeInv
<1>2. ASSUME NEW d \in SUBSET Path, DiskChanges(d), <<>> \in always \cap d,
             \A q \in always \cap d : Dir(q) \in always \cap d
      PROVE  Walked'
  BY <1>1, <1>2 DEF DiskChanges, Walked
<1>3. ASSUME NEW p \in Path, Appears(p)
      PROVE  Walked'
  <2>1. always \cap (disk \cup {p}) = always /\ disk \cup {p} \in SUBSET Path
    BY <1>1 DEF Walked, TreeTypeOK
  <2> QED BY <1>1, <1>2, <1>3, <2>1 DEF Appears, Walked
<1>4. ASSUME NEW p \in Path, Disappears(p)
      PROVE  Walked'
  <2>1. always \subseteq Path /\ always \subseteq disk /\ disk \ Below(p) \in SUBSET Path
    BY <1>1 DEF Walked, TreeTypeOK
  <2>2. <<>> \notin Below(p)
    <3>1. p # <<>> /\ <<>> \in Path
      BY <1>4, TreeAssumption DEF Disappears
    <3> QED BY <3>1, PrefixOfDir DEF Below
  <2>3. ASSUME NEW q \in always, q \notin Below(p)
        PROVE  Dir(q) \in always \ Below(p)
    <3>1. Dir(q) \in always
      BY <1>1 DEF Walked
    <3> QED BY <2>1, <2>3, <3>1, PrefixFromDir DEF Below
  <2> QED BY <1>1, <1>2, <1>4, <2>1, <2>2, <2>3 DEF Disappears, Walked
<1>5. ASSUME NEW p \in Path, WalkVisit(p)
      PROVE  Walked'
  <2>1. /\ phase = "walk" /\ p \in todo /\ localPathMap' = localPathMap \cup {p}
        /\ UNCHANGED <<disk, ever, always>>
    BY <1>5 DEF WalkVisit, Visited, diskVars
  <2>2. CASE p \notin disk
    <3>1. phase' = "failed" /\ UNCHANGED todo
      BY <1>5, <2>2 DEF WalkVisit
    <3> QED BY <1>1, <2>1, <3>1 DEF Walked
  <2>3. CASE p \in disk
    <3>1. /\ todo' = (todo \ {p}) \cup {q \in disk : Dir(q) = p /\ q # p}
          /\ phase' = IF todo' = {} THEN "start" ELSE "walk"
      BY <1>5, <2>3 DEF WalkVisit
    <3>2. todo' \subseteq ever /\ localPathMap' \subseteq ever
      BY <1>1, <2>1, <3>1 DEF Walked
    <3>3. <<>> \in localPathMap' \cup todo'
      BY <1>1, <2>1, <3>1 DEF Walked
    <3>4. ASSUME NEW q \in always \ {<<>>}, Dir(q) \in localPathMap'
          PROVE  q \in localPathMap' \cup todo'
      <4>1. CASE Dir(q) = p
        <5>1. q # p /\ q \in disk
          BY <1>1, <3>4, <4>1, DirIsOther DEF Walked, TreeTypeOK
        <5> QED BY <3>1, <4>1, <5>1
      <4>2. CASE Dir(q) # p
        BY <1>1, <2>1, <3>1, <3>4, <4>2 DEF Walked
      <4> QED BY <4>1, <4>2
    <3>5. phase' \notin {"walk", "failed"} => todo' = {}
      BY <3>1
    <3> QED BY <1>1, <2>1, <3>2, <3>3, <3>4, <3>5 DEF Walked
  <2> QED BY <2>2, <2>3
<1>6. ASSUME UNCHANGED <<diskVars, todo, localPathMap>>,
             phase' \in {"walk", "failed"} \/ phase \notin {"walk", "failed"},
             phase' = "failed" \/ phase # "failed"
      PROVE  Walked'
  BY <1>1, <1>6 DEF Walked, diskVars
<1>7. CASE UNCHANGED <<diskVars, todo, localPathMap, phase>>
  BY <1>6, <1>7
<1> QED BY <1>3, <1>4, <1>5, <1>6, <1>7
        DEF Next, Handler, Mark, WalkFails, StartSSH, ScanLine, AfterScanError, Drain, ReadEnds,
            StderrDone, WaitReturns, ListDirs, ContextEnds, ChildWrites, ChildKilled,
            ChildExits, vars, diskVars, sshVars, treeVars

(* Nothing is marked without a reason, and nothing passed over.            *)
LEMMA StepMarked == TreeInv /\ [Next]_vars => Marked'
<1> SUFFICES ASSUME TreeInv, [Next]_vars
             PROVE  Marked'
  OBVIOUS
<1>1. TreeTypeOK /\ Phases /\ Marked
  BY DEF TreeInv
<1>2. ASSUME phase' \notin {"mark", "listed"}, notSynced' = {}
      PROVE  Marked'
  BY <1>2 DEF Marked
<1>3. ASSUME NEW p \in Path, Mark(p)
      PROVE  Marked'
  <2>1. /\ phase = "mark" /\ p \in pathMap
        /\ unmarked' = unmarked \ {p}
        /\ notSynced' = IF p \in localPathMap THEN notSynced ELSE notSynced \cup setNotSynced(p)
        /\ UNCHANGED <<phase, localPathMap, pathMap, linked>>
    BY <1>1, <1>3 DEF Mark, TreeTypeOK
  <2>2. \A q : setNotSynced(q)' = setNotSynced(q)
    BY <2>1 DEF setNotSynced
  <2>3. ASSUME NEW q \in pathMap' \ (unmarked' \cup localPathMap')
        PROVE  setNotSynced(q)' \subseteq notSynced'
    <3>1. CASE q = p
      BY <2>1, <2>2, <2>3, <3>1
    <3>2. CASE q # p
      BY <1>1, <2>1, <2>2, <2>3, <3>2 DEF Marked
    <3> QED BY <3>1, <3>2
  <2>4. ASSUME NEW q \in notSynced'
        PROVE  \E r \in Below(q) \cap pathMap : r \notin localPathMap
    <3>1. CASE q \in notSynced
      BY <1>1, <3>1 DEF Marked
    <3>2. CASE q \notin notSynced
      <4>1. q \in setNotSynced(p) /\ p \notin localPathMap
        BY <2>1, <2>4, <3>2
      <4> QED BY <2>1, <4>1 DEF setNotSynced, Below
    <3> QED BY <3>1, <3>2
  <2> QED BY <2>1, <2>3, <2>4 DEF Marked
<1>4. CASE WaitReturns
  <2>1. notSynced' = notSynced /\ notSynced = {} /\ pathMap' = pathMap
        /\ (phase' \in {"mark", "listed"} => unmarked' = pathMap)
    BY <1>1, <1>4 DEF WaitReturns, Phases
  <2> QED BY <2>1 DEF Marked
<1>5. CASE ListDirs
  BY <1>1, <1>5 DEF ListDirs, Marked, setNotSynced, treeVars
<1>6. CASE UNCHANGED <<phase, localPathMap, treeVars>>
  BY <1>1, <1>6 DEF Marked, setNotSynced, treeVars
<1>7. CASE ScanLine \/ Drain \/ ReadEnds \/ StderrDone \/ StartSSH \/ WalkFails
           \/ \E p \in Path : WalkVisit(p)
  <2>1. phase \notin {"mark", "listed"} /\ notSynced = {}
    BY <1>1, <1>7 DEF ScanLine, Drain, ReadEnds, StderrDone, StartSSH, WalkFails, WalkVisit,
                      Phases
  <2>2. phase' \notin {"mark", "listed"} /\ notSynced' = notSynced
    BY <1>7, <2>1 DEF ScanLine, AfterScanError, Drain, ReadEnds, StderrDone, StartSSH,
                      WalkFails, WalkVisit, treeVars
  <2> QED BY <1>2, <2>1, <2>2
<1> QED BY <1>3, <1>4, <1>5, <1>6, <1>7
        DEF Next, Handler, Appears, Disappears, DiskChanges, ContextEnds, ChildWrites,
            ChildKilled, ChildExits, vars, sshVars, treeVars

-----------------------------------------------------------------------------
(* The invariant holds before the walk.                                    *)
LEMMA TreeInvInit == Init => TreeInv
<1> SUFFICES ASSUME Init PROVE TreeInv
  OBVIOUS
<1>1. listing \in Listings /\ listing \in Seq(Line) /\ unwritten = listing /\ pipe = <<>>
  BY TreeAssumption DEF Init, Line
<1>2. pipe \in Seq(Line) /\ Len(pipe) = 0 /\ Len(listing) \in Nat
  BY <1>1
<1>3. Lines(pipe) = {} /\ Lines(unwritten) = Lines(listing)
  BY <1>1 DEF Lines
<1>4. 0 \in 0..MaxChanges /\ Len(pipe) <= PipeSize
  <2>1. MaxChanges \in Nat /\ PipeSize \in Nat
    BY TreeAssumption
  <2> QED BY <1>2, <2>1
<1>5. TreeTypeOK
  BY <1>3, <1>4, TreeAssumption DEF Init, TreeTypeOK
<1>6. Phases
  BY DEF Init, Phases
<1>7. Walked
  BY TreeAssumption DEF Init, Walked
<1>8. Taken = 0
  BY <1>1, <1>2 DEF Taken
<1>9. InOrder
  BY <1>1, <1>2, <1>8 DEF InOrder
<1>10. Scanned
  BY <1>8 DEF Init, Scanned
<1>11. Marked
  BY DEF Init, Marked
<1> QED BY <1>1, <1>2, <1>5, <1>6, <1>7, <1>9, <1>10, <1>11 DEF TreeInv

(* The invariant holds through a request, whatever happens on the disk, in *)
(* the pipe and at the other end.                                          *)
THEOREM TreeInvariant == Spec => []TreeInv
<1>1. TreeInv /\ [Next]_vars => TreeInv'
  BY StepTypes, StepPhases, StepWalked, StepInOrder, StepScanned, StepMarked DEF TreeInv
<1> QED BY <1>1, TreeInvInit, PTL DEF Spec

(* Items, marks and the pipe stay within what was listed and fits.         *)
THEOREM TreeTypeCorrect == Spec => []TreeTypeOK
<1>1. TreeInv => TreeTypeOK
  BY DEF TreeInv
<1> QED BY <1>1, TreeInvariant, PTL

(* ssh is never left with a full pipe that nobody reads.                   *)
THEOREM PipeAlwaysRead == Spec => []PipeIsRead
<1>1. TreeInv => PipeIsRead
  BY DEF TreeInv, Phases, PipeIsRead
<1> QED BY <1>1, TreeInvariant, PTL

(* A listing that is answered has every line of ssh.                       *)
LEMMA ListedIsWhole == TreeInv => OnlyComplete
<1> SUFFICES ASSUME TreeInv, phase = "listed"
             PROVE  pathMap = Lines(listing)
  BY DEF OnlyComplete
<1>1. pipe = <<>> /\ unwritten = <<>> /\ ~scanErr
  BY DEF TreeInv, Phases
<1>2. DOMAIN listing = 1..Len(listing) /\ Len(listing) \in Nat
  BY DEF TreeInv
<1>3. Taken = Len(listing)
  BY <1>1, <1>2 DEF Taken
<1> QED BY <1>1, <1>2, <1>3 DEF TreeInv, Scanned, Lines

(* A listing that is shown is all that ssh printed.                        *)
THEOREM ListingsWhole == Spec => []OnlyComplete
BY ListedIsWhole, TreeInvariant, PTL

(* The flags of a listing are true: synced means the directory and all     *)
(* listed below it were there, not synced that one was missing.            *)
THEOREM ListingsTrue == Spec => []SyncedIsTrue
<1>1. TreeInv => NotSyncedWasMissing
  <2> SUFFICES ASSUME TreeInv, NEW p \in notSynced
               PROVE  ~(Below(p) \cap pathMap \subseteq always)
    BY DEF NotSyncedWasMissing
  <2>1. PICK q \in Below(p) \cap pathMap : q \notin localPathMap
    BY DEF TreeInv, Marked
  <2>2. phase \in {"mark", "listed"} /\ todo = {}
    BY DEF TreeInv, Phases, Walked
  <2>3. always \subseteq Path
    BY DEF TreeInv, TreeTypeOK
  <2>4. always \subseteq localPathMap
    BY <2>2, <2>3, ReachedFromRoot DEF TreeInv, Walked
  <2> QED BY <2>1, <2>4
<1>2. TreeInv => SyncedWasLocal
  <2> SUFFICES ASSUME TreeInv, phase = "listed", NEW p \in pathMap \ notSynced,
                      NEW q \in Below(p) \cap pathMap, q \notin ever
               PROVE  FALSE
    BY DEF SyncedWasLocal
  <2>1. pathMap = Lines(listing) /\ pathMap \subseteq Path /\ listing \in Listings
    BY ListedIsWhole DEF OnlyComplete, TreeInv, TreeTypeOK
  <2>2. q \notin localPathMap /\ q \notin unmarked
    BY DEF TreeInv, Walked, Phases
  <2>3. setNotSynced(q) \subseteq notSynced
    BY <2>2 DEF TreeInv, Marked
  <2>4. ASSUME NEW r \in Below(p) \ {p}, IsPrefix(r, q)
        PROVE  r \in linked
    <3>1. p \in Path /\ q \in Path /\ r \in Path /\ Dir(r) \in Path
      BY <2>1, PathIsSeq DEF Below
    <3>2. IsPrefix(p, Dir(r)) /\ IsPrefix(Dir(r), q) /\ IsPrefix(p, r)
      BY <2>4, <3>1, PrefixOfDir, DirPrefix DEF Below
    <3>3. r \in Lines(listing) /\ Dir(r) \in Lines(listing)
      BY <2>1, <2>4, <3>1, <3>2, TreeAssumption
    <3>4. PICK i \in DOMAIN listing : listing[i] = Dir(r)
      BY <3>3 DEF Lines
    <3>5. PICK j \in DOMAIN listing : listing[j] = r
      BY <3>3 DEF Lines
    <3>6. pipe = <<>> /\ unwritten = <<>> /\ ~scanErr
      BY DEF TreeInv, Phases
    <3>7. DOMAIN listing = 1..Len(listing) /\ Taken = Len(listing)
      <4>1. DOMAIN listing = 1..Len(listing) /\ Len(listing) \in Nat
        BY DEF TreeInv
      <4> QED BY <3>6, <4>1 DEF Taken
    <3>8. r # <<>> /\ Dir(r) # r
      BY <2>4, <3>1, <3>2, PrefixOfDir, DirIsOther
    <3>9. i # j /\ listing[i] # TooLong /\ listing[j] # TooLong
      BY <3>4, <3>5, <3>6, <3>7, <3>8 DEF TreeInv, Scanned
    <3>10. i < j
      BY <2>1, <3>4, <3>5, <3>9, TreeAssumption
    <3> QED BY <3>4, <3>5, <3>6, <3>7, <3>10 DEF TreeInv, Scanned
  <2>5. p \in setNotSynced(q)
    BY <2>4 DEF setNotSynced, Below
  <2> QED BY <2>3, <2>5
<1> QED BY <1>1, <1>2, TreeInvariant, PTL DEF SyncedIsTrue
=============================================================================
