---------------------------- MODULE DashboardProofs ----------------------------
(***************************************************************************)
(* What Dashboard shows never goes back, for any number of versions, of    *)
(* clicks, of failures and of requests that overlap.  The flag             *)
(* syncRefreshInFlight stands for the one refresh of the syncs that runs,  *)
(* which therefore is newer than what is shown.                            *)
(***************************************************************************)
EXTENDS Dashboard, TLAPS

(* The requests that bring the syncs.                                      *)
Refresh == {"syncs", "poll"}

(* Requests b of which one at most refreshes the syncs, none when none is  *)
(* in flight, and it brings nothing older than s, nor newer than t.        *)
Orderly(b, inFlight, s, t) ==
  /\ IsABag(b) /\ BagToSet(b) \subseteq Work
  /\ \A w \in BagToSet(b) : w.version <= t
  /\ \A w, x \in BagToSet(b) : w.kind \in Refresh /\ x.kind \in Refresh => w = x
  /\ \A w \in BagToSet(b) : w.kind \in Refresh =>
       /\ inFlight /\ b[w] = 1
       /\ w.result = "ok" => s <= w.version

(* The inductive invariant.                                                *)
DashboardInv ==
  /\ DashboardTypeOK
  /\ Orderly(work, syncRefreshInFlight, syncs, server) /\ syncs <= server
  /\ LoadingIsTrue

-----------------------------------------------------------------------------
(* Bags of requests: one more, and one less.                               *)
LEMMA OneMore ==
  ASSUME NEW b, IsABag(b), NEW e
  PROVE  /\ IsABag(b (+) SetToBag({e}))
         /\ BagToSet(b (+) SetToBag({e})) = BagToSet(b) \cup {e}
         /\ \A x \in BagToSet(b) \ {e} : (b (+) SetToBag({e}))[x] = b[x]
         /\ e \notin BagToSet(b) => (b (+) SetToBag({e}))[e] = 1
BY DEF IsABag, BagToSet, SetToBag, (+)

(* See OneMore.                                                            *)
LEMMA OneLess ==
  ASSUME NEW b, IsABag(b), NEW e \in BagToSet(b)
  PROVE  /\ IsABag(b (-) SetToBag({e}))
         /\ BagToSet(b (-) SetToBag({e})) \subseteq BagToSet(b)
         /\ BagToSet(b) \ {e} \subseteq BagToSet(b (-) SetToBag({e}))
         /\ \A x \in BagToSet(b) \ {e} : (b (-) SetToBag({e}))[x] = b[x]
         /\ b[e] = 1 => e \notin BagToSet(b (-) SetToBag({e}))
BY DEF IsABag, BagToSet, SetToBag, (-)

(* A request that has ended leaves the others orderly; when it was the     *)
(* refresh, none is left.                                                  *)
LEMMA OrderlyLess ==
  ASSUME NEW b, NEW inFlight, NEW s, NEW t, Orderly(b, inFlight, s, t), NEW w \in BagToSet(b)
  PROVE  /\ Orderly(b (-) SetToBag({w}), inFlight, s, t)
         /\ w.kind \in Refresh => \A f, v : Orderly(b (-) SetToBag({w}), f, v, t)
<1> DEFINE c == b (-) SetToBag({w})
<1>1. /\ IsABag(c) /\ BagToSet(c) \subseteq BagToSet(b)
      /\ \A x \in BagToSet(b) \ {w} : c[x] = b[x]
      /\ b[w] = 1 => w \notin BagToSet(c)
  BY OneLess DEF Orderly
<1> HIDE DEF c
<1>2. w.kind \in Refresh => \A x \in BagToSet(c) : x.kind \notin Refresh
  BY <1>1 DEF Orderly
<1>3. \A x \in BagToSet(c) : x.kind \in Refresh => c[x] = b[x]
  BY <1>1, <1>2
<1>4. Orderly(c, inFlight, s, t)
  BY <1>1, <1>3 DEF Orderly
<1>5. w.kind \in Refresh => \A f, v : Orderly(c, f, v, t)
  BY <1>1, <1>2 DEF Orderly
<1> QED BY <1>4, <1>5 DEF c

(* So does one more that is no refresh.                                    *)
LEMMA OrderlyMore ==
  ASSUME NEW b, NEW inFlight, NEW s, NEW t, Orderly(b, inFlight, s, t), NEW x \in Work,
         x.kind \notin Refresh, x.version <= t
  PROVE  Orderly(b (+) SetToBag({x}), inFlight, s, t)
<1> DEFINE c == b (+) SetToBag({x})
<1>1. /\ IsABag(c) /\ BagToSet(c) = BagToSet(b) \cup {x}
      /\ \A y \in BagToSet(b) \ {x} : c[y] = b[y]
  BY OneMore DEF Orderly
<1> HIDE DEF c
<1>2. \A y \in BagToSet(c) : y.kind \in Refresh => y \in BagToSet(b) /\ c[y] = b[y]
  BY <1>1
<1>3. Orderly(c, inFlight, s, t)
  BY <1>1, <1>2 DEF Orderly
<1> QED BY <1>3 DEF c

(* And the one refresh, begun when none is in flight.                      *)
LEMMA OrderlyRefresh ==
  ASSUME NEW b, NEW s, NEW t, Orderly(b, FALSE, s, t), NEW x \in Work,
         x.result = "ok" => s <= x.version, x.version <= t
  PROVE  Orderly(b (+) SetToBag({x}), TRUE, s, t)
<1> DEFINE c == b (+) SetToBag({x})
<1>1. /\ IsABag(c) /\ BagToSet(c) = BagToSet(b) \cup {x}
      /\ x \notin BagToSet(b) => c[x] = 1
  BY OneMore DEF Orderly
<1> HIDE DEF c
<1>2. \A y \in BagToSet(c) : y.kind \in Refresh => y = x /\ c[y] = 1
  BY <1>1 DEF Orderly
<1>3. Orderly(c, TRUE, s, t)
  BY <1>1, <1>2 DEF Orderly
<1> QED BY <1>3 DEF c

(* A new request waits for its answer.                                     *)
LEMMA AskedTyped ==
  ASSUME NEW kind \in Kind
  PROVE  Asked(kind) \in Work /\ Asked(kind).kind = kind /\ Asked(kind).result = "waiting"
         /\ Asked(kind).version = 0
<1>1. 0 \in 0..MaxVersion
  <2>1. MaxVersion \in Nat
    BY DashboardAssumption
  <2> QED BY <2>1
<1> QED BY <1>1 DEF Asked, Work

-----------------------------------------------------------------------------
(* What starts and ends requests keeps them orderly.                       *)
LEMMA RefreshOrderly ==
  ASSUME NEW b, Orderly(b, syncRefreshInFlight, syncs, server), NEW d \in BOOLEAN,
         refreshSyncs(b, d), server \in Nat,
         syncRefreshInFlight \in BOOLEAN, syncRefreshDirsPending \in BOOLEAN
  PROVE  /\ Orderly(work', syncRefreshInFlight', syncs, server)
         /\ syncRefreshInFlight' \in BOOLEAN /\ syncRefreshDirsPending' \in BOOLEAN
         /\ BagToSet(b) \subseteq BagToSet(work')
<1>1. CASE SyncsBusy
  BY <1>1 DEF refreshSyncs
<1>2. CASE ~SyncsBusy
  <2> DEFINE kind == IF d THEN "poll" ELSE "syncs"
  <2>1. /\ syncRefreshInFlight' = TRUE /\ UNCHANGED syncRefreshDirsPending
        /\ work' = b (+) SetToBag({Asked(kind)})
    BY <1>2 DEF refreshSyncs, Async
  <2>2. kind \in Kind
    BY DEF Kind
  <2> HIDE DEF kind
  <2>3. Orderly(b, FALSE, syncs, server)
    BY <1>2 DEF SyncsBusy, Orderly
  <2>4. Orderly(work', TRUE, syncs, server)
    <3>1. Asked(kind) \in Work /\ Asked(kind).result # "ok" /\ Asked(kind).version <= server
      BY <2>2, AskedTyped
    <3> QED BY <2>1, <2>3, <3>1, OrderlyRefresh
  <2>5. BagToSet(b) \subseteq BagToSet(work')
    BY <2>1, <2>3, OneMore DEF Orderly
  <2> QED BY <2>1, <2>4, <2>5
<1> QED BY <1>1, <1>2

(* See RefreshOrderly.                                                     *)
LEMMA AsyncOrderly ==
  ASSUME NEW b, NEW f, NEW s, NEW t \in Nat, Orderly(b, f, s, t), NEW kind \in Kind \ Refresh
  PROVE  /\ Orderly(Async(b, kind), f, s, t)
         /\ BagToSet(Async(b, kind)) = BagToSet(b) \cup {Asked(kind)}
<1>1. Asked(kind) \in Work /\ Asked(kind).kind \notin Refresh /\ Asked(kind).version <= t
  BY AskedTyped
<1>2. Orderly(Async(b, kind), f, s, t)
  BY <1>1, OrderlyMore DEF Async
<1>3. IsABag(b)
  BY DEF Orderly
<1>4. BagToSet(Async(b, kind)) = BagToSet(b) \cup {Asked(kind)}
  BY <1>3, OneMore DEF Async
<1> QED BY <1>2, <1>4

(* What is left beside a request.                                          *)
LEMMA BagOfRest ==
  ASSUME DashboardInv, NEW w \in BagToSet(work)
  PROVE  BagToSet(Rest(w)) \subseteq BagToSet(work) /\ BagToSet(work) \ {w} \subseteq BagToSet(Rest(w))
BY OneLess DEF DashboardInv, Orderly, Rest

(* The server answers with what it has now, which is no older than what is *)
(* shown.                                                                  *)
LEMMA FinishedOrderly ==
  ASSUME DashboardInv, NEW w \in BagToSet(work), NEW result \in {"ok", "auth"} \cup Message,
         w.result = "waiting", Finished(w, result)
  PROVE  /\ Orderly(work', syncRefreshInFlight, syncs, server)
         /\ \A y \in BagToSet(work) : \E z \in BagToSet(work') : z.kind = y.kind
<1>1. w \in Work /\ w.kind \in Kind /\ server \in 0..MaxVersion /\ syncs <= server
  BY DEF DashboardInv, DashboardTypeOK, Work
<1>2. 0 \in 0..MaxVersion
  <2>1. MaxVersion \in Nat
    BY DashboardAssumption
  <2> QED BY <2>1
<1>3. PICK x \in Work : /\ x.kind = w.kind
                        /\ x.kind \in Refresh /\ x.result = "ok" => syncs <= x.version
                        /\ x.version <= server
                        /\ work' = Rest(w) (+) SetToBag({x})
  <2> DEFINE v == IF result = "ok" /\ w.kind \in {"dirs", "syncs", "poll"} THEN server ELSE 0
             x == [kind |-> w.kind, result |-> result, version |-> v]
  <2>1. v \in 0..MaxVersion /\ v <= server /\ (w.kind \in Refresh /\ result = "ok" => syncs <= v)
    BY <1>1, <1>2 DEF Refresh
  <2>2. work' = Rest(w) (+) SetToBag({x})
    BY DEF Finished
  <2>3. x \in Work /\ x.kind = w.kind /\ x.result = result /\ x.version = v
    BY <1>1, <2>1 DEF Work
  <2> HIDE DEF x, v
  <2> QED BY <2>1, <2>2, <2>3
<1>4. Orderly(work, syncRefreshInFlight, syncs, server)
  BY DEF DashboardInv
<1>5. /\ Orderly(Rest(w), syncRefreshInFlight, syncs, server)
      /\ w.kind \in Refresh => \A f, v : Orderly(Rest(w), f, v, server)
  BY <1>4, OrderlyLess DEF Rest
<1>y. ASSUME NEW y \in BagToSet(work)
      PROVE  \E z \in BagToSet(work') : z.kind = y.kind
  <2>1. IsABag(Rest(w))
    BY <1>5 DEF Orderly
  <2>2. BagToSet(work') = BagToSet(Rest(w)) \cup {x}
    BY <1>3, <2>1, OneMore
  <2>3. y = w \/ y \in BagToSet(Rest(w))
    BY BagOfRest
  <2> QED BY <1>3, <2>2, <2>3
<1>6. CASE w.kind \in Refresh
  <2>1. Orderly(work', TRUE, syncs, server)
    BY <1>3, <1>5, <1>6, OrderlyRefresh
  <2>2. syncRefreshInFlight
    BY <1>4, <1>6 DEF Orderly
  <2>3. Orderly(work', syncRefreshInFlight, syncs, server)
    BY <2>1, <2>2 DEF Orderly
  <2> QED BY <1>y, <2>3
<1>7. CASE w.kind \notin Refresh
  <2>1. Orderly(work', syncRefreshInFlight, syncs, server)
    BY <1>3, <1>5, <1>7, OrderlyMore
  <2> QED BY <1>y, <2>1
<1> QED BY <1>6, <1>7

(* What a response is taken for.                                           *)
LEMMA decodeResponseTyped ==
  ASSUME NEW status, NEW body
  PROVE  decodeResponse(status, body) \in {"ok", "auth"} \cup Message
BY DEF decodeResponse, Message

-----------------------------------------------------------------------------
(* The list of messages: at most MaxErrors, the last ones.                 *)
LEMMA SubSeqTyped ==
  ASSUME NEW S, NEW s \in Seq(S), NEW m \in 1..(Len(s) + 1), NEW n \in 0..Len(s), m <= n + 1
  PROVE  SubSeq(s, m, n) \in Seq(S) /\ Len(SubSeq(s, m, n)) = n - m + 1
<1>1. Len(s) \in Nat
  OBVIOUS
<1>2. \A i \in m..n : s[i] \in S
  BY <1>1
<1> QED BY <1>1, <1>2

(* Pushing a message drops the oldest beyond MaxErrors.                    *)
LEMMA ErrorsPushed ==
  ASSUME errors \in Seq(Message), Len(errors) <= MaxErrors, NEW message \in Message
  PROVE  pushError(message) \in Seq(Message) /\ Len(pushError(message)) <= MaxErrors
<1>0. MaxErrors \in Nat \ {0}
  BY DashboardAssumption
<1>1. CASE errors # <<>> /\ Last(errors) = message
  BY <1>1 DEF pushError
<1>2. CASE ~(errors # <<>> /\ Last(errors) = message)
  <2> DEFINE pushed == Append(errors, message)
             first == IF Len(pushed) > MaxErrors THEN Len(pushed) - MaxErrors + 1 ELSE 1
  <2>1. pushed \in Seq(Message) /\ Len(pushed) = Len(errors) + 1 /\ Len(errors) \in Nat
    OBVIOUS
  <2>2. pushError(message) = SubSeq(pushed, first, Len(pushed))
    BY <1>2 DEF pushError
  <2> HIDE DEF pushed
  <2>3. first \in 1..(Len(pushed) + 1) /\ first <= Len(pushed) + 1 /\ Len(pushed) \in 0..Len(pushed)
        /\ Len(pushed) - first + 1 <= MaxErrors
    BY <1>0, <2>1
  <2> HIDE DEF first
  <2>4. SubSeq(pushed, first, Len(pushed)) \in Seq(Message)
        /\ Len(SubSeq(pushed, first, Len(pushed))) = Len(pushed) - first + 1
    BY <2>1, <2>3, SubSeqTyped
  <2> QED BY <2>2, <2>3, <2>4
<1> QED BY <1>1, <1>2

(* Dismissing a message takes one out.                                     *)
LEMMA ErrorsDismissed ==
  ASSUME errors \in Seq(Message), Len(errors) <= MaxErrors, NEW i \in DOMAIN errors
  PROVE  RemoveAt(errors, i) \in Seq(Message) /\ Len(RemoveAt(errors, i)) <= MaxErrors
<1>0. MaxErrors \in Nat /\ Len(errors) \in Nat /\ i \in 1..Len(errors)
  BY DashboardAssumption
<1>1. /\ SubSeq(errors, 1, i - 1) \in Seq(Message)
      /\ Len(SubSeq(errors, 1, i - 1)) = i - 1 - 1 + 1
  <2>1. i - 1 \in 0..Len(errors) /\ 1 \in 1..(Len(errors) + 1) /\ 1 <= i - 1 + 1
    BY <1>0
  <2> QED BY <2>1, SubSeqTyped
<1>2. /\ SubSeq(errors, i + 1, Len(errors)) \in Seq(Message)
      /\ Len(SubSeq(errors, i + 1, Len(errors))) = Len(errors) - (i + 1) + 1
  <2>1. i + 1 \in 1..(Len(errors) + 1) /\ Len(errors) \in 0..Len(errors)
        /\ i + 1 <= Len(errors) + 1
    BY <1>0
  <2> QED BY <2>1, SubSeqTyped
<1>3. RemoveAt(errors, i) \in Seq(Message)
      /\ Len(RemoveAt(errors, i)) =
           Len(SubSeq(errors, 1, i - 1)) + Len(SubSeq(errors, i + 1, Len(errors)))
  BY <1>1, <1>2 DEF RemoveAt
<1> QED BY <1>0, <1>1, <1>2, <1>3

(* See ErrorsPushed.                                                       *)
LEMMA ErrorHandled ==
  ASSUME DashboardTypeOK, NEW w \in Work, w.result # "waiting", w.result # "ok", handleError(w)
  PROVE  errors' \in Seq(Message) /\ Len(errors') <= MaxErrors
<1>1. w.result = "auth" \/ w.result \in Message
  BY DEF Work
<1> QED BY <1>1, ErrorsPushed DEF handleError, DashboardTypeOK

-----------------------------------------------------------------------------
(* Every click, response and poll keeps the invariant.                     *)
LEMMA DashboardInvStep == DashboardInv /\ [Next]_vars => DashboardInv'
<1> SUFFICES ASSUME DashboardInv, [Next]_vars
             PROVE  DashboardInv'
  OBVIOUS
<1> DEFINE Counts == server' \in 0..MaxVersion /\ faults' \in 0..MaxFaults /\ clicks' \in 0..MaxClicks
           Shows == /\ dirsLoadComplete' \in BOOLEAN /\ dirs' \in 0..MaxVersion
                    /\ errors' \in Seq(Message) /\ Len(errors') <= MaxErrors
           Flags == /\ active' \in BOOLEAN /\ poll' \in BOOLEAN
                    /\ syncRefreshInFlight' \in BOOLEAN /\ syncRefreshDirsPending' \in BOOLEAN
           Ordered == /\ Orderly(work', syncRefreshInFlight', syncs', server')
                      /\ syncs' \in 0..MaxVersion /\ syncs' <= server'
           Loads == ~dirsLoadComplete' => \E w \in BagToSet(work') : w.kind = "dirs"
<1>1. /\ server \in 0..MaxVersion /\ faults \in 0..MaxFaults /\ clicks \in 0..MaxClicks
      /\ dirsLoadComplete \in BOOLEAN /\ dirs \in 0..MaxVersion
      /\ errors \in Seq(Message) /\ Len(errors) <= MaxErrors
      /\ active \in BOOLEAN /\ poll \in BOOLEAN
      /\ syncRefreshInFlight \in BOOLEAN /\ syncRefreshDirsPending \in BOOLEAN
      /\ Orderly(work, syncRefreshInFlight, syncs, server) /\ syncs \in 0..MaxVersion /\ syncs <= server
      /\ ~dirsLoadComplete => \E w \in BagToSet(work) : w.kind = "dirs"
  BY DEF DashboardInv, DashboardTypeOK, LoadingIsTrue
<1>2. ASSUME Counts, Shows, Flags, Ordered, Loads
      PROVE  DashboardInv'
  <2>1. {active', poll', syncRefreshInFlight', syncRefreshDirsPending', dirsLoadComplete'}
          \subseteq BOOLEAN
    BY <1>2
  <2>2. IsABag(work') /\ BagToSet(work') \subseteq Work
    BY <1>2 DEF Orderly
  <2> QED BY <1>2, <2>1, <2>2 DEF DashboardInv, DashboardTypeOK, LoadingIsTrue, Orderly, IsABag,
                                 BagToSet
<1>3. /\ MaxVersion \in Nat /\ MaxClicks \in Nat /\ MaxFaults \in Nat
  BY DashboardAssumption
<1>s. server \in Nat
  BY <1>1, <1>3
<1>4. CASE OnDismount \/ UNCHANGED vars
  BY <1>1, <1>2, <1>4 DEF OnDismount, vars
<1>5. CASE Poll
  <2>1. UNCHANGED <<server, faults, clicks, active, dirsLoadComplete, syncs, dirs, errors>>
    BY <1>5 DEF Poll
  <2>2. CASE StillPolling
    <3>1. refreshSyncs(work, TRUE) /\ UNCHANGED poll
      BY <1>5, <2>2 DEF Poll
    <3>2. /\ Orderly(work', syncRefreshInFlight', syncs, server)
          /\ syncRefreshInFlight' \in BOOLEAN /\ syncRefreshDirsPending' \in BOOLEAN
          /\ BagToSet(work) \subseteq BagToSet(work')
      BY <1>1, <3>1, <1>s, RefreshOrderly
    <3>3. Loads
      BY <1>1, <2>1, <3>2
    <3> QED BY <1>1, <1>2, <2>1, <3>1, <3>2, <3>3
  <2>3. CASE ~StillPolling
    <3>1. poll' = FALSE /\ UNCHANGED <<work, syncRefreshInFlight, syncRefreshDirsPending>>
      BY <1>5, <2>3 DEF Poll
    <3> QED BY <1>1, <1>2, <2>1, <3>1
  <2> QED BY <2>2, <2>3
<1>6. CASE ServerChanges
  <2>1. server + 1 \in 0..MaxVersion /\ syncs <= server + 1
    BY <1>1, <1>3, <1>6 DEF ServerChanges
  <2>2. \A w \in Work : w.version \in Nat
    BY <1>3 DEF Work
  <2>3. Orderly(work, syncRefreshInFlight, syncs, server + 1)
    BY <1>1, <1>s, <2>2 DEF Orderly
  <2> QED BY <1>1, <1>2, <1>6, <2>1, <2>3 DEF ServerChanges
<1>7. ASSUME NEW kind \in {"postAll", "postSyncs"}, Click(kind)
      PROVE  DashboardInv'
  <2>1. kind \in Kind \ Refresh
    BY DEF Kind, Refresh
  <2>2. work' = Async(work, kind)
        /\ UNCHANGED <<server, faults, active, poll, syncRefreshInFlight,
                       syncRefreshDirsPending, dirsLoadComplete, syncs, dirs, errors>>
    BY <1>7 DEF Click
  <2>3. Orderly(work', syncRefreshInFlight, syncs, server) /\ BagToSet(work) \subseteq BagToSet(work')
    BY <1>1, <2>1, <2>2, <1>s, AsyncOrderly
  <2>4. clicks' \in 0..MaxClicks
    BY <1>1, <1>3, <1>7 DEF Click
  <2> QED BY <1>1, <1>2, <2>2, <2>3, <2>4
<1>8. ASSUME NEW i \in 1..MaxErrors, dismissError(i)
      PROVE  DashboardInv'
  <2>1. errors' \in Seq(Message) /\ Len(errors') <= MaxErrors
    BY <1>1, <1>8, ErrorsDismissed DEF dismissError
  <2> QED BY <1>1, <1>2, <1>8, <2>1 DEF dismissError
<1>9. ASSUME NEW w \in BagToSet(work), Complete(w)
      PROVE  DashboardInv'
  <2>1. PICK result \in {"ok", "auth"} \cup Message : w.result = "waiting" /\ Finished(w, result)
    BY <1>9, decodeResponseTyped DEF Complete, Answer, TransportFails, Message
  <2>2. /\ faults' \in 0..MaxFaults
        /\ UNCHANGED <<server, clicks, active, poll, syncRefreshInFlight,
                       syncRefreshDirsPending, dirsLoadComplete, syncs, dirs, errors>>
    BY <1>1, <1>3, <1>9 DEF Complete, Answer, TransportFails
  <2>3. /\ Orderly(work', syncRefreshInFlight, syncs, server)
        /\ \A y \in BagToSet(work) : \E z \in BagToSet(work') : z.kind = y.kind
    BY <2>1, FinishedOrderly
  <2>4. Loads
    BY <1>1, <2>2, <2>3
  <2> QED BY <1>1, <1>2, <2>2, <2>3, <2>4
<1>10. ASSUME NEW w \in BagToSet(work)
       PROVE  /\ Orderly(Rest(w), syncRefreshInFlight, syncs, server)
              /\ w.kind \in Refresh => \A f, v : Orderly(Rest(w), f, v, server)
              /\ w.kind # "dirs" /\ ~dirsLoadComplete =>
                   \E x \in BagToSet(Rest(w)) : x.kind = "dirs"
              /\ w \in Work
  <2>1. w \in Work
    BY <1>1 DEF Orderly
  <2>2. BagToSet(work) \ {w} \subseteq BagToSet(Rest(w))
    BY BagOfRest
  <2>3. /\ Orderly(Rest(w), syncRefreshInFlight, syncs, server)
        /\ w.kind \in Refresh => \A f, v : Orderly(Rest(w), f, v, server)
    BY <1>1, OrderlyLess DEF Rest
  <2> QED BY <1>1, <2>1, <2>2, <2>3
<1>11. ASSUME NEW w \in BagToSet(work), ShowUser(w)
       PROVE  DashboardInv'
  <2>1. /\ w.result # "waiting" /\ w.kind = "user" /\ work' = Rest(w)
        /\ UNCHANGED <<server, faults, clicks, active, poll, syncRefreshInFlight,
                       syncRefreshDirsPending, dirsLoadComplete, syncs, dirs>>
    BY <1>11 DEF ShowUser, Arrived
  <2>2. errors' \in Seq(Message) /\ Len(errors') <= MaxErrors
    BY <1>1, <1>10, <1>11, <2>1, ErrorHandled DEF ShowUser, DashboardInv
  <2> QED BY <1>1, <1>2, <1>10, <2>1, <2>2
<1>12. ASSUME NEW w \in BagToSet(work), ShowDirs(w)
       PROVE  DashboardInv'
  <2>1. /\ w.result # "waiting" /\ work' = Rest(w) /\ dirsLoadComplete' = TRUE
        /\ UNCHANGED <<server, faults, clicks, active, poll, syncRefreshInFlight,
                       syncRefreshDirsPending, syncs>>
    BY <1>12 DEF ShowDirs, Arrived, LoadComplete
  <2>2. dirs' \in 0..MaxVersion
    BY <1>1, <1>10, <1>12 DEF ShowDirs, Work
  <2>3. errors' \in Seq(Message) /\ Len(errors') <= MaxErrors
    BY <1>1, <1>10, <1>12, <2>1, ErrorHandled DEF ShowDirs, DashboardInv
  <2> QED BY <1>1, <1>2, <1>10, <2>1, <2>2, <2>3
<1>13. ASSUME NEW w \in BagToSet(work), ShowSyncs(w)
       PROVE  DashboardInv'
  <2>1. /\ w.result # "waiting" /\ w.kind \in Refresh /\ w.kind # "dirs"
        /\ syncRefreshInFlight' = FALSE /\ syncRefreshDirsPending' = FALSE
        /\ UNCHANGED <<server, faults, clicks, active, poll, dirsLoadComplete, dirs>>
    BY <1>13 DEF ShowSyncs, Arrived, FlightOver, Refresh
  <2>2. syncs' \in 0..MaxVersion /\ syncs' <= server
    BY <1>1, <1>10, <1>13 DEF ShowSyncs, Work, Orderly
  <2>3. errors' \in Seq(Message) /\ Len(errors') <= MaxErrors
    BY <1>1, <1>10, <1>13, <2>1, ErrorHandled DEF ShowSyncs, DashboardInv
  <2>4. Orderly(Rest(w), FALSE, syncs', server)
    BY <1>10, <2>1
  <2>5. work' = Rest(w) \/ work' = Async(Rest(w), "dirs")
    BY <1>13 DEF ShowSyncs
  <2>6. Orderly(work', FALSE, syncs', server) /\ BagToSet(Rest(w)) \subseteq BagToSet(work')
    <3>1. "dirs" \in Kind \ Refresh
      BY DEF Kind, Refresh
    <3>2. CASE work' = Rest(w)
      BY <2>4, <3>2
    <3>3. CASE work' = Async(Rest(w), "dirs")
      BY <2>4, <3>1, <3>3, <1>s, AsyncOrderly
    <3> QED BY <2>5, <3>2, <3>3
  <2>7. Loads
    BY <1>10, <2>1, <2>6
  <2> QED BY <1>1, <1>2, <2>1, <2>2, <2>3, <2>6, <2>7
<1>14. ASSUME NEW w \in BagToSet(work), PostDone(w)
       PROVE  DashboardInv'
  <2>1. /\ w.result # "waiting" /\ w.kind \in {"postAll", "postSyncs"} /\ w.kind # "dirs"
        /\ UNCHANGED <<server, faults, clicks, active, poll, dirsLoadComplete, syncs, dirs>>
    BY <1>14 DEF PostDone, Arrived
  <2>2. errors' \in Seq(Message) /\ Len(errors') <= MaxErrors
    BY <1>1, <1>10, <1>14, <2>1, ErrorHandled DEF PostDone, DashboardInv
  <2>3. Orderly(Rest(w), syncRefreshInFlight, syncs, server)
    BY <1>10
  <2>4. CASE w.result = "ok" /\ w.kind = "postSyncs"
    <3>1. refreshSyncs(Rest(w), FALSE)
      BY <1>14, <2>4 DEF PostDone
    <3>2. /\ Orderly(work', syncRefreshInFlight', syncs, server)
          /\ syncRefreshInFlight' \in BOOLEAN /\ syncRefreshDirsPending' \in BOOLEAN
          /\ BagToSet(Rest(w)) \subseteq BagToSet(work')
      BY <1>1, <2>3, <3>1, <1>s, RefreshOrderly
    <3>3. Loads
      BY <1>10, <2>1, <3>2
    <3> QED BY <1>1, <1>2, <2>1, <2>2, <3>2, <3>3
  <2>5. CASE w.result = "ok" /\ w.kind = "postAll"
    <3> DEFINE b == Async(Async(Rest(w), "user"), "dirs")
    <3>1. "user" \in Kind \ Refresh /\ "dirs" \in Kind \ Refresh
      BY DEF Kind, Refresh
    <3>2. /\ Orderly(Async(Rest(w), "user"), syncRefreshInFlight, syncs, server)
          /\ BagToSet(Rest(w)) \subseteq BagToSet(Async(Rest(w), "user"))
      BY <2>3, <3>1, <1>s, AsyncOrderly
    <3>3. /\ Orderly(b, syncRefreshInFlight, syncs, server)
          /\ BagToSet(Async(Rest(w), "user")) \subseteq BagToSet(b)
      BY <3>1, <3>2, <1>s, AsyncOrderly
    <3>4. refreshSyncs(b, FALSE)
      BY <1>14, <2>5 DEF PostDone, refreshAll
    <3> HIDE DEF b
    <3>5. /\ Orderly(work', syncRefreshInFlight', syncs, server)
          /\ syncRefreshInFlight' \in BOOLEAN /\ syncRefreshDirsPending' \in BOOLEAN
          /\ BagToSet(b) \subseteq BagToSet(work')
      BY <1>1, <3>3, <3>4, <1>s, RefreshOrderly
    <3>6. Loads
      BY <1>10, <2>1, <3>2, <3>3, <3>5
    <3> QED BY <1>1, <1>2, <2>1, <2>2, <3>5, <3>6
  <2>6. CASE w.result # "ok"
    <3>1. work' = Rest(w) /\ UNCHANGED <<syncRefreshInFlight, syncRefreshDirsPending>>
      BY <1>14, <2>6 DEF PostDone
    <3>2. Loads
      BY <1>10, <2>1, <3>1
    <3> QED BY <1>1, <1>2, <2>1, <2>2, <2>3, <3>1, <3>2
  <2> QED BY <2>1, <2>4, <2>5, <2>6
<1> QED BY <1>4, <1>5, <1>6, <1>7, <1>8, <1>9, <1>11, <1>12, <1>13, <1>14 DEF Next, Dispatch

(* The invariant holds when the page is opened.                            *)
LEMMA DashboardInvInit == Init => DashboardInv
<1> SUFFICES ASSUME Init PROVE DashboardInv
  OBVIOUS
<1>1. MaxVersion \in Nat /\ MaxClicks \in Nat /\ MaxFaults \in Nat /\ MaxErrors \in Nat
  BY DashboardAssumption
<1>0. MaxVersion # 0
  BY DashboardAssumption
<1>2. 0 \in 0..MaxVersion /\ 1 \in 0..MaxVersion /\ 0 \in 0..MaxClicks /\ 0 \in 0..MaxFaults
  BY <1>0, <1>1
<1>i. /\ server = 1 /\ faults = 0 /\ clicks = 0 /\ syncs = 0 /\ dirs = 0 /\ errors = <<>>
      /\ active = TRUE /\ poll = TRUE /\ syncRefreshInFlight = TRUE
      /\ syncRefreshDirsPending = FALSE /\ dirsLoadComplete = FALSE
  BY DEF Init
<1>3. work = SetToBag({Asked("user"), Asked("dirs"), Asked("syncs")})
  BY DEF Init
<1>4. IsABag(work) /\ BagToSet(work) = {Asked("user"), Asked("dirs"), Asked("syncs")}
      /\ \A w \in BagToSet(work) : work[w] = 1
  BY <1>3 DEF IsABag, BagToSet, SetToBag
<1>5. \A w \in BagToSet(work) : w \in Work /\ w.result # "ok" /\ w.version = 0
                                /\ (w.kind \in Refresh => w = Asked("syncs"))
  <2>1. "user" \in Kind \ Refresh /\ "dirs" \in Kind \ Refresh /\ "syncs" \in Kind
    BY DEF Kind, Refresh
  <2> QED BY <1>4, <2>1, AskedTyped
<1>6. Orderly(work, syncRefreshInFlight, syncs, server)
  BY <1>i, <1>4, <1>5 DEF Orderly
<1>7. \E w \in BagToSet(work) : w.kind = "dirs"
  BY <1>4, AskedTyped DEF Kind
<1>8. errors \in Seq(Message) /\ Len(errors) <= MaxErrors
  BY <1>i, <1>1
<1>9. {active, poll, syncRefreshInFlight, syncRefreshDirsPending, dirsLoadComplete}
        \subseteq BOOLEAN
  BY <1>i
<1>10. /\ server \in 0..MaxVersion /\ faults \in 0..MaxFaults /\ clicks \in 0..MaxClicks
       /\ {syncs, dirs} \subseteq 0..MaxVersion /\ syncs <= server
  BY <1>i, <1>2
<1>11. BagToSet(work) \subseteq Work /\ IsABag(work)
  BY <1>4, <1>5
<1>12. DashboardTypeOK
  BY <1>8, <1>9, <1>10, <1>11 DEF DashboardTypeOK
<1> QED BY <1>6, <1>7, <1>10, <1>12 DEF DashboardInv, LoadingIsTrue

(* The invariant holds however polls, clicks, answers and failures mix.    *)
THEOREM DashboardInvariant == Spec => []DashboardInv
BY DashboardInvInit, DashboardInvStep, PTL DEF Spec

(* No more than MaxErrors messages are shown, whatever fails.              *)
THEOREM DashboardTypeCorrect == Spec => []DashboardTypeOK
<1>1. DashboardInv => DashboardTypeOK
  BY DEF DashboardInv
<1> QED BY <1>1, DashboardInvariant, PTL

(* The list of syncs never goes back, and "Loading" is shown only while a  *)
(* listing is on its way.                                                  *)
THEOREM ShownNeverGoesBack == Spec => ShownIsTrue
<1>1. DashboardInv /\ [Next]_vars => [SyncsNeverRegress]_vars
  <2> SUFFICES ASSUME DashboardInv, Next
               PROVE  SyncsNeverRegress
    OBVIOUS
  <2>1. syncs \in 0..MaxVersion /\ MaxVersion \in Nat
    BY DashboardAssumption DEF DashboardInv, DashboardTypeOK
  <2>2. ASSUME NEW w \in BagToSet(work), ShowSyncs(w), w.result = "ok"
        PROVE  syncs' >= syncs
    <3>1. syncs' = w.version /\ w.kind \in Refresh
      BY <2>2 DEF ShowSyncs, Arrived, Refresh
    <3>2. syncs <= w.version /\ w \in Work
      BY <2>2, <3>1 DEF DashboardInv, Orderly
    <3> QED BY <2>1, <3>1, <3>2 DEF Work
  <2>3. CASE syncs' = syncs
    BY <2>1, <2>3 DEF SyncsNeverRegress
  <2> QED BY <2>2, <2>3
          DEF Next, OnDismount, Poll, ServerChanges, Click, dismissError, Complete, Answer,
              TransportFails, Dispatch, ShowUser, ShowDirs, ShowSyncs, PostDone,
              SyncsNeverRegress
<1>2. DashboardInv' => LoadingIsTrue'
  BY DEF DashboardInv
<1> QED BY <1>1, <1>2, DashboardInvariant, PTL DEF Spec, ShownIsTrue
=============================================================================
