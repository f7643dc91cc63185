------------------------------- MODULE Notifier -------------------------------
(***************************************************************************)
(* sync_notifications.go: the notifier of one process, which calls Notify  *)
(* for one event after the other and Close in the end.  The MQTT client    *)
(* works in the background: a connection attempt or a message the caller   *)
(* has given up waiting for goes on, messages leave in order, and a broken *)
(* connection loses those that were waiting.                               *)
(***************************************************************************)
EXTENDS Naturals, Sequences, SequencesExt

CONSTANTS Events,       \* the events of a process, in order
          Timeout,      \* 5 s: mqttNotificationTimeout
          MaxLost       \* connections that break

ASSUME NotifierAssumption ==
  /\ Timeout \in Nat \ {0} /\ MaxLost \in Nat
  /\ Events \in Seq(ToSet(Events)) /\ IsInjective(Events)

VARIABLES next,         \* the event Notify is called with next
          call,         \* where the caller is
          due,          \* seconds WaitTimeout still waits
          took,         \* seconds this Notify has taken
          client,       \* the MQTT client
          tried,        \* the token of Connect: "none", "wait", "ok" or "failed"
          outbox,       \* messages on their way to the broker
          acked,        \* events the broker has acknowledged
          broker,       \* events the broker has received
          result,       \* result[n]: how Notify ended
          lost

notifierVars == <<next, call, due, took, client, tried, outbox, acked, broker, result, lost>>

caller == <<next, call, due, took, result>>
mqtt == <<client, tried, outbox, acked, broker, lost>>

NotifierTypeOK ==
  /\ next \in 1..(Len(Events) + 1)
  /\ call \in {"idle", "connect", "publish", "closed"}
  /\ due \in 0..Timeout
  /\ client \in {"down", "connecting", "up"}
  /\ tried \in {"none", "wait", "ok", "failed"}
  /\ (call = "connect") => (tried # "none")
  /\ \A seq \in {outbox, broker} : ToSet(seq) \subseteq ToSet(Events)
  /\ acked \subseteq ToSet(broker)
  /\ result \in [DOMAIN Events -> {"none", "sent", "connect", "publish"}]

NotifierInit ==
  /\ next = 1 /\ call = "idle" /\ due = 0 /\ took = 0
  /\ client = "down" /\ tried = "none" /\ outbox = <<>> /\ acked = {} /\ broker = <<>>
  /\ result = [n \in DOMAIN Events |-> "none"]
  /\ lost = 0

-----------------------------------------------------------------------------
NotifyReturns(v) ==
  /\ result' = [result EXCEPT ![next] = v]
  /\ next' = next + 1 /\ call' = "idle" /\ due' = 0

(* Publish refuses a message when there is no connection (any more).       *)
PublishNow ==
  /\ call' = "publish" /\ due' = Timeout
  /\ outbox' = IF client = "up" THEN Append(outbox, Events[next]) ELSE outbox
  /\ UNCHANGED <<next, result>>

(* publish: a client that is still connecting refuses to connect again.    *)
Notify ==
  /\ call = "idle" /\ next \in DOMAIN Events
  /\ took' = 0
  /\ \/ client = "up" /\ PublishNow /\ UNCHANGED <<client, tried>>
     \/ /\ client = "down"
        /\ client' = "connecting" /\ tried' = "wait"
        /\ call' = "connect" /\ due' = Timeout
        /\ UNCHANGED <<next, result, outbox>>
     \/ client = "connecting" /\ NotifyReturns("connect") /\ UNCHANGED <<client, tried, outbox>>
  /\ UNCHANGED <<acked, broker, lost>>

(* Mutant: the message is left with the client for when it is connected.   *)
ConnectFailedMutant == NotifyReturns("connect") /\ outbox' = Append(outbox, Events[next])

ConnectFailed == NotifyReturns("connect") /\ UNCHANGED outbox

(* waitMQTTToken of Connect: what the token says, or that time is over.    *)
ConnectReturns ==
  /\ call = "connect"
  /\ \/ tried = "ok" /\ PublishNow
     \/ tried = "failed" /\ ConnectFailed
     \/ tried = "wait" /\ due = 0 /\ ConnectFailed
  /\ UNCHANGED <<took, client, tried, acked, broker, lost>>

(* The token is done when the broker has acknowledged the message (QoS 1), *)
(* or with an error when the connection breaks.                            *)
(* Mutant: QoS 0, done when the message was handed to the network.         *)
TokenDoneMutant == Events[next] \in acked \/ Events[next] \in ToSet(outbox)

TokenDone == Events[next] \in acked

(* Mutant: the caller waits for the token however long it takes.           *)
GivesUpMutant == FALSE

GivesUp == due = 0

PublishReturns ==
  /\ call = "publish"
  /\ \/ TokenDone /\ NotifyReturns("sent")
     \/ ~TokenDone /\ (client # "up" \/ GivesUp) /\ NotifyReturns("publish")
  /\ UNCHANGED <<took, mqtt>>

(* Disconnect: what is on its way may still arrive in those 250 ms.        *)
Close ==
  /\ call = "idle" /\ next > Len(Events)
  /\ call' = "closed"
  /\ client' = "down" /\ outbox' = <<>>
  /\ UNCHANGED <<next, due, took, result, tried, acked, broker, lost>>

-----------------------------------------------------------------------------
(* The client and the broker, as fast or as slow as they like.             *)
ConnectEnds ==
  /\ client = "connecting"
  /\ \/ client' = "up" /\ tried' = "ok"
     \/ client' = "down" /\ tried' = "failed"
  /\ UNCHANGED <<caller, outbox, acked, broker, lost>>

BrokerReceives ==
  /\ client = "up" /\ outbox # <<>>
  /\ outbox' = Tail(outbox)
  /\ broker' = Append(broker, Head(outbox))
  /\ UNCHANGED <<caller, client, tried, acked, lost>>

AckArrives ==
  /\ client = "up" /\ \E e \in ToSet(broker) \ acked : acked' = acked \cup {e}
  /\ UNCHANGED <<caller, client, tried, outbox, broker, lost>>

ConnectionLost ==
  /\ client = "up" /\ lost < MaxLost
  /\ client' = "down" /\ outbox' = <<>> /\ lost' = lost + 1
  /\ UNCHANGED <<caller, tried, acked, broker>>

Waiting == call \in {"connect", "publish"}

(* A caller whose time is over goes on before time does.                   *)
NotifierSecond ==
  /\ Waiting
  /\ due = 0 => call = "publish" /\ ~GivesUp
  /\ due' = IF due = 0 THEN 0 ELSE due - 1
  /\ took' = took + 1 /\ took < 3 * Timeout
  /\ UNCHANGED <<next, call, result, mqtt>>

NotifierNext ==
  \/ Notify \/ ConnectReturns \/ PublishReturns \/ Close
  \/ ConnectEnds \/ BrokerReceives \/ AckArrives \/ ConnectionLost \/ NotifierSecond

NotifierSpec == NotifierInit /\ [][NotifierNext]_notifierVars

-----------------------------------------------------------------------------
(* "connection and publish operations have five-second timeouts" (README): *)
(* no Notify takes longer than the two of them, whatever the broker does.  *)
NotifyBounded == took <= 2 * Timeout

(* An event that Notify did not complain about is with the broker, and     *)
(* stays so when the process closes the client at once.                    *)
SentIsReceived ==
  \A n \in DOMAIN Events : result[n] = "sent" => Events[n] \in ToSet(broker)

(* "Events are not queued for later replay" (README): one that failed for  *)
(* want of a connection never turns up behind its successors.              *)
NoReplay ==
  \A n \in DOMAIN Events : result[n] = "connect" => Events[n] \notin ToSet(broker)

(* Notifications are best effort (README), and keep within that: they hold *)
(* a sync up for a bounded time, what they say was sent was, and what they *)
(* could not connect for is never replayed.  One whose publication timed   *)
(* out may still arrive.                                                   *)
BestEffort == NotifyBounded /\ SentIsReceived /\ NoReplay
=============================================================================
