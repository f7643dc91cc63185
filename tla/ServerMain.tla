------------------------------ MODULE ServerMain ------------------------------
(***************************************************************************)
(* main.go: from the configuration to a listening server, its requests,    *)
(* and the end: SIGTERM or SIGINT cancels what listings wait for, and      *)
(* Shutdown gives the requests under way ten seconds.                      *)
(***************************************************************************)
EXTENDS Naturals, FiniteSets

CONSTANTS Request,
          GraceTTL,     \* 10 s: the context of Shutdown
          KillTTL,      \* what ends a listing once its context is done
          ListTTL       \* 45 s: remoteCommandTimeout

ASSUME MainAssumption ==
  /\ {GraceTTL, KillTTL, ListTTL} \subseteq Nat
  /\ KillTTL < GraceTTL /\ KillTTL <= ListTTL

VARIABLES settings,     \* settings[k]: "", "blank" (only spaces) or "set"
          main,         \* where main is, or how the process ended
          auth,         \* there is an OIDCAuth, and /api/ goes through it
          quit,         \* the signal's context is done
          grace,        \* seconds Shutdown still waits
          kind,         \* kind[r]: "list" or "work"
          handler,      \* handler[r]: "none", "run", "answered", "refused" or "cut"
          left          \* left[r]: seconds a listing can still take; others have no limit

mainVars == <<settings, main, auth, quit, grace, kind, handler, left>>

OIDCSwitch == {"issuer", "client", "secret"}
OIDCNeeded == OIDCSwitch \cup {"clientSecret"}
(* Client ID and redirect address are one, so are the others testConfig    *)
(* asks for, and the MQTT settings.                                        *)
Key == OIDCNeeded \cup {"remote", "mqtt", "worker"}

MainTypeOK ==
  /\ settings \in [Key -> {"", "blank", "set"}]
  /\ main \in {"load", "store", "serve", "shutdown", "worker", "exit0", "exit1"}
  /\ auth \in BOOLEAN /\ quit \in BOOLEAN /\ grace \in 0..GraceTTL
  /\ kind \in [Request -> {"list", "work"}]
  /\ handler \in [Request -> {"none", "run", "answered", "refused", "cut"}]
  /\ left \in [Request -> 0..ListTTL]
  /\ main = "shutdown" => quit

MainInit ==
  /\ settings \in [Key -> {"", "blank", "set"}]
  /\ main = "load" /\ auth = FALSE /\ quit = FALSE /\ grace = 0
  /\ kind \in [Request -> {"list", "work"}]
  /\ handler = [r \in Request |-> "none"]
  /\ left = [r \in Request |-> 0]

(* The process is over, and requests under way with it.                    *)
ExitWith(code) ==
  /\ main' = code
  /\ handler' = [r \in Request |-> IF handler[r] = "run" THEN "cut" ELSE handler[r]]
  /\ UNCHANGED <<settings, auth, quit, grace, kind, left>>

-----------------------------------------------------------------------------
(* It looks neither at the client secret nor at the allowed addresses.     *)
oidcEnabled == \E k \in OIDCSwitch : settings[k] = "set"

(* Required settings are there; of MQTT's, "blank" stands for an invalid   *)
(* broker or topic.                                                        *)
testConfig ==
  /\ settings["mqtt"] # "blank" /\ settings["remote"] # ""
  /\ oidcEnabled => \A k \in OIDCNeeded : settings[k] # ""

CheckConfig ==
  /\ main = "load"
  /\ IF testConfig
     THEN /\ main' = "store"
          /\ UNCHANGED <<settings, auth, quit, grace, kind, handler, left>>
     ELSE ExitWith("exit1")

(* Flags or log level cannot be read, Redis or the provider cannot be      *)
(* reached, the files cannot be indexed.                                   *)
StartFails == main \in {"load", "store"} /\ ExitWith("exit1")

RunWorker ==
  /\ main = "store" /\ settings["worker"] # ""
  /\ main' = "worker"
  /\ UNCHANGED <<settings, auth, quit, grace, kind, handler, left>>

(* runSyncWorker returns, which module SyncWorker is about.                *)
WorkerReturns == main = "worker" /\ (ExitWith("exit0") \/ ExitWith("exit1"))

(* Discovery fails without an issuer.                                      *)
Serve ==
  /\ main = "store" /\ settings["worker"] = ""
  /\ oidcEnabled => settings["issuer"] = "set"
  /\ main' = "serve" /\ auth' = oidcEnabled
  /\ UNCHANGED <<settings, quit, grace, kind, handler, left>>

-----------------------------------------------------------------------------
(* Mutant: a listing looks only at its own request.                        *)
remoteRequestContextMutant(r) == ListTTL

(* How long a listing goes on if it begins now.                            *)
remoteRequestContext(r) == IF quit THEN KillTTL ELSE ListTTL

Accept(r) ==
  /\ main = "serve" /\ handler[r] = "none"
  /\ handler' = [handler EXCEPT ![r] = "run"]
  /\ left' = [left EXCEPT ![r] = IF kind[r] = "list" THEN remoteRequestContext(r) ELSE 0]
  /\ UNCHANGED <<settings, main, auth, quit, grace, kind>>

(* Every handler answers, errors by way of customHTTPErrorHandler.         *)
Answer(r) ==
  /\ handler[r] = "run"
  /\ handler' = [handler EXCEPT ![r] = "answered"]
  /\ UNCHANGED <<settings, main, auth, quit, grace, kind, left>>

(* The listener is closed.                                                 *)
Refuse(r) ==
  /\ main \in {"shutdown", "exit0", "exit1"} /\ handler[r] = "none"
  /\ handler' = [handler EXCEPT ![r] = "refused"]
  /\ UNCHANGED <<settings, main, auth, quit, grace, kind, left>>

(* SIGTERM or SIGINT: listings are cancelled at once.                      *)
Signal ==
  /\ main \in {"load", "store", "serve", "worker"} /\ ~quit
  /\ quit' = TRUE
  /\ left' = [r \in Request |->
                IF /\ handler[r] = "run" /\ kind[r] = "list"
                   /\ remoteRequestContext(r)' < left[r]
                THEN remoteRequestContext(r)' ELSE left[r]]
  /\ UNCHANGED <<settings, main, auth, grace, kind, handler>>

(* The port is taken, or the listener breaks.                              *)
ListenFails == main = "serve" /\ ExitWith("exit1")

Shutdown ==
  /\ main = "serve" /\ quit
  /\ main' = "shutdown" /\ grace' = GraceTTL
  /\ UNCHANGED <<settings, auth, quit, kind, handler, left>>

Running == {r \in Request : handler[r] = "run"}

(* Mutant: the error of Shutdown is dropped.                               *)
ShutdownErrMutant == "exit0"

ShutdownErr == IF Running = {} THEN "exit0" ELSE "exit1"

(* Shutdown returns when no request is under way, or its time is over.     *)
ShutdownReturns ==
  /\ main = "shutdown"
  /\ Running = {} \/ grace = 0
  /\ ExitWith(ShutdownErr)

(* Time does not pass a deadline, nor main between the signal and Shutdown.*)
MainSecond ==
  /\ main = "serve" => ~quit
  /\ main = "shutdown" => grace > 0 /\ Running # {}
  /\ main \in {"serve", "shutdown"}
  /\ \A r \in Running : kind[r] = "list" => left[r] > 0
  /\ grace' = IF main = "shutdown" THEN grace - 1 ELSE grace
  /\ left' = [r \in Request |-> IF r \in Running /\ kind[r] = "list" THEN left[r] - 1
                                ELSE left[r]]
  /\ UNCHANGED <<settings, main, auth, quit, kind, handler>>

MainNext ==
  \/ CheckConfig \/ StartFails \/ RunWorker \/ WorkerReturns \/ Serve
  \/ \E r \in Request : Accept(r) \/ Answer(r) \/ Refuse(r)
  \/ Signal \/ ListenFails \/ Shutdown \/ ShutdownReturns \/ MainSecond

MainSpec == MainInit /\ [][MainNext]_mainVars

-----------------------------------------------------------------------------
(* An exit code of 0 means that every request that was accepted has been   *)
(* answered.                                                               *)
ZeroMeansAnswered ==
  main = "exit0" => \A r \in Request : handler[r] # "cut"

(* A listing may take 45 seconds, Shutdown waits for ten: listings alone   *)
(* never make it fail, because the signal ends them.                       *)
ListingsYield ==
  main = "shutdown" => \A r \in Request : kind[r] = "list" => handler'[r] # "cut"

(* Shutdown is graceful: nobody's request is cut off in silence, and none  *)
(* that could have been brought to an end is cut off at all.               *)
ShutdownIsGraceful == [][ZeroMeansAnswered' /\ ListingsYield]_mainVars
=============================================================================
