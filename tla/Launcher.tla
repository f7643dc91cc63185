------------------------------- MODULE Launcher -------------------------------
(***************************************************************************)
(* worker_launcher.go: one call of launchSyncWorker, which starts a local  *)
(* process or, in a cluster, creates a Job made after the server's own     *)
(* pod.  An API request may be answered, refused or lost; one that timed   *)
(* out may still be carried out.                                           *)
(***************************************************************************)
EXTENDS Integers, Sequences, SequencesExt, FiniteSets

CONSTANTS Id,           \* the sync to start
          ServerArgs,   \* command lines the server may have been started with
          Pods,         \* what the API may say of the server's pod
          ContainerName \* values of KubernetesContainer; "" for none

VARIABLES args,         \* os.Args[1:]
          host,         \* KUBERNETES_SERVICE_HOST: "unset", "empty" or "set"
          container,    \* config.KubernetesContainer
          pod,
          pc,           \* where the call is: a step, or what it returned
          post,         \* what became of the request to create the Job
          job,          \* the Job asked for
          jobs,         \* Jobs created
          procs         \* local workers, by their command lines

launcherVars == <<args, host, container, pod, pc, post, job, jobs, procs>>

ASSUME LauncherAssumption ==
  \A p \in Pods : p.containers \in Seq(Range(p.containers))

(* A flag without a value of its own is followed by one that looks like no *)
(* flag: syncWorkerArgs goes by the looks of an argument.                  *)
ASSUME ArgsAssumption ==
  /\ Id # ""
  /\ \A a \in ServerArgs :
       /\ a \in Seq(Range(a))
       /\ \A i \in DOMAIN a : a[i].kind = "flag" /\ a[i].value = "" =>
            i + 1 \in DOMAIN a /\ a[i + 1].kind = "word"

NoJob == [app |-> <<>>]

LauncherTypeOK ==
  /\ args \in ServerArgs /\ pod \in Pods /\ container \in ContainerName
  /\ host \in {"unset", "empty", "set"}
  /\ pc \in {"start", "account", "get", "post", "ok", "error"}
  /\ post \in {"none", "sent", "created", "refused"}
  /\ \A j \in Range(jobs) : Len(j.app) = 1

LauncherInit ==
  /\ args \in ServerArgs /\ pod \in Pods /\ container \in ContainerName
  /\ host \in {"unset", "empty", "set"}
  /\ pc = "start" /\ post = "none" /\ job = NoJob
  /\ jobs = <<>> /\ procs = <<>>

LaunchReturns(v) == pc' = v /\ UNCHANGED <<args, host, container, pod>>

-----------------------------------------------------------------------------
(* Arguments: a flag with its value after "=", or "" if that is the next   *)
(* argument; a word; or "--".                                              *)
Flag(k, v) == [kind |-> "flag", key |-> k, value |-> v]
Word(w) == [kind |-> "word", key |-> w, value |-> ""]
End == [kind |-> "end", key |-> "--", value |-> ""]

WorkerKey == {"sync_worker", "sync-worker"}

(* Mutant: the value of a flag that is dropped stays.                      *)
NextKeptMutant(a, i) == i + 1

NextKept(a, i) == IF a[i].value = "" THEN i + 2 ELSE i + 1

(* What is kept of the arguments from the i-th on.                         *)
KeptFrom(a) ==
  LET rest[i \in 1..(Len(a) + 2)] ==
        IF i > Len(a) THEN <<>>
        ELSE IF a[i].kind = "end" THEN SubSeq(a, i, Len(a))
        ELSE IF a[i].kind = "flag" /\ a[i].key \in WorkerKey THEN rest[NextKept(a, i)]
        ELSE <<a[i]>> \o rest[i + 1]
  IN  rest

syncWorkerArgs(a) == <<Flag("sync_worker", Id)>> \o KeptFrom(a)[1]

(* What confita's flags make of the arguments from the i-th on, up to the  *)
(* first that is no flag: the value of k, or none.  Later ones override.   *)
Override(later, arg, k, v) == IF later = {} /\ arg.key = k THEN {v} ELSE later

SettingFrom(a, k) ==
  LET from[i \in 1..(Len(a) + 2)] ==
        IF i > Len(a) THEN {}
        ELSE IF a[i].kind # "flag" THEN {}
        ELSE IF a[i].value # "" THEN Override(from[i + 1], a[i], k, a[i].value)
        ELSE IF i = Len(a) THEN {}
        ELSE Override(from[i + 2], a[i], k, a[i + 1].key)
  IN  from

Setting(a, k) == SettingFrom(a, k)[1]

-----------------------------------------------------------------------------
(* The Job: one container, the server's without what only a server needs.  *)
ServerOnly == {"livenessProbe", "readinessProbe", "startupProbe", "lifecycle", "ports"}
PodOnly == {"nodeName", "hostname", "subdomain", "ephemeralContainers"}

(* Mutant: the first container will do.                                    *)
AppMutant(n) == n = 1

App(n) == \/ container = "" /\ Len(pod.containers) = 1
          \/ container # "" /\ pod.containers[n].name = container

syncWorkerJob ==
  LET chosen == {n \in DOMAIN pod.containers : App(n)}
      c == pod.containers[CHOOSE n \in chosen : \A m \in chosen : m <= n]
  IN  IF chosen = {} THEN NoJob
      ELSE [app |-> <<[name |-> c.name, fields |-> c.fields \ ServerOnly,
                       args |-> syncWorkerArgs(args)]>>,
            fields |-> pod.fields \ PodOnly]

-----------------------------------------------------------------------------
(* Mutant: without an API server the worker is started here.               *)
LocalMutant == pc = "start" /\ host # "set"

Local == pc = "start" /\ host = "unset"

(* The request's context is done, or a step before exec fails.             *)
LocalFails ==
  Local /\ LaunchReturns("error") /\ UNCHANGED <<post, job, jobs, procs>>

StartProcess ==
  /\ Local /\ LaunchReturns("ok")
  /\ procs' = Append(procs, syncWorkerArgs(args))
  /\ UNCHANGED <<post, job, jobs>>

launchInClusterSyncWorker ==
  /\ pc = "start" /\ host # "unset"
  /\ LaunchReturns("error") \/ (host = "set" /\ LaunchReturns("account"))
  /\ UNCHANGED <<post, job, jobs, procs>>

(* Token, namespace, CA and pod name are there, or not.                    *)
ReadAccount ==
  /\ pc = "account"
  /\ LaunchReturns("error") \/ LaunchReturns("get")
  /\ UNCHANGED <<post, job, jobs, procs>>

Selected == syncWorkerJob # NoJob

GetPod ==
  /\ pc = "get"
  /\ \/ /\ Selected /\ LaunchReturns("post")
        /\ post' = "sent" /\ job' = syncWorkerJob
     \/ LaunchReturns("error") /\ UNCHANGED <<post, job>>
  /\ UNCHANGED <<jobs, procs>>

(* The API server, whether or not anyone still waits.                      *)
APIServer ==
  /\ post = "sent"
  /\ \/ post' = "created" /\ jobs' = Append(jobs, job)
     \/ post' = "refused" /\ UNCHANGED jobs
  /\ UNCHANGED <<args, host, container, pod, pc, job, procs>>

(* Mutant: an answer is an answer.                                         *)
StatusOKMutant == TRUE

StatusOK == post = "created"

(* syncWorkerAPIRequest for the POST, which is sent once.                  *)
PostAnswered ==
  /\ pc = "post" /\ post # "sent"
  /\ LaunchReturns(IF StatusOK THEN "ok" ELSE "error")
  /\ UNCHANGED <<post, job, jobs, procs>>

(* 30 seconds are over, the context is done or the connection breaks.      *)
PostFails ==
  /\ pc = "post" /\ LaunchReturns("error")
  /\ UNCHANGED <<post, job, jobs, procs>>

LauncherNext ==
  \/ LocalFails \/ StartProcess
  \/ launchInClusterSyncWorker \/ ReadAccount \/ GetPod
  \/ APIServer \/ PostAnswered \/ PostFails

LauncherSpec == LauncherInit /\ [][LauncherNext]_launcherVars

-----------------------------------------------------------------------------
(* The launcher keeps the promise SyncSystem is built on: one worker at    *)
(* most, and success only for one that was started, however requests fail. *)
Promise == INSTANCE WorkerLaunch
  WITH started <- Len(jobs) + Len(procs),
       outcome <- IF pc \in {"ok", "error"} THEN pc ELSE "none"

KeepsPromise == Promise!Spec

(* "Kubernetes API errors are surfaced, not silently downgraded to local   *)
(* execution" (README): no local worker where there is a cluster, also     *)
(* when its settings are broken.                                           *)
NotDowngraded == host # "unset" => procs = <<>>

(* Every worker reads from its command line what the server reads from its *)
(* own, but for the sync it is to run: no setting is lost, changed or      *)
(* shadowed, wherever flags and their values stand.                        *)
Configured(a) ==
  /\ Setting(a, "sync_worker") = {Id}
  /\ \A k \in {args[n].key : n \in DOMAIN args} \ WorkerKey :
       Setting(a, k) = Setting(args, k)

WorkersConfigured ==
  /\ \A n \in DOMAIN procs : Configured(procs[n])
  /\ \A n \in DOMAIN jobs : Configured(jobs[n].app[1].args)

(* "Jobs reuse the application container's image, environment, mounts, ... *)
(* Health probes and web ports are removed" (README): the Job runs the     *)
(* configured container and no other, with all it has but what would make  *)
(* Kubernetes probe it or send it requests.                                *)
JobIsTheApplication ==
  \A n \in DOMAIN jobs : \E c \in Range(pod.containers) :
    LET app == jobs[n].app[1] IN
    /\ container = "" => Len(pod.containers) = 1
    /\ container # "" => app.name = container
    /\ app.name = c.name
    /\ app.fields = c.fields \ ServerOnly
    /\ jobs[n].fields = pod.fields \ PodOnly

(* What starts is the application itself, where it should run, as it was   *)
(* configured, and told to be the worker of this one sync.                 *)
WorkerIsApplication == NotDowngraded /\ WorkersConfigured /\ JobIsTheApplication
=============================================================================
