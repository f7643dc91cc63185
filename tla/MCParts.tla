------------------------------- MODULE MCParts -------------------------------
(***************************************************************************)
(* Small instances of the parts: words, command lines, pods, events,       *)
(* builds and lists.                                                       *)
(***************************************************************************)
EXTENDS Parts

Symmetric == Permutations(Request) \cup Permutations(Replica)

-----------------------------------------------------------------------------
(* rsync's words of every kind, malformed ones, one of exactly MaxToken    *)
(* bytes and some that are longer, whose ends look like words of their own.*)
MCWords ==
  {[text |-> <<"4", "2", "%">>, field |-> "Progress", value |-> 42],
   [text |-> <<"1", ",", "2", "3">>, field |-> "Downloaded", value |-> 123],
   [text |-> <<"2", "k", "/", "s">>, field |-> "Speed", value |-> 2000],
   [text |-> <<"0", ":", "1", ":", "2">>, field |-> "TimeLeft",
    value |-> <<"0", ":", "1", ":", "2">>],
   [text |-> <<"1", "0", ",", "0", "0", "0">>, field |-> "Downloaded", value |-> 10000],
   [text |-> <<"1", "2", "3", "4", "5", "6", "7", "%">>, field |-> Ignored, value |-> 0],
   [text |-> <<"1", ":", ":", "2">>, field |-> Ignored, value |-> 0],
   [text |-> <<"9", "9", "9", "9", "9", "%">>, field |-> Ignored, value |-> 0],
   [text |-> <<"4", "/", "9", ")">>, field |-> Ignored, value |-> 0],
   [text |-> <<",">>, field |-> Ignored, value |-> 0],
   [text |-> <<"%">>, field |-> Ignored, value |-> 0]}

(* Command lines of up to four arguments in which a separate value is no   *)
(* flag, and pods with none, one and two containers.                       *)
MCArg == {Flag("port", "80"), Flag("port", "81"), Flag("data", ""),
          Flag("sync_worker", "old"), Flag("sync-worker", ""), Word("w"), End}

Values(a) == {i + 1 : i \in {n \in DOMAIN a : a[n].kind = "flag" /\ a[n].value = ""}}

MCServerArgs ==
  {a \in SeqOf(MCArg, 4) : \A i \in Values(a) : i \in DOMAIN a /\ a[i].kind = "word"}

App1 == [name |-> "app", fields |-> {"image", "env", "ports", "livenessProbe"}]
Sidecar == [name |-> "proxy", fields |-> {"image", "ports"}]

MCPods ==
  {[containers |-> cs, fields |-> {"volumes", "nodeName", "hostname"}] :
     cs \in {<<>>, <<App1>>, <<Sidecar, App1>>}}

(* A worker has two events; the third lets a connection break twice.       *)
MCEvents == <<"start", "complete", "more">>

(* Three builds of which the second changes one file and the third drops   *)
(* one and has the first's index again.                                    *)
MCIndexOf == [p \in URL |-> IF p = "" THEN "index.html" ELSE "none"]
MCFiles == <<[f \in {"index.html", "app.wasm"} |-> IF f = "index.html" THEN "i1" ELSE "a1"],
             [f \in {"index.html", "app.wasm"} |-> IF f = "index.html" THEN "i2" ELSE "a1"],
             [f \in {"index.html"} |-> "i1"]>>

(* Lists of up to two directories.                                         *)
MCHasPart(p, f) == f = p
MCListings ==
  {l \in SeqOf([path : Path, synced : BOOLEAN], 2) :
     \A i, j \in DOMAIN l : i < j => l[i].path # l[j].path}
=============================================================================
