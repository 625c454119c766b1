-------------------------------- MODULE Site --------------------------------
(***************************************************************************)
(* Building a multi-node k0s cluster: k0s.Site.Build and what it calls.    *)
(*                                                                         *)
(* Build runs one command after another on the members, gives up at the    *)
(* first that fails, and may then be called again on the members as they   *)
(* are: with files half written, services installed and not started,       *)
(* controllers serving.  A controller that runs serves its API some time   *)
(* later, and stops serving for a while whenever it restarts.              *)
(***************************************************************************)
EXTENDS Naturals

CONSTANTS N,             \* number of members, in the order they join
          Controllers,   \* the members whose role is Controller
          MaxBuilds      \* how often Build is called

ASSUME SiteAssumption ==
    /\ N \in Nat \ {0} /\ MaxBuilds \in Nat \ {0}
    /\ Controllers \subseteq 1..N /\ 1 \in Controllers

VARIABLES
    build,       \* the call of Build: where it is, and for which member
    builds,      \* calls made so far
    foreign,     \* members on whose PATH another k0s comes first
    binary,      \* /usr/local/bin/k0s of each member
    config,      \* /etc/k0s/k0s.yaml
    token,       \* /etc/k0s/token
    unit,        \* the k0s service is installed
    misprobed,   \* an installed member was taken for one that is not
    running,     \* the service was started
    serving,     \* the member's API is ready
    served       \* it has been ready since the service was started

siteVars == <<build, builds, foreign, binary, config, token, unit, misprobed,
              running, serving, served>>

Member == 1..N

File == {"none", "torn", "whole"}

Steps == {"idle", "carry", "verify", "join", "first", "mint", "token",
          "probe", "config", "install", "start", "wait", "ok"}

SiteTypeOK ==
    /\ build \in [at: Steps, m: Member]
    /\ builds \in 0..MaxBuilds
    /\ foreign \subseteq Member
    /\ binary \in [Member -> File]
    /\ config \in [Member -> File]
    /\ token \in [Member -> File]
    /\ unit \in [Member -> BOOLEAN]
    /\ misprobed \in [Member -> BOOLEAN]
    /\ running \in [Member -> BOOLEAN]
    /\ serving \in [Member -> BOOLEAN]
    /\ served \in [Member -> BOOLEAN]

SiteInit ==
    /\ build = [at |-> "idle", m |-> 1]
    /\ builds = 0
    /\ foreign \in SUBSET Member
    /\ binary = [m \in Member |-> "none"]
    /\ config = [m \in Member |-> "none"]
    /\ token = [m \in Member |-> "none"]
    /\ unit = [m \in Member |-> FALSE]
    /\ misprobed = [m \in Member |-> FALSE]
    /\ running = [m \in Member |-> FALSE]
    /\ serving = [m \in Member |-> FALSE]
    /\ served = [m \in Member |-> FALSE]

files == <<binary, config, token>>
services == <<unit, misprobed, running, serving, served>>

At(s) == build.at = s

Goto(s, m) == build' = [at |-> s, m |-> m]

(* Mutant of Loop: one member too many. *)
LoopPastEnd(s, end, first) ==
    IF build.m <= N THEN Goto(s, build.m + 1) ELSE Goto(end, first)

(* The next member of a loop over all of them, and where its end leads. *)
Loop(s, end, first) ==
    IF build.m < N THEN Goto(s, build.m + 1) ELSE Goto(end, first)

-----------------------------------------------------------------------------
StartBuild ==
    /\ At("idle") /\ builds < MaxBuilds
    /\ builds' = builds + 1
    /\ Goto("carry", 1)
    /\ UNCHANGED <<foreign, files, services>>

(* Every member is given the binary before any is asked for its version. *)
CarryBinary ==
    /\ At("carry")
    /\ binary' = [binary EXCEPT ![build.m] = "whole"]
    /\ Loop("carry", "verify", 1)
    /\ UNCHANGED <<builds, foreign, config, token, services>>

(* `k0s version` reports the site's version. *)
Reports(m) == binary[m] = "whole" /\ m \notin foreign

VerifyVersion ==
    /\ At("verify") /\ Reports(build.m)
    /\ Loop("verify", "probe", 1)
    /\ UNCHANGED <<builds, foreign, files, services>>

(* The transport failed, or both `test -f` did: installed is an error away *)
(* from FALSE.                                                             *)
Uninstalled(m) ==
    misprobed' = [misprobed EXCEPT ![m] = @ \/ unit[m]]

(* join asks whether the member is installed; if so it is only started. *)
Join ==
    /\ At("join")
    /\ \/ unit[build.m] /\ Goto("start", build.m) /\ UNCHANGED misprobed
       \/ Goto("first", build.m) /\ Uninstalled(build.m)
    /\ UNCHANGED <<builds, foreign, files, unit, running, serving, served>>

(* waitReady of the first controller, before it mints a token. *)
WaitFirst ==
    /\ At("first") /\ serving[1]
    /\ Goto("mint", build.m)
    /\ UNCHANGED <<builds, foreign, files, services>>

Mint ==
    /\ At("mint") /\ serving[1]
    /\ Goto("token", build.m)
    /\ UNCHANGED <<builds, foreign, files, services>>

PutToken ==
    /\ At("token")
    /\ token' = [token EXCEPT ![build.m] = "whole"]
    /\ Goto("probe", build.m)
    /\ UNCHANGED <<builds, foreign, binary, config, services>>

(* Mutant: the service is installed without its configuration. *)
ProbeOnly ==
    /\ At("probe")
    /\ \/ unit[build.m] /\ Goto("start", build.m) /\ UNCHANGED misprobed
       \/ Goto("install", build.m) /\ Uninstalled(build.m)
    /\ UNCHANGED <<builds, foreign, files, unit, running, serving, served>>

(* install asks again; a controller's configuration is written first. *)
Probe ==
    /\ At("probe")
    /\ \/ unit[build.m] /\ Goto("start", build.m) /\ UNCHANGED misprobed
       \/ /\ Goto(IF build.m \in Controllers THEN "config" ELSE "install", build.m)
          /\ Uninstalled(build.m)
    /\ UNCHANGED <<builds, foreign, files, unit, running, serving, served>>

WriteConfig ==
    /\ At("config")
    /\ config' = [config EXCEPT ![build.m] = "whole"]
    /\ Goto("install", build.m)
    /\ UNCHANGED <<builds, foreign, binary, token, services>>

Install ==
    /\ At("install")
    /\ unit' = [unit EXCEPT ![build.m] = TRUE]
    /\ Goto("start", build.m)
    /\ UNCHANGED <<builds, foreign, files, misprobed, running, serving, served>>

(* The next member to join, or the end. *)
NextMember == Loop("join", "ok", 1)

(* Mutant: only the first controller is waited for. *)
MustServeFirst(m) == m = 1

(* The members whose API Build waits for once they are started. *)
MustServe(m) == m \in Controllers

Start ==
    /\ At("start")
    /\ running' = [running EXCEPT ![build.m] = TRUE]
    /\ IF MustServe(build.m) THEN Goto("wait", build.m) ELSE NextMember
    /\ UNCHANGED <<builds, foreign, files, unit, misprobed, serving, served>>

(* waitReady: an attempt of wait.Until found the member ready. *)
WaitReady ==
    /\ At("wait") /\ serving[build.m]
    /\ NextMember
    /\ UNCHANGED <<builds, foreign, files, services>>

-----------------------------------------------------------------------------
(* What a command leaves behind that fails, or whose caller dies under it: *)
(* nothing, all of its effect, or half a file.                             *)
Leftover ==
    LET m == build.m
        Written(f) == {[f EXCEPT ![m] = x] : x \in {f[m], "torn", "whole"}}
    IN  /\ IF At("carry") THEN binary' \in Written(binary) ELSE UNCHANGED binary
        /\ IF At("token") THEN token' \in Written(token) ELSE UNCHANGED token
        /\ IF At("config") THEN config' \in Written(config) ELSE UNCHANGED config
        /\ IF At("install") THEN unit' \in {unit, [unit EXCEPT ![m] = TRUE]}
           ELSE UNCHANGED unit
        /\ IF At("start") THEN running' \in {running, [running EXCEPT ![m] = TRUE]}
           ELSE UNCHANGED running

Working == build.at \notin {"idle", "ok"}

(* A command failed, a wait ran out of time, or the context ended: Build   *)
(* returns the error.  Among the reasons: Linux refuses to open a running  *)
(* executable for writing, so CarryBinary may fail on a member that runs.  *)
BuildFails ==
    /\ Working
    /\ Goto("idle", 1)
    /\ Leftover
    /\ UNCHANGED <<builds, foreign, misprobed, serving, served>>

(* External: a running controller becomes ready ... *)
ComesUp(m) ==
    /\ m \in Controllers /\ running[m] /\ ~serving[m]
    /\ serving' = [serving EXCEPT ![m] = TRUE]
    /\ served' = [served EXCEPT ![m] = TRUE]
    /\ UNCHANGED <<build, builds, foreign, files, unit, misprobed, running>>

(* ... and restarts, as when another one joins. *)
GoesDown(m) ==
    /\ serving[m]
    /\ serving' = [serving EXCEPT ![m] = FALSE]
    /\ UNCHANGED <<build, builds, foreign, files, unit, misprobed, running, served>>

BuildStep ==
    \/ CarryBinary \/ VerifyVersion \/ Join \/ WaitFirst \/ Mint \/ PutToken
    \/ Probe \/ WriteConfig \/ Install \/ Start \/ WaitReady \/ BuildFails

SiteStep == BuildStep \/ \E m \in Member : ComesUp(m) \/ GoesDown(m)

-----------------------------------------------------------------------------
(* "each joining controller serves before the next member joins, because   *)
(* adding an etcd member changes quorum" (Site): when Build starts a       *)
(* member, every controller before it has served since it was started.     *)
JoinedInOrder ==
    \A m \in Member : (~running[m] /\ running'[m]) =>
        \A k \in Controllers : k < m => served[k]

(* Build "checks every member's version before installing anything": a     *)
(* service is installed only while every member carries the whole binary   *)
(* and runs that one.                                                      *)
VersionsFirst == unit' # unit => \A m \in Member : Reports(m)

(* When Build reports success every member is started and every controller *)
(* has served since.                                                       *)
BuiltMeansServed ==
    (Working /\ At("ok")') =>
        /\ \A m \in Member : running'[m]
        /\ \A k \in Controllers : served'[k]

(* Build keeps the order its comments promise, however often it gave up    *)
(* before and whatever it finds: versions, then services; each controller, *)
(* then later members; all of them, then success.                          *)
BuildInOrder == [][VersionsFirst /\ JoinedInOrder /\ BuiltMeansServed]_siteVars

(* An installed member has what its service needs, a controller its        *)
(* configuration and a joined member its token, both whole, however often  *)
(* Build failed and was called again; only a member that `installed` took  *)
(* for a new one, because its probe failed, may have them rewritten.       *)
InstalledIsConfigured ==
    \A m \in Member : unit[m] =>
        \/ misprobed[m]
        \/ /\ m \in Controllers => config[m] = "whole"
           /\ m # 1 => token[m] = "whole"
=============================================================================
