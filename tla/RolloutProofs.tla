--------------------------- MODULE RolloutProofs ---------------------------
(***************************************************************************)
(* Proofs about Rollout and the components in it: for any number of        *)
(* members, controllers, components and calls.                             *)
(***************************************************************************)
EXTENDS Rollout, TLAPS

(***************************************************************************)
(* Each component sees its own steps.                                      *)
(***************************************************************************)
LEMMA FeaturesSees ==
    [Next]_vars => FeaturesNext \/ BuildSite \/ UNCHANGED featureVars
BY DEF Next, vars

LEMMA SiteSees ==
    [Next]_vars => StartBuild \/ SiteStep \/ UNCHANGED siteVars
BY DEF Next, vars, BuildSite, StartInstall, InstallStep, FetchCached, Download, Seek,
       PutArchive, PutArchiveFails, Import, RemoveArchive, Server, Apply, RolloutStatus,
       InstallFails, RollsOut

RolloutStep == StartInstall \/ InstallStep \/ \E c \in Component : RollsOut(c)

LEMMA RolloutSees ==
    [Next]_vars => RolloutStep \/ UNCHANGED rolloutVars
BY DEF Next, vars, RolloutStep

(***************************************************************************)
(* Features                                                                *)
(***************************************************************************)
\* Where an undisturbed call stands: a restart is scheduled only by the call, and
\* has happened when the boot identity has changed.
CallInv ==
    disturbed \/
        /\ call \in {"idle", "install"} => ~scheduled /\ feature # "pending"
        /\ call = "shutdown" => ~scheduled /\ ~rebooted
        /\ call = "probe" => \/ scheduled /\ ~rebooted
                             \/ ~scheduled /\ rebooted /\ feature # "pending"
        /\ call = "ok" => ~scheduled /\ feature = "installed"

FeaturesInv == FeaturesTypeOK /\ CallInv

LEMMA FeaturesInitInv == Init => FeaturesInv
BY DEF Init, FeaturesInit, FeaturesInv, FeaturesTypeOK, CallInv

LEMMA FeaturesStep == FeaturesInv /\ [Next]_vars => FeaturesInv'
<1> SUFFICES ASSUME FeaturesInv, [Next]_vars PROVE FeaturesInv'
  OBVIOUS
<1> USE DEF FeaturesInv, FeaturesTypeOK, CallInv, guest
<1>1. CASE Ensure
  BY <1>1 DEF Ensure
<1>2. CASE InstallFeatures
  BY <1>2 DEF InstallFeatures, Answered, Shown, Outcomes
<1>3. CASE Shutdown
  BY <1>3 DEF Shutdown
<1>4. CASE ProbeFeatures
  BY <1>4 DEF ProbeFeatures, Shown
<1>5. CASE EnsureFails
  BY <1>5 DEF EnsureFails, Ensuring, Outcomes
<1>6. CASE Restarts
  BY <1>6 DEF Restarts, Boots
<1>7. CASE RebootsByItself
  BY <1>7 DEF RebootsByItself, Boots, Ensuring
<1>8. CASE BuildSite
  BY <1>8 DEF BuildSite
<1>9. CASE UNCHANGED featureVars
  BY <1>9 DEF featureVars
<1> QED
  BY <1>1, <1>2, <1>3, <1>4, <1>5, <1>6, <1>7, <1>8, <1>9, FeaturesSees DEF FeaturesNext, EnsureStep

\* EnsureFeatures succeeds only with the features in place and no restart to come,
\* unless a call failed before or the guest rebooted by itself.
THEOREM Settled == Spec => []FeaturesSettled
<1>1. FeaturesInv => FeaturesSettled
  BY DEF FeaturesInv, CallInv, FeaturesSettled
<1> QED
  BY <1>1, FeaturesInitInv, FeaturesStep, PTL DEF Spec

(***************************************************************************)
(* Site                                                                    *)
(***************************************************************************)
\* The members are visited one by one once the versions have been checked.
Visiting == {"join", "first", "mint", "token", "probe", "config", "install", "start", "wait"}

\* From then on every member reports the version; while versions are checked,
\* the members before the one at hand do.
VersionInv ==
    /\ build.at \in Visiting => \A m \in Member : Reports(m)
    /\ build.at = "verify" => \A m \in Member : m < build.m => Reports(m)

\* The members before the one at hand are started, and the controllers among them
\* have served.
StartedInv ==
    /\ \A m \in Member : serving[m] => served[m]
    /\ build.at \in Visiting => \A m \in Member : m < build.m =>
            running[m] /\ (m \in Controllers => served[m])
    /\ build.at = "wait" => running[build.m]

\* What is in place for the member at hand, and that a file of an installed member
\* is rewritten only if its probe failed.
FilesInv ==
    /\ build.at \in {"first", "mint", "token", "config"} =>
            (unit[build.m] => misprobed[build.m])
    /\ build.at \in {"probe", "config", "install"} =>
            (build.m # 1 => token[build.m] = "whole")
    /\ build.at = "install" => (build.m \in Controllers => config[build.m] = "whole")

SiteInv == SiteTypeOK /\ VersionInv /\ StartedInv /\ FilesInv /\ InstalledIsConfigured

LEMMA SiteInitInv == Init => SiteInv
<1> SUFFICES ASSUME Init PROVE SiteInv
  OBVIOUS
<1>1. 1 \in Member
  BY SiteAssumption DEF Member
<1> QED
  BY <1>1, SiteAssumption DEF Init, SiteInit, SiteInv, SiteTypeOK, VersionInv, StartedInv,
     FilesInv, InstalledIsConfigured, Visiting, Steps, File

\* A loop goes to the next member or to its end.
LEMMA LoopGoes ==
    ASSUME SiteTypeOK, NEW s, NEW end, Loop(s, end, 1)
    PROVE  \/ build.m < N /\ build' = [at |-> s, m |-> build.m + 1] /\ build.m + 1 \in Member
           \/ build.m = N /\ build' = [at |-> end, m |-> 1] /\ 1 \in Member
<1>1. build.m \in Nat /\ build.m >= 1 /\ build.m <= N /\ N \in Nat
  BY SiteAssumption DEF SiteTypeOK, Member
<1> QED
  BY <1>1 DEF Loop, Goto, Member

\* A member that is probed wrongly is marked, and no mark is taken back.
LEMMA Marked ==
    ASSUME SiteTypeOK, Uninstalled(build.m)
    PROVE  /\ misprobed' \in [Member -> BOOLEAN]
           /\ unit[build.m] => misprobed'[build.m]
           /\ \A m \in Member : misprobed[m] => misprobed'[m]
BY Zenon DEF SiteTypeOK, Uninstalled

LEMMA SiteStepInv == SiteInv /\ [Next]_vars => SiteInv'
<1> SUFFICES ASSUME SiteInv, [Next]_vars PROVE SiteInv'
  OBVIOUS
<1>0. /\ N \in Nat /\ Member = 1..N /\ build.m \in Member /\ 1 \in Member
      /\ Controllers \subseteq Member
  BY SiteAssumption DEF SiteInv, SiteTypeOK, Member
<1> USE <1>0 DEF SiteInv, SiteTypeOK, VersionInv, StartedInv, FilesInv, InstalledIsConfigured,
            Visiting, Steps, File, files, services, Goto, At, Reports
<1>1. CASE StartBuild
  BY <1>1, SiteAssumption DEF StartBuild
<1>2. CASE CarryBinary
  BY <1>2, LoopGoes DEF CarryBinary
<1>3. CASE VerifyVersion
  BY <1>3, LoopGoes DEF VerifyVersion
<1>4. CASE Join
  <2>1. CASE unit[build.m] /\ Goto("start", build.m) /\ UNCHANGED misprobed
    BY <1>4, <2>1 DEF Join
  <2>2. CASE Goto("first", build.m) /\ Uninstalled(build.m)
    BY <1>4, <2>2, Marked DEF Join
  <2> QED
    BY <1>4, <2>1, <2>2 DEF Join
<1>5. CASE WaitFirst
  BY <1>5 DEF WaitFirst
<1>6. CASE Mint
  BY <1>6 DEF Mint
<1>7. CASE PutToken
  BY <1>7 DEF PutToken
<1>8. CASE Probe
  <2>1. CASE unit[build.m] /\ Goto("start", build.m) /\ UNCHANGED misprobed
    BY <1>8, <2>1 DEF Probe
  <2>2. CASE /\ Goto(IF build.m \in Controllers THEN "config" ELSE "install", build.m)
             /\ Uninstalled(build.m)
    BY <1>8, <2>2, Marked DEF Probe
  <2> QED
    BY <1>8, <2>1, <2>2 DEF Probe
<1>9. CASE WriteConfig
  BY <1>9 DEF WriteConfig
<1>10. CASE Install
  BY <1>10 DEF Install
<1>11. CASE Start
  BY <1>11, LoopGoes DEF Start, MustServe, NextMember
<1>12. CASE WaitReady
  BY <1>12, LoopGoes DEF WaitReady, NextMember
<1>13. CASE BuildFails
  <2>1. /\ build' = [at |-> "idle", m |-> 1]
        /\ UNCHANGED <<builds, foreign, misprobed, serving, served>>
    BY <1>13 DEF BuildFails
  <2>2. binary' \in [Member -> File]
    <3>1. CASE build.at = "carry"
      <4>1. PICK x \in File : binary' = [binary EXCEPT ![build.m] = x]
        BY <1>13, <3>1 DEF BuildFails, Leftover
      <4> QED
        BY <4>1
    <3>2. CASE build.at # "carry"
      BY <1>13, <3>2 DEF BuildFails, Leftover
    <3> QED
      BY <3>1, <3>2
  <2>3. /\ token' \in [Member -> File]
        /\ \A m \in Member : token'[m] # token[m] => m = build.m /\ build.at = "token"
    <3>1. CASE build.at = "token"
      <4>1. PICK x \in File : token' = [token EXCEPT ![build.m] = x]
        BY <1>13, <3>1 DEF BuildFails, Leftover
      <4> QED
        BY <3>1, <4>1
    <3>2. CASE build.at # "token"
      BY <1>13, <3>2 DEF BuildFails, Leftover
    <3> QED
      BY <3>1, <3>2
  <2>4. /\ config' \in [Member -> File]
        /\ \A m \in Member : config'[m] # config[m] => m = build.m /\ build.at = "config"
    <3>1. CASE build.at = "config"
      <4>1. PICK x \in File : config' = [config EXCEPT ![build.m] = x]
        BY <1>13, <3>1 DEF BuildFails, Leftover
      <4> QED
        BY <3>1, <4>1
    <3>2. CASE build.at # "config"
      BY <1>13, <3>2 DEF BuildFails, Leftover
    <3> QED
      BY <3>1, <3>2
  <2>5. /\ unit' \in [Member -> BOOLEAN]
        /\ \A m \in Member : unit'[m] => unit[m] \/ (m = build.m /\ build.at = "install")
    BY <1>13 DEF BuildFails, Leftover
  <2>6. running' \in [Member -> BOOLEAN]
    BY <1>13 DEF BuildFails, Leftover
  <2> QED
    BY <2>1, <2>2, <2>3, <2>4, <2>5, <2>6
<1>14. CASE \E m \in Member : ComesUp(m)
  BY <1>14 DEF ComesUp
<1>15. CASE \E m \in Member : GoesDown(m)
  BY <1>15 DEF GoesDown
<1>16. CASE UNCHANGED siteVars
  BY <1>16 DEF siteVars
<1> QED
  BY <1>1, <1>2, <1>3, <1>4, <1>5, <1>6, <1>7, <1>8, <1>9, <1>10, <1>11, <1>12, <1>13, <1>14, <1>15, <1>16, SiteSees DEF SiteStep, BuildStep

\* Whatever an earlier Build left behind, an installed member has its
\* configuration and its token whole, unless its probe failed.
THEOREM Configured == Spec => []InstalledIsConfigured
<1>1. SiteInv => InstalledIsConfigured
  BY DEF SiteInv
<1> QED
  BY <1>1, SiteInitInv, SiteStepInv, PTL DEF Spec

\* Versions are checked before services are installed, each controller serves
\* before a later member is started, and Build succeeds with all of it done.
THEOREM InOrder == Spec => BuildInOrder
<1>1. SiteInv /\ [Next]_vars => [VersionsFirst /\ JoinedInOrder /\ BuiltMeansServed]_siteVars
  <2> SUFFICES ASSUME SiteInv, StartBuild \/ SiteStep
               PROVE  VersionsFirst /\ JoinedInOrder /\ BuiltMeansServed
    BY SiteSees
  <2>0. /\ N \in Nat /\ Member = 1..N /\ build.m \in Member /\ 1 \in Member
        /\ Controllers \subseteq Member /\ build.at \in Steps
    BY SiteAssumption DEF SiteInv, SiteTypeOK, Member
  <2>1. VersionsFirst
    <3>1. unit' # unit => build.at = "install"
      BY DEF StartBuild, SiteStep, BuildStep, CarryBinary, VerifyVersion, Join, WaitFirst, Mint,
             PutToken, Probe, WriteConfig, Install, Start, WaitReady, BuildFails, Leftover,
             ComesUp, GoesDown, services, At
    <3> QED
      BY <3>1 DEF SiteInv, VersionInv, VersionsFirst, Visiting
  <2>2. JoinedInOrder
    <3>1. ASSUME NEW m \in Member, ~running[m], running'[m]
          PROVE  build.at = "start" /\ m = build.m
      BY <2>0, <3>1 DEF StartBuild, SiteStep, BuildStep, CarryBinary, VerifyVersion, Join, WaitFirst, Mint,
             PutToken, Probe, WriteConfig, Install, Start, WaitReady, BuildFails, Leftover,
             ComesUp, GoesDown, services, At, SiteInv, SiteTypeOK
    <3> QED
      BY <2>0, <3>1 DEF SiteInv, StartedInv, JoinedInOrder, Visiting
  <2>3. BuiltMeansServed
    <3> SUFFICES ASSUME Working, build'.at = "ok"
                 PROVE  /\ \A m \in Member : running'[m]
                        /\ \A k \in Controllers : served'[k]
      BY DEF BuiltMeansServed, At
    <3>1. Start \/ WaitReady
      BY DEF StartBuild, SiteStep, BuildStep, CarryBinary, VerifyVersion, Join, WaitFirst, Mint,
             PutToken, Probe, WriteConfig, Install, BuildFails, ComesUp, GoesDown, Loop, Goto, Working
    <3>2. build.m = N
      BY <3>1, LoopGoes DEF Start, WaitReady, NextMember, Goto, SiteInv
    <3>3. CASE Start
      BY <2>0, <3>2, <3>3 DEF Start, MustServe, Goto, At, SiteInv, SiteTypeOK, StartedInv, Visiting
    <3>4. CASE WaitReady
      BY <2>0, <3>2, <3>4 DEF WaitReady, services, At, SiteInv, SiteTypeOK, StartedInv, Visiting
    <3> QED
      BY <3>1, <3>3, <3>4
  <2> QED
    BY <2>1, <2>2, <2>3
<1> QED
  BY <1>1, SiteInitInv, SiteStepInv, PTL DEF Spec, BuildInOrder

(***************************************************************************)
(* Rollout                                                                 *)
(***************************************************************************)
RolloutTypeOK ==
    /\ inst \in InstallState
    /\ installs \in 0..MaxInstalls
    /\ cache \in [Component -> File]
    /\ image \in [Component -> SUBSET Member]
    /\ archive \in [Member -> File \cup {"empty"}]
    /\ position \in {"start", "end"}
    /\ applied \in [Component -> File]
    /\ available \in [Component -> BOOLEAN]

Carrying == {"seek", "put", "import", "rm"}

\* The member m is done with: it has the image and its archive is removed.
Carried(m) == m \in image[inst.c] /\ archive[m] = "none"

\* Without an error so far, CarryArchive is done with the members before the one
\* at hand; it is done with all of them when the manifest is applied.
CarryInv ==
    /\ inst.at \in Carrying => inst.errs \/ \A m \in Member : m < inst.m => Carried(m)
    /\ inst.at = "put" => position = "start"
    /\ inst.at = "import" => archive[inst.m] = "whole"
    /\ inst.at = "rm" => inst.errs \/ inst.m \in image[inst.c]
    /\ inst.at \in {"apply", "rollout"} => \A m \in Member : Carried(m)
    /\ inst.at = "ok" => \A m \in Member : archive[m] = "none"

\* What is applied is what the cache has, which is used as it is from then on.
ManifestInv ==
    /\ \A c \in Component : applied[c] \in {"none", cache[c]}
    /\ inst.at \in Carrying \cup {"apply", "rollout"} =>
            inst.manifest = cache[inst.c] /\ inst.manifest # "none"
    /\ inst.at = "rollout" => applied[inst.c] # "none"

\* The components before the one at hand have rolled out, all of them at the end.
OrderInv ==
    /\ inst.at = "idle" => inst.c = 1
    /\ Installing => \A d \in Component : d < inst.c => available[d]
    /\ inst.at = "ok" => \A d \in Component : available[d]
    /\ \A c \in Component : available[c] => applied[c] # "none"

RolloutInv == RolloutTypeOK /\ CarryInv /\ ManifestInv /\ OrderInv

LEMMA Constants ==
    /\ N \in Nat \ {0} /\ K \in Nat \ {0} /\ MaxInstalls \in Nat
    /\ Member = 1..N /\ Component = 1..K
    /\ 1 \in Member /\ 1 \in Component
    /\ Controllers \subseteq Member /\ Member \subseteq 0..N /\ 0 \in 0..N
BY SiteAssumption, RolloutAssumption DEF Member, Component

LEMMA IdleType == Idle \in InstallState
BY Constants DEF Idle, InstallState, InstallSteps, File

LEMMA RolloutInitInv == Init => RolloutInv
BY Constants, IdleType DEF Init, RolloutInv, RolloutTypeOK, CarryInv, ManifestInv, OrderInv,
   Idle, Installing, File, Carrying

\* CarryArchive goes to the next member, or to its end if there was no error.
LEMMA NextNodeGoes ==
    ASSUME RolloutTypeOK, NEW e \in BOOLEAN, NextNode(e)
    PROVE  /\ inst' \in InstallState
           /\ inst'.c = inst.c /\ inst'.manifest = inst.manifest /\ inst'.errs = e
           /\ \/ inst.m < N /\ inst'.at = "seek" /\ inst'.m = inst.m + 1
              \/ inst.m = N /\ inst'.at = "apply" /\ ~e
<1>1. inst \in InstallState /\ inst.m \in 1..N
  BY Constants DEF RolloutTypeOK, InstallState
<1>2. CASE inst.m < N
  <2>1. inst' = [inst EXCEPT !.at = "seek", !.m = inst.m + 1, !.errs = e]
    BY <1>2 DEF NextNode
  <2>2. inst.m + 1 \in Member
    BY <1>1, <1>2, Constants
  <2> QED
    BY <1>1, <1>2, <2>1, <2>2 DEF InstallState, InstallSteps
<1>3. CASE inst.m = N
  <2>1. inst' = [inst EXCEPT !.at = "apply", !.errs = e] /\ ~e
    BY <1>3, Constants DEF NextNode
  <2> QED
    BY <1>1, <1>3, <2>1 DEF InstallState, InstallSteps
<1> QED
  BY <1>1, <1>2, <1>3, Constants

LEMMA RolloutStepInv == RolloutInv /\ [Next]_vars => RolloutInv'
<1> SUFFICES ASSUME RolloutInv, [Next]_vars PROVE RolloutInv'
  OBVIOUS
<1> USE Constants DEF RolloutInv, RolloutTypeOK, InstallState, InstallSteps, File, Carrying,
        On, Do, images, api
<1>1. CASE StartInstall
  <2>1. /\ inst'.at = "fetch"
        /\ inst'.c = inst.c
        /\ inst'.manifest = inst.manifest
        /\ inst'.m = inst.m
        /\ inst'.errs = inst.errs
        /\ inst'.server = inst.server
    BY <1>1 DEF StartInstall
  <2>2. inst' \in InstallState
    BY <1>1, <2>1 DEF StartInstall
  <2>3. RolloutTypeOK'
    BY <1>1, <2>2 DEF StartInstall
  <2>4. CarryInv'
    BY <1>1, <2>1 DEF StartInstall, CarryInv, Carried
  <2>5. ManifestInv'
    BY <1>1, <2>1 DEF StartInstall, ManifestInv
  <2>6. OrderInv'
    BY <1>1, <2>1 DEF StartInstall, OrderInv, Installing
  <2> QED
    BY <2>3, <2>4, <2>5, <2>6
<1>2. CASE FetchCached
  <2>1. /\ inst'.at = "seek"
        /\ inst'.c = inst.c
        /\ inst'.manifest = cache[inst.c]
        /\ inst'.m = 1
        /\ inst'.errs = FALSE
        /\ inst'.server = inst.server
    BY <1>2 DEF FetchCached
  <2>2. inst' \in InstallState
    BY <1>2, <2>1 DEF FetchCached
  <2>3. RolloutTypeOK'
    BY <1>2, <2>2 DEF FetchCached
  <2>4. CarryInv'
    BY <1>2, <2>1 DEF FetchCached, CarryInv, Carried
  <2>5. ManifestInv'
    BY <1>2, <2>1 DEF FetchCached, ManifestInv
  <2>6. OrderInv'
    BY <1>2, <2>1 DEF FetchCached, OrderInv, Installing
  <2> QED
    BY <2>3, <2>4, <2>5, <2>6
<1>3. CASE Download
  <2>1. /\ inst'.at = "seek"
        /\ inst'.c = inst.c
        /\ inst'.manifest = "whole"
        /\ inst'.m = 1
        /\ inst'.errs = FALSE
        /\ inst'.server = inst.server
    BY <1>3 DEF Download
  <2>2. inst' \in InstallState
    BY <1>3, <2>1 DEF Download
  <2>3. RolloutTypeOK'
    BY <1>3, <2>2 DEF Download
  <2>4. CarryInv'
    BY <1>3, <2>1 DEF Download, CarryInv, Carried
  <2>5. ManifestInv'
    BY <1>3, <2>1 DEF Download, ManifestInv
  <2>6. OrderInv'
    BY <1>3, <2>1 DEF Download, OrderInv, Installing
  <2> QED
    BY <2>3, <2>4, <2>5, <2>6
<1>4. CASE Seek
  <2>1. /\ inst'.at = "put"
        /\ inst'.c = inst.c
        /\ inst'.manifest = inst.manifest
        /\ inst'.m = inst.m
        /\ inst'.errs = inst.errs
        /\ inst'.server = inst.server
    BY <1>4 DEF Seek
  <2>2. inst' \in InstallState
    BY <1>4, <2>1 DEF Seek
  <2>3. RolloutTypeOK'
    BY <1>4, <2>2 DEF Seek
  <2>4. CarryInv'
    BY <1>4, <2>1 DEF Seek, CarryInv, Carried
  <2>5. ManifestInv'
    BY <1>4, <2>1 DEF Seek, ManifestInv
  <2>6. OrderInv'
    BY <1>4, <2>1 DEF Seek, OrderInv, Installing
  <2> QED
    BY <2>3, <2>4, <2>5, <2>6
<1>5. CASE PutArchive
  <2>1. /\ inst'.at = "import"
        /\ inst'.c = inst.c
        /\ inst'.manifest = inst.manifest
        /\ inst'.m = inst.m
        /\ inst'.errs = inst.errs
        /\ inst'.server = inst.server
    BY <1>5 DEF PutArchive
  <2>2. inst' \in InstallState
    BY <1>5, <2>1 DEF PutArchive
  <2>3. RolloutTypeOK'
    BY <1>5, <2>2 DEF PutArchive
  <2>4. CarryInv'
    BY <1>5, <2>1 DEF PutArchive, CarryInv, Carried
  <2>5. ManifestInv'
    BY <1>5, <2>1 DEF PutArchive, ManifestInv
  <2>6. OrderInv'
    BY <1>5, <2>1 DEF PutArchive, OrderInv, Installing
  <2> QED
    BY <2>3, <2>4, <2>5, <2>6
<1>6. CASE PutArchiveFails
  <2>1. NextNode(TRUE)
    BY <1>6 DEF PutArchiveFails
  <2>2. /\ inst' \in InstallState
        /\ inst'.c = inst.c /\ inst'.manifest = inst.manifest /\ inst'.errs = TRUE
        /\ inst'.at = "seek" /\ inst'.m = inst.m + 1
    BY <2>1, NextNodeGoes
  <2>3. RolloutTypeOK'
    BY <1>6, <2>2 DEF PutArchiveFails
  <2>4. CarryInv'
    BY <2>2 DEF CarryInv
  <2>5. ManifestInv'
    BY <1>6, <2>2 DEF PutArchiveFails, ManifestInv
  <2>6. OrderInv'
    BY <1>6, <2>2 DEF PutArchiveFails, OrderInv, Installing
  <2> QED
    BY <2>3, <2>4, <2>5, <2>6
<1>7. CASE Import
  <2>1. /\ inst'.at = "rm" /\ inst'.c = inst.c /\ inst'.manifest = inst.manifest
        /\ inst'.m = inst.m /\ inst'.server = inst.server /\ inst'.errs \in {inst.errs, TRUE}
    BY <1>7 DEF Import
  <2>2. inst' \in InstallState
    BY <1>7, <2>1 DEF Import
  <2>3. \/ image' = image /\ inst'.errs = TRUE
        \/ image' = [image EXCEPT ![inst.c] = @ \cup {inst.m}] /\ inst'.errs = inst.errs
    BY <1>7 DEF Import, CarryInv
  <2>4. RolloutTypeOK'
    <3>1. inst.c \in Component /\ image[inst.c] \cup {inst.m} \in SUBSET Member
      OBVIOUS
    <3>2. image' \in [Component -> SUBSET Member]
      BY <2>3, <3>1
    <3> QED
      BY <1>7, <2>2, <3>2 DEF Import
  <2>5. CarryInv'
    BY <1>7, <2>1, <2>3 DEF Import, CarryInv, Carried
  <2>6. ManifestInv'
    BY <1>7, <2>1 DEF Import, ManifestInv
  <2>7. OrderInv'
    BY <1>7, <2>1 DEF Import, OrderInv, Installing
  <2> QED
    BY <2>4, <2>5, <2>6, <2>7
<1>8. CASE RemoveArchive
  <2>1. \E e \in BOOLEAN : /\ NextNode(e)
                           /\ \/ e = TRUE /\ archive' = archive
                              \/ e = inst.errs /\ archive' = [archive EXCEPT ![inst.m] = "none"]
    BY <1>8 DEF RemoveArchive
  <2>2. /\ inst' \in InstallState
        /\ inst'.c = inst.c /\ inst'.manifest = inst.manifest
        /\ \/ inst.m < N /\ inst'.at = "seek" /\ inst'.m = inst.m + 1
           \/ inst.m = N /\ inst'.at = "apply" /\ ~inst'.errs
        /\ \/ inst'.errs = TRUE /\ archive' = archive
           \/ inst'.errs = inst.errs /\ archive' = [archive EXCEPT ![inst.m] = "none"]
    BY <2>1, NextNodeGoes
  <2>3. RolloutTypeOK'
    BY <1>8, <2>2 DEF RemoveArchive
  <2>4. CarryInv'
    <3>1. ~inst'.errs => \A m \in Member : m <= inst.m => Carried(m)'
      BY <1>8, <2>2 DEF RemoveArchive, CarryInv, Carried
    <3> QED
      BY <2>2, <3>1 DEF CarryInv
  <2>5. ManifestInv'
    BY <1>8, <2>2 DEF RemoveArchive, ManifestInv
  <2>6. OrderInv'
    BY <1>8, <2>2 DEF RemoveArchive, OrderInv, Installing
  <2> QED
    BY <2>3, <2>4, <2>5, <2>6
<1>9. CASE Server
  <2>1. PICK k \in Controllers : inst' = [inst EXCEPT !.server = k]
    BY <1>9 DEF Server
  <2>2. /\ inst'.at = inst.at
        /\ inst'.c = inst.c
        /\ inst'.manifest = inst.manifest
        /\ inst'.m = inst.m
        /\ inst'.errs = inst.errs
        /\ inst'.server = k
    BY <1>9, <2>1 DEF Server
  <2>3. inst' \in InstallState
    BY <1>9, <2>2 DEF Server
  <2>4. RolloutTypeOK'
    BY <1>9, <2>3 DEF Server
  <2>5. CarryInv'
    BY <1>9, <2>2 DEF Server, CarryInv, Carried
  <2>6. ManifestInv'
    BY <1>9, <2>2 DEF Server, ManifestInv
  <2>7. OrderInv'
    BY <1>9, <2>2 DEF Server, OrderInv, Installing
  <2> QED
    BY <2>4, <2>5, <2>6, <2>7
<1>10. CASE Apply
  <2>1. /\ inst'.at = "rollout"
        /\ inst'.c = inst.c
        /\ inst'.manifest = inst.manifest
        /\ inst'.m = inst.m
        /\ inst'.errs = inst.errs
        /\ inst'.server = 0
    BY <1>10 DEF Apply
  <2>2. inst' \in InstallState
    BY <1>10, <2>1 DEF Apply
  <2>3. RolloutTypeOK'
    BY <1>10, <2>2 DEF Apply
  <2>4. CarryInv'
    BY <1>10, <2>1 DEF Apply, CarryInv, Carried
  <2>5. ManifestInv'
    BY <1>10, <2>1 DEF Apply, ManifestInv
  <2>6. OrderInv'
    BY <1>10, <2>1 DEF Apply, OrderInv, ManifestInv, Installing
  <2> QED
    BY <2>3, <2>4, <2>5, <2>6
<1>11. CASE RolloutStatus
  <2>1. inst' = AfterComponent
    BY <1>11 DEF RolloutStatus
  <2>2. /\ inst' \in InstallState
        /\ \/ inst'.at = "fetch" /\ inst'.c = inst.c + 1
           \/ inst.c = K /\ inst'.at = "ok"
    <3>1. CASE inst.c < K
      <4>1. inst' = [Idle EXCEPT !.at = "fetch", !.c = inst.c + 1] /\ inst.c + 1 \in Component
        BY <2>1, <3>1 DEF AfterComponent
      <4> QED
        BY <4>1, IdleType DEF Idle
    <3>2. CASE inst.c = K
      <4>1. inst' = [Idle EXCEPT !.at = "ok"]
        BY <2>1, <3>2 DEF AfterComponent
      <4> QED
        BY <3>2, <4>1, IdleType DEF Idle
    <3> QED
      BY <3>1, <3>2
  <2>3. RolloutTypeOK'
    BY <1>11, <2>2 DEF RolloutStatus
  <2>4. CarryInv'
    BY <1>11, <2>2 DEF RolloutStatus, CarryInv, Carried
  <2>5. ManifestInv'
    BY <1>11, <2>2 DEF RolloutStatus, ManifestInv
  <2>6. OrderInv'
    BY <1>11, <2>2 DEF RolloutStatus, OrderInv, Installing
  <2> QED
    BY <2>3, <2>4, <2>5, <2>6
<1>12. CASE InstallFails
  <2>1. inst' = Idle /\ inst'.at = "idle" /\ inst'.c = 1
    BY <1>12 DEF InstallFails, Idle
  <2>2. /\ cache' \in [Component -> File]
        /\ \A c \in Component : cache[c] # "none" => cache'[c] = cache[c]
    BY <1>12 DEF InstallFails
  <2>3. /\ applied' \in [Component -> File]
        /\ \A c \in Component : applied'[c] = applied[c] \/
              (c = inst.c /\ inst.at = "apply" /\ applied'[c] = inst.manifest)
    BY <1>12 DEF InstallFails
  <2>4. archive' \in [Member -> File \cup {"empty"}]
    BY <1>12 DEF InstallFails
  <2>5. RolloutTypeOK'
    BY <1>12, <2>1, <2>2, <2>3, <2>4, IdleType DEF InstallFails
  <2>6. CarryInv'
    BY <2>1 DEF CarryInv
  <2>7. ManifestInv'
    BY <2>1, <2>2, <2>3 DEF ManifestInv
  <2>8. OrderInv'
    BY <1>12, <2>1, <2>3 DEF InstallFails, OrderInv, ManifestInv, Installing
  <2> QED
    BY <2>5, <2>6, <2>7, <2>8
<1>13. CASE \E c \in Component : RollsOut(c)
  BY <1>13 DEF RollsOut, CarryInv, Carried, ManifestInv, OrderInv, Installing
<1>14. CASE UNCHANGED rolloutVars
  BY <1>14 DEF rolloutVars, CarryInv, Carried, ManifestInv, OrderInv, Installing
<1> QED
  BY <1>1, <1>2, <1>3, <1>4, <1>5, <1>6, <1>7, <1>8, <1>9, <1>10, <1>11, <1>12, <1>13, <1>14,
     RolloutSees DEF RolloutStep, InstallStep

-----------------------------------------------------------------------------
\* The steps that change what is applied, and of which component.
LEMMA Applies ==
    ASSUME RolloutInv, [Next]_vars, NEW c \in Component, applied'[c] # applied[c]
    PROVE  inst.at = "apply" /\ c = inst.c
<1>1. RolloutStep
  BY RolloutSees DEF rolloutVars
<1>2. Apply \/ InstallFails
  BY <1>1 DEF RolloutStep, StartInstall, InstallStep, FetchCached, Download, Seek, PutArchive,
     PutArchiveFails, Import, RemoveArchive, Server, RolloutStatus, RollsOut, api
<1>3. applied \in [Component -> File]
  BY DEF RolloutInv, RolloutTypeOK
<1>4. CASE Apply
  BY <1>3, <1>4 DEF Apply, On
<1>5. CASE InstallFails
  BY <1>3, <1>5 DEF InstallFails, On
<1> QED
  BY <1>2, <1>4, <1>5

\* A manifest is applied only when every member has the image it names.
THEOREM ImagesFirst == Spec => ImagesBeforeApply
<1>1. RolloutInv /\ [Next]_vars =>
        [\A c \in Component : applied'[c] # applied[c] => image[c] = Member]_vars
  <2> SUFFICES ASSUME RolloutInv, [Next]_vars, NEW c \in Component, applied'[c] # applied[c]
               PROVE  image[c] = Member
    OBVIOUS
  <2>1. \A m \in Member : m \in image[c]
    BY Applies DEF RolloutInv, CarryInv, Carried
  <2>2. image[c] \subseteq Member
    BY DEF RolloutInv, RolloutTypeOK
  <2> QED
    BY <2>1, <2>2
<1> QED
  BY <1>1, RolloutInitInv, RolloutStepInv, PTL DEF Spec, ImagesBeforeApply

\* A component is applied only when the ones before it have rolled out.
THEOREM InTurn == Spec => OrderedRollout
<1>1. RolloutInv /\ [Next]_vars =>
        [\A c \in Component : applied'[c] # applied[c] =>
            \A d \in Component : d < c => available[d]]_vars
  BY Applies DEF RolloutInv, OrderInv, Installing
<1> QED
  BY <1>1, RolloutInitInv, RolloutStepInv, PTL DEF Spec, OrderedRollout

\* An Install that succeeds has applied what the cache has, rolled it out, and
\* left no archive behind; the cache has the whole manifest unless it was torn.
THEOREM Whole == Spec => []InstalledMeansWhole
<1>1. RolloutInv => InstalledMeansWhole
  <2> SUFFICES ASSUME RolloutInv, inst.at = "ok" PROVE InstalledMeansWhole
    BY DEF InstalledMeansWhole, On
  <2>1. ASSUME NEW c \in Component
        PROVE  available[c] /\ (applied[c] = "whole" \/ cache[c] = "torn")
    BY DEF RolloutInv, RolloutTypeOK, OrderInv, ManifestInv, File
  <2>2. \A m \in Member : archive[m] = "none"
    BY DEF RolloutInv, CarryInv
  <2> QED
    BY <2>1, <2>2 DEF InstalledMeansWhole
<1> QED
  BY <1>1, RolloutInitInv, RolloutStepInv, PTL DEF Spec

\* Every variable keeps its type.
THEOREM TypeCorrect == Spec => []TypeOK
<1>1. FeaturesInv /\ SiteInv /\ RolloutInv => TypeOK
  BY DEF FeaturesInv, SiteInv, RolloutInv, RolloutTypeOK, TypeOK
<1> QED
  BY <1>1, FeaturesInitInv, FeaturesStep, SiteInitInv, SiteStepInv, RolloutInitInv, RolloutStepInv,
     PTL DEF Spec

=============================================================================
