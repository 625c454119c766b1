------------------------------ MODULE Rollout ------------------------------
(***************************************************************************)
(* Installing components on a site that Build has built: capi.Install,     *)
(* the manifest cache, containerd.CarryArchive as its image loader, and    *)
(* kube.Client, which sends every kubectl command to a control plane that  *)
(* has just answered an authenticated /readyz.                             *)
(*                                                                         *)
(* The caller prepares a Windows worker (Features), builds the site (Site) *)
(* and installs the components, each possibly again after it failed; the   *)
(* controllers go on restarting meanwhile.                                 *)
(***************************************************************************)
EXTENDS Site, Features

CONSTANTS K,           \* components, in the order they are installed
          MaxInstalls  \* how often Install is called

ASSUME RolloutAssumption == K \in Nat \ {0} /\ MaxInstalls \in Nat \ {0}

VARIABLES
    inst,        \* the call of Install, see InstallState
    installs,    \* calls made so far
    cache,       \* the manifest of each component in cacheDir
    image,       \* the members that hold each component's image
    archive,     \* CarriedArchive on each member
    position,    \* where the archive's reader stands: "start" or "end"
    applied,     \* what of each manifest the API has
    available    \* the component's Deployments have rolled out

rolloutVars == <<inst, installs, cache, image, archive, position, applied, available>>

vars == <<featureVars, siteVars, rolloutVars>>

Component == 1..K

InstallSteps == {"idle", "fetch", "seek", "put", "import", "rm", "apply", "rollout", "ok"}

(* The component at hand, the manifest read for it and whether that names  *)
(* the image, the member the archive is carried to, whether CarryArchive   *)
(* has an error to report, and the control plane Server chose (0: none).   *)
InstallState ==
    [at: InstallSteps, c: Component, manifest: File, m: Member,
     errs: BOOLEAN, server: 0..N]

TypeOK ==
    /\ FeaturesTypeOK
    /\ SiteTypeOK
    /\ inst \in InstallState
    /\ installs \in 0..MaxInstalls
    /\ cache \in [Component -> File]
    /\ image \in [Component -> SUBSET Member]
    /\ archive \in [Member -> File \cup {"empty"}]
    /\ position \in {"start", "end"}
    /\ applied \in [Component -> File]
    /\ available \in [Component -> BOOLEAN]

Idle == [at |-> "idle", c |-> 1, manifest |-> "none", m |-> 1,
         errs |-> FALSE, server |-> 0]

Init ==
    /\ FeaturesInit
    /\ SiteInit
    /\ inst = Idle
    /\ installs = 0
    /\ cache = [c \in Component |-> "none"]
    /\ image = [c \in Component |-> {}]
    /\ archive = [m \in Member |-> "none"]
    /\ position = "start"
    /\ applied = [c \in Component |-> "none"]
    /\ available = [c \in Component |-> FALSE]

On(s) == inst.at = s

Do(s) == inst' = [inst EXCEPT !.at = s]

images == <<image, archive, position>>
api == <<applied, available>>

-----------------------------------------------------------------------------
StartInstall ==
    /\ At("ok") /\ On("idle") /\ installs < MaxInstalls
    /\ installs' = installs + 1
    /\ Do("fetch")
    /\ UNCHANGED <<siteVars, cache, images, api>>

(* fetch: a cached manifest that is not empty is used as it is.  Half a    *)
(* manifest may name its image or not; one that names none is refused,     *)
(* which is InstallFails.                                                  *)
FetchCached ==
    /\ On("fetch") /\ cache[inst.c] # "none"
    /\ inst' = [inst EXCEPT !.at = "seek", !.manifest = cache[inst.c], !.m = 1, !.errs = FALSE]
    /\ UNCHANGED <<siteVars, installs, cache, images, api>>

Download ==
    /\ On("fetch") /\ cache[inst.c] = "none"
    /\ cache' = [cache EXCEPT ![inst.c] = "whole"]
    /\ inst' = [inst EXCEPT !.at = "seek", !.manifest = "whole", !.m = 1, !.errs = FALSE]
    /\ UNCHANGED <<siteVars, installs, images, api>>

(* Mutant: the archive is read on from where the last copy of it ended. *)
SeekNever ==
    /\ On("seek")
    /\ Do("put")
    /\ UNCHANGED <<siteVars, installs, cache, images, api>>

(* CarryArchive, one member after another: rewind the archive, ... *)
Seek ==
    /\ On("seek")
    /\ position' = "start"
    /\ Do("put")
    /\ UNCHANGED <<siteVars, installs, cache, image, archive, api>>

(* ... copy what is left of it to the member, ... *)
PutArchive ==
    /\ On("put")
    /\ archive' = [archive EXCEPT ![inst.m] = IF position = "start" THEN "whole" ELSE "empty"]
    /\ position' = "end"
    /\ Do("import")
    /\ UNCHANGED <<siteVars, installs, cache, image, api>>

(* The next member; after the last, errors are reported together. *)
NextNode(errs) ==
    /\ inst.m = N => ~errs
    /\ inst' = IF inst.m < N
               THEN [inst EXCEPT !.at = "seek", !.m = @ + 1, !.errs = errs]
               ELSE [inst EXCEPT !.at = "apply", !.errs = errs]

(* ... or fail to, and go on with the next one, ... *)
PutArchiveFails ==
    /\ On("put")
    /\ archive' = [archive EXCEPT ![inst.m] = "torn"]
    /\ position' = "end"
    /\ NextNode(TRUE)
    /\ UNCHANGED <<siteVars, installs, cache, image, api>>

(* ... import it, which an empty archive does without an image ... *)
Import ==
    /\ On("import")
    /\ \/ /\ image' = IF archive[inst.m] = "whole"
                      THEN [image EXCEPT ![inst.c] = @ \cup {inst.m}] ELSE image
          /\ Do("rm")
       \/ image' = image /\ inst' = [inst EXCEPT !.at = "rm", !.errs = TRUE]
    /\ UNCHANGED <<siteVars, installs, cache, archive, position, api>>

(* Mutant: a file that could not be removed is not an error. *)
RemoveQuietly ==
    /\ On("rm")
    /\ archive' \in {archive, [archive EXCEPT ![inst.m] = "none"]}
    /\ NextNode(inst.errs)
    /\ UNCHANGED <<siteVars, installs, cache, image, position, api>>

(* ... and remove the file, whether or not it was imported. *)
RemoveArchive ==
    /\ On("rm")
    /\ \/ /\ archive' = [archive EXCEPT ![inst.m] = "none"]
          /\ NextNode(inst.errs)
       \/ archive' = archive /\ NextNode(TRUE)
    /\ UNCHANGED <<siteVars, installs, cache, image, position, api>>

(* Client.Server: the first control plane that answers the probe. *)
Server ==
    /\ inst.at \in {"apply", "rollout"} /\ inst.server = 0
    /\ \E k \in Controllers :
          serving[k] /\ inst' = [inst EXCEPT !.server = k]
    /\ UNCHANGED <<siteVars, installs, cache, images, api>>

(* Client.Apply sends the manifest to it. *)
Apply ==
    /\ On("apply") /\ inst.server # 0 /\ serving[inst.server]
    /\ applied' = [applied EXCEPT ![inst.c] = inst.manifest]
    /\ inst' = [inst EXCEPT !.at = "rollout", !.server = 0]
    /\ UNCHANGED <<siteVars, installs, cache, images, available>>

AfterComponent ==
    IF inst.c < K THEN [Idle EXCEPT !.at = "fetch", !.c = inst.c + 1]
    ELSE [Idle EXCEPT !.at = "ok"]

(* Mutant: the next component does not wait for this one's Deployments. *)
NoRolloutStatus ==
    /\ On("rollout") /\ inst.server # 0 /\ serving[inst.server]
    /\ inst' = AfterComponent
    /\ UNCHANGED <<siteVars, installs, cache, images, api>>

(* Client.Run of `rollout status` for the Deployments. *)
RolloutStatus ==
    /\ On("rollout") /\ inst.server # 0 /\ serving[inst.server]
    /\ available[inst.c]
    /\ inst' = AfterComponent
    /\ UNCHANGED <<siteVars, installs, cache, images, api>>

Installing == inst.at \notin {"idle", "ok"}

(* A command fails, with or without its effect, no control plane answers,  *)
(* a rollout takes too long, or the caller dies: Install ends.  A manifest *)
(* being cached may be left in half, since it is written in place.         *)
InstallFails ==
    /\ Installing
    /\ inst' = Idle
    /\ IF On("fetch") /\ cache[inst.c] = "none"
       THEN cache' \in {[cache EXCEPT ![inst.c] = x] : x \in File}
       ELSE UNCHANGED cache
    /\ IF On("apply") /\ inst.server # 0
       THEN applied' \in {applied, [applied EXCEPT ![inst.c] = inst.manifest]}
       ELSE UNCHANGED applied
    /\ IF On("put") THEN archive' \in {archive, [archive EXCEPT ![inst.m] = "torn"]}
       ELSE UNCHANGED archive
    /\ UNCHANGED <<siteVars, installs, image, position, available>>

(* External: Deployments roll out where their image is; half a manifest    *)
(* may still have them.                                                    *)
RollsOut(c) ==
    /\ applied[c] # "none" /\ ~available[c] /\ image[c] = Member
    /\ available' = [available EXCEPT ![c] = TRUE]
    /\ UNCHANGED <<siteVars, inst, installs, cache, images, applied>>

InstallStep ==
    \/ FetchCached \/ Download \/ Seek \/ PutArchive \/ PutArchiveFails
    \/ Import \/ RemoveArchive \/ Server \/ Apply \/ RolloutStatus \/ InstallFails

(* The caller builds the site once EnsureFeatures has succeeded on its     *)
(* Windows worker.  A restart that is still to come then is one of the     *)
(* reasons for BuildFails and no longer told apart.                        *)
BuildSite ==
    /\ call = "ok" /\ StartBuild
    /\ feature' = "installed" /\ scheduled' = FALSE /\ rebooted' = FALSE /\ disturbed' = FALSE
    /\ UNCHANGED call

(* One call at a time: EnsureFeatures, Build, Install. *)
Next ==
    \/ builds = 0 /\ FeaturesNext /\ UNCHANGED <<siteVars, rolloutVars>>
    \/ BuildSite /\ UNCHANGED rolloutVars
    \/ SiteStep /\ UNCHANGED <<featureVars, rolloutVars>>
    \/ (\/ StartInstall \/ InstallStep
        \/ \E c \in Component : RollsOut(c)) /\ UNCHANGED featureVars

Spec == Init /\ [][Next]_vars

-----------------------------------------------------------------------------
(* A lab may have no route to a registry: when a manifest is applied, the  *)
(* image it names is on every member, though CarryArchive goes on after an *)
(* error and reads one archive for all of them.                            *)
ImagesBeforeApply ==
    [][\A c \in Component : applied'[c] # applied[c] => image[c] = Member]_vars

(* "its Deployments must roll out before the next component" (Install), in *)
(* this call of Install or an earlier one.                                 *)
OrderedRollout ==
    [][\A c \in Component : applied'[c] # applied[c] =>
          \A d \in Component : d < c => available[d]]_vars

(* An Install that reports success has applied every manifest whole,       *)
(* rolled it out and left no archive on a member.  A manifest that a dying *)
(* caller left in half in the cache is the exception: fetch uses it.       *)
InstalledMeansWhole ==
    On("ok") => /\ \A c \in Component :
                      available[c] /\ (applied[c] = "whole" \/ cache[c] = "torn")
                /\ \A m \in Member : archive[m] = "none"
=============================================================================
