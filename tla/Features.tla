------------------------------ MODULE Features ------------------------------
(***************************************************************************)
(* windows.EnsureFeatures: install server features in a Windows guest and, *)
(* if that needs it, reboot the guest and wait until it is back.           *)
(*                                                                         *)
(* Three commands run in the guest one after another, each possibly with   *)
(* its effect and without its answer; a call that fails may be made again. *)
(* Between any two of them the guest may reboot, because it was told to    *)
(* two seconds before or by itself.                                        *)
(***************************************************************************)
EXTENDS Naturals

VARIABLES
    call,        \* where EnsureFeatures stands
    feature,     \* the requested features in the guest; "pending": at the next boot
    scheduled,   \* a restart is scheduled in the guest
    rebooted,    \* the boot identity is not the one the install command reported
    disturbed    \* history: a call failed, or the guest rebooted by itself under one

featureVars == <<call, feature, scheduled, rebooted, disturbed>>
guest == <<feature, scheduled, rebooted>>

FeaturesTypeOK ==
    /\ call \in {"idle", "install", "shutdown", "probe", "ok"}
    /\ feature \in {"missing", "pending", "installed"}
    /\ scheduled \in BOOLEAN /\ rebooted \in BOOLEAN /\ disturbed \in BOOLEAN

FeaturesInit ==
    /\ call = "idle"
    /\ feature \in {"missing", "installed"}
    /\ scheduled = FALSE /\ rebooted = FALSE /\ disturbed = FALSE

Ensuring == call \in {"install", "shutdown", "probe"}

Ensure ==
    /\ call = "idle"
    /\ call' = "install"
    /\ UNCHANGED <<guest, disturbed>>

(* External: what Get-WindowsFeature says of the features.  One that waits *)
(* for a reboot may show as installed.                                     *)
Shown(f) == {s \in BOOLEAN : f = "pending" \/ s = (f = "installed")}

(* External: Install-WindowsFeature of what is missing. *)
Outcomes == {"pending", "installed"}

(* The answer to the install command: a required reboot that is not        *)
(* allowed, and features still missing without one, are errors.            *)
Answered(installed, reboot) ==
    \/ reboot /\ call' = "shutdown" /\ UNCHANGED disturbed
    \/ ~reboot /\ installed /\ call' = "ok" /\ UNCHANGED disturbed
    \/ (reboot \/ ~installed) /\ call' = "idle" /\ disturbed' = TRUE

(* Query, install what is missing, query again, report the boot identity.  *)
(* A restart is needed when something becomes pending, and may be anyway.  *)
InstallFeatures ==
    /\ call = "install"
    /\ \/ TRUE \in Shown(feature) /\ UNCHANGED feature
          /\ \E installed \in Shown(feature) : Answered(installed, FALSE)
       \/ /\ FALSE \in Shown(feature)
          /\ feature' \in Outcomes
          /\ \E installed \in Shown(feature'), reboot \in BOOLEAN :
                (feature' = "pending" => reboot) /\ Answered(installed, reboot)
    /\ rebooted' = FALSE
    /\ UNCHANGED scheduled

(* `shutdown /r /t 2`, which Windows refuses while one is scheduled. *)
Shutdown ==
    /\ call = "shutdown" /\ ~scheduled
    /\ scheduled' = TRUE
    /\ call' = "probe"
    /\ UNCHANGED <<feature, rebooted, disturbed>>

(* Mutant: any boot will do. *)
ProbeAnyBoot ==
    /\ call = "probe" /\ TRUE \in Shown(feature)
    /\ call' = "ok"
    /\ UNCHANGED <<guest, disturbed>>

(* A probe that finds another boot identity and all features. *)
ProbeFeatures ==
    /\ call = "probe" /\ TRUE \in Shown(feature) /\ rebooted
    /\ call' = "ok"
    /\ UNCHANGED <<guest, disturbed>>

(* A command fails, perhaps after its effect, RebootTimeout is over, or    *)
(* the context ends.                                                       *)
EnsureFails ==
    /\ Ensuring
    /\ call' = "idle" /\ disturbed' = TRUE
    /\ IF call = "install" /\ FALSE \in Shown(feature)
       THEN feature' \in Outcomes \cup {feature} ELSE UNCHANGED feature
    /\ IF call = "shutdown" THEN scheduled' \in {scheduled, TRUE} ELSE UNCHANGED scheduled
    /\ UNCHANGED rebooted

(* External: the boot completes what was pending, or takes it back. *)
Boots ==
    /\ scheduled' = FALSE /\ rebooted' = TRUE
    /\ IF feature = "pending" THEN feature' \in {"installed", "missing"} ELSE UNCHANGED feature
    /\ UNCHANGED call

Restarts == scheduled /\ Boots /\ UNCHANGED disturbed

RebootsByItself == Boots /\ disturbed' = (disturbed \/ Ensuring)

EnsureStep == InstallFeatures \/ Shutdown \/ ProbeFeatures \/ EnsureFails

FeaturesNext == Ensure \/ EnsureStep \/ Restarts \/ RebootsByItself

-----------------------------------------------------------------------------
(* When EnsureFeatures reports success, the features are there and no      *)
(* restart is to come under what the caller does next: "Success after a    *)
(* reboot requires both a different boot identity and all requested        *)
(* features", where features that wait for a reboot may show as installed  *)
(* and the guest answers for two more seconds after it was told to         *)
(* restart.  The exceptions are a retry of a call that failed and a guest  *)
(* that rebooted by itself under the call.                                 *)
FeaturesSettled ==
    call = "ok" => disturbed \/ (feature = "installed" /\ ~scheduled)
=============================================================================
