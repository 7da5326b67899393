---------------------------- MODULE RemoteBootstrap ----------------------------
(***************************************************************************)
(* Remote Enhancements before a shell opens: ensureRemoteEnhancements-     *)
(* BeforeShell and RemoteBootstrapService in the backend, and the program  *)
(* they run on the host, which copies itself, writes a helper, hooks it    *)
(* into the user's profile and writes a version marker.                    *)
(*                                                                         *)
(* A session has fifteen seconds for all of it and opens its shell anyway; *)
(* what it started on the host may go on, stop anywhere, meet the install  *)
(* of another session, an edit of the profile by the user, or lose power.  *)
(***************************************************************************)
EXTENDS Naturals

CONSTANTS
    Session,    \* sessions to one host and user, each opened once
    Version,    \* versions the manifest names
    Line        \* lines the user adds to the profile, each saved once

NoVersion == "none"

(* A version is told from no version.                                       *)
ASSUME VersionAssumption == NoVersion \notin Version

VARIABLES
    isFish,     \* the login shell of the host's user is fish: it never changes
    phase,      \* per session: how far its ensure has come
    want,       \* per session: the version of the manifest it was given
    transport,  \* per session: its own SSH client: "none", "opening", "open", "closed"
    matched,    \* per session: how many parts of the installed status were current so far
    cache,      \* the cached manifest's version, or NoVersion
    loading,    \* whether the shared load of the manifest runs
    install,    \* per session: where the installer it started is
    copy,       \* per session: the profile lines its installer read
    disk,       \* the files of the host
    durable,    \* what a loss of power leaves of them, at least
    saved,      \* lines the user has saved
    raced,      \* those saved while an installer held an older copy
    clean,      \* sessions whose files no one else changed since they looked
    powerLost   \* bound: power is lost once

backend == <<phase, want, transport, matched, cache, loading>>
host    == <<install, copy, disk, durable>>
ghosts  == <<saved, raced, clean, powerLost>>
bootstrapVars == <<isFish, backend, host, ghosts>>

Running == {"settings", "manifest", "probe", "status", "install", "verify"}
Ended   == {"ready", "unverified", "disabled"}
Writing == {"binary", "binarySync", "helper", "helperSync", "profileRead", "profile",
            "profileSync", "version", "versionSync"}
Files   == [binary : Version \cup {NoVersion}, helper : Version \cup {NoVersion},
            version : Version \cup {NoVersion}, hook : BOOLEAN, lines : SUBSET Line]

BootstrapTypeOK ==
    /\ isFish \in BOOLEAN
    /\ phase \in [Session -> {"new"} \cup Running \cup Ended]
    /\ want \in [Session -> Version \cup {NoVersion}]
    /\ transport \in [Session -> {"none", "opening", "open", "closed"}]
    /\ matched \in [Session -> 0 .. 3]
    /\ cache \in Version \cup {NoVersion} /\ loading \in BOOLEAN
    /\ install \in [Session -> {"none", "download", "done", "skipped", "failed"} \cup Writing]
    /\ copy \in [Session -> SUBSET Line]
    /\ disk \in Files /\ durable \in Files
    /\ saved \subseteq Line /\ raced \subseteq saved
    /\ clean \subseteq Session /\ powerLost \in BOOLEAN

-----------------------------------------------------------------------------
(* Helpers                                                                  *)

Complete(v) ==
    disk.binary = v /\ disk.helper = v /\ disk.version = v /\ disk.hook

(* The finally block: the client is ended or destroyed; one still opening   *)
(* is destroyed when it is ready.                                           *)
Disposed(t) == IF t = "open" THEN "closed" ELSE t

End(s, result) ==
    /\ phase' = [phase EXCEPT ![s] = result]
    /\ transport' = [transport EXCEPT ![s] = Disposed(@)]
    /\ matched' = [matched EXCEPT ![s] = 0]

Enter(s, next) ==
    /\ phase' = [phase EXCEPT ![s] = next]
    /\ matched' = [matched EXCEPT ![s] = 0]
    /\ UNCHANGED transport

Set(s, stage) == install' = [install EXCEPT ![s] = stage]

(* A file changes: no session that looked before can count on what it saw.  *)
DisturbedBy(v) == clean' = {s \in clean : want[s] = v}

-----------------------------------------------------------------------------
(* The session                                                              *)

(* The gates of the server, the settings and the manifest URL.              *)
Begin(s) ==
    /\ phase[s] = "new"
    /\ \/ Enter(s, "settings") \/ Enter(s, "disabled")
    /\ UNCHANGED <<want, cache, loading, host, ghosts>>

SettingsDisable(s) ==
    /\ phase[s] = "settings" /\ End(s, "disabled")
    /\ UNCHANGED <<want, cache, loading, host, ghosts>>

(* loadSharedManifest: the cache, the load in flight, or a new one.         *)
LoadManifest(s) ==
    /\ phase[s] = "settings"
    /\ IF cache # NoVersion
         THEN /\ Enter(s, "probe") /\ want' = [want EXCEPT ![s] = cache]
              /\ UNCHANGED loading
         ELSE Enter(s, "manifest") /\ loading' = TRUE /\ UNCHANGED want
    /\ UNCHANGED <<cache, host, ghosts>>

(* Whoever still waits has it.                                              *)
ManifestArrives(v) ==
    /\ loading /\ loading' = FALSE /\ cache' = v
    /\ phase' = [s \in Session |-> IF phase[s] = "manifest" THEN "probe" ELSE phase[s]]
    /\ want' = [s \in Session |-> IF phase[s] = "manifest" THEN v ELSE want[s]]
    /\ UNCHANGED <<transport, matched, host, ghosts>>

(* A failure reaches those who wait and is not kept.                        *)
ManifestFails ==
    /\ loading /\ loading' = FALSE
    /\ phase' = [s \in Session |-> IF phase[s] = "manifest" THEN "disabled" ELSE phase[s]]
    /\ UNCHANGED <<want, transport, matched, cache, host, ghosts>>

CacheExpires ==
    /\ cache # NoVersion /\ cache' = NoVersion
    /\ UNCHANGED <<phase, want, transport, matched, loading, host, ghosts>>

(* The first remote command opens the transport of the bootstrap.           *)
OpenTransport(s) ==
    /\ phase[s] = "probe" /\ transport[s] = "none"
    /\ transport' = [transport EXCEPT ![s] = "opening"]
    /\ UNCHANGED <<phase, want, matched, cache, loading, host, ghosts>>

(* It is ready; if its session gave up meanwhile, it is destroyed.          *)
TransportReady(s) ==
    /\ transport[s] = "opening"
    /\ transport' = [transport EXCEPT ![s] = IF phase[s] \in Ended THEN "closed" ELSE "open"]
    /\ UNCHANGED <<phase, want, matched, cache, loading, host, ghosts>>

(* It cannot be opened, or breaks: the probe fails, or the ensure is        *)
(* aborted.                                                                 *)
TransportFails(s) ==
    /\ transport[s] \in {"opening", "open"}
    /\ phase' = [phase EXCEPT ![s] = IF @ \in Running THEN "disabled" ELSE @]
    /\ transport' = [transport EXCEPT ![s] = "closed"]
    /\ matched' = [matched EXCEPT ![s] = 0]
    /\ UNCHANGED <<want, cache, loading, host, ghosts>>

ProbeFails(s) ==
    /\ phase[s] = "probe" /\ transport[s] = "open" /\ End(s, "disabled")
    /\ UNCHANGED <<want, cache, loading, host, ghosts>>

ProbeSucceeds(s) ==
    /\ phase[s] = "probe" /\ transport[s] = "open" /\ Enter(s, "status")
    /\ clean' = clean \cup {s}
    /\ UNCHANGED <<want, cache, loading, host, saved, raced, powerLost>>

(* The status command of the installed binary reads the marker, the helper, *)
(* the profiles and itself, one after the other.                            *)
PartIsCurrent(s) ==
    CASE matched[s] = 0 -> disk.binary # NoVersion /\ disk.version = want[s]
      [] matched[s] = 1 -> disk.helper = want[s]
      [] matched[s] = 2 -> disk.hook
      [] matched[s] = 3 -> disk.binary = want[s]

(* isCurrentInstalledStatus fails, or there is no status.                   *)
NotCurrent(s) ==
    IF phase[s] = "status"
      THEN /\ Enter(s, "install") /\ Set(s, "download")
      ELSE End(s, "unverified") /\ UNCHANGED install

ReadStatus(s) ==
    /\ phase[s] \in {"status", "verify"}
    /\ CASE ~PartIsCurrent(s) -> NotCurrent(s)
         [] PartIsCurrent(s) /\ matched[s] < 3 ->
              /\ matched' = [matched EXCEPT ![s] = @ + 1]
              /\ UNCHANGED <<phase, transport, install>>
         [] OTHER -> End(s, "ready") /\ UNCHANGED install
    /\ UNCHANGED <<want, cache, loading, copy, disk, durable, ghosts>>

(* The command cannot be run.                                               *)
StatusFails(s) ==
    /\ phase[s] \in {"status", "verify"} /\ NotCurrent(s)
    /\ clean' = IF phase[s] = "verify" THEN clean \ {s} ELSE clean
    /\ UNCHANGED <<want, cache, loading, copy, disk, durable, saved, raced, powerLost>>

(* The install command is over: its last status decides.                    *)
InstallReturns(s) ==
    /\ phase[s] = "install" /\ install[s] \in {"done", "skipped", "failed"}
    /\ IF install[s] = "failed" THEN End(s, "disabled") ELSE Enter(s, "verify")
    /\ UNCHANGED <<want, cache, loading, host, ghosts>>

(* Fault: the load others wait for is cancelled with the session.           *)
Mut_TimeoutCancelsLoad(s) ==
    /\ phase[s] \in Running /\ End(s, "disabled")
    /\ loading' = FALSE
    /\ UNCHANGED <<want, cache, host, ghosts>>

(* Fifteen seconds have passed, or the primary transport is gone.           *)
GiveUp(s) ==
    /\ phase[s] \in Running /\ End(s, "disabled")
    /\ UNCHANGED <<want, cache, loading, host, ghosts>>

-----------------------------------------------------------------------------
(* The installer on the host                                                *)

(* Fault: only the version marker is looked at.                             *)
Mut_TrustMarker(s) ==
    /\ install[s] = "download" /\ disk.version = want[s] /\ Set(s, "skipped")
    /\ UNCHANGED <<backend, copy, disk, durable, ghosts>>

(* isCurrentInstallation, read at once: nothing to do.                      *)
Skip(s) ==
    /\ install[s] = "download" /\ Complete(want[s]) /\ Set(s, "skipped")
    /\ UNCHANGED <<backend, copy, disk, durable, ghosts>>

StartWriting(s) ==
    /\ install[s] = "download" /\ ~Complete(want[s]) /\ Set(s, "binary")
    /\ UNCHANGED <<backend, copy, disk, durable, ghosts>>

(* A file is written and synced aside, then renamed over the old one.       *)
RenameFile(s, file, next) ==
    /\ install[s] = file /\ Set(s, next)
    /\ disk' = [disk EXCEPT ![file] = want[s]]
    /\ DisturbedBy(want[s])
    /\ UNCHANGED <<backend, copy, durable, saved, raced, powerLost>>

(* Fault: the directory is not synced.                                      *)
Mut_NoDirectorySync(s, stage, fields, next) ==
    /\ install[s] = stage /\ Set(s, next)
    /\ UNCHANGED <<backend, copy, disk, durable, ghosts>>

(* Then the directory is: what was renamed there is durable.                *)
SyncDirectory(s, stage, fields, next) ==
    /\ install[s] = stage /\ Set(s, next)
    /\ durable' = [f \in DOMAIN disk |-> IF f \in fields THEN disk[f] ELSE durable[f]]
    /\ UNCHANGED <<backend, copy, disk, ghosts>>

InstallFiles(s) ==
    \/ RenameFile(s, "binary", "binarySync")
    \/ SyncDirectory(s, "binarySync", {"binary", "version"}, "helper")
    \/ RenameFile(s, "helper", "helperSync")
    \/ SyncDirectory(s, "helperSync", {"helper"}, "profileRead")

(* updateProfiles, not for fish: the profile is read, its hook block         *)
(* replaced, and the whole renamed into place.                              *)
ReadProfile(s) ==
    /\ install[s] = "profileRead" /\ ~isFish /\ Set(s, "profile")
    /\ copy' = [copy EXCEPT ![s] = disk.lines]
    /\ UNCHANGED <<backend, disk, durable, ghosts>>

(* Fault: the block is written without what surrounds it.                   *)
Mut_ProfileOverwritten(s) ==
    /\ install[s] = "profile" /\ Set(s, "profileSync")
    /\ disk' = [disk EXCEPT !.hook = TRUE, !.lines = {}]
    /\ copy' = [copy EXCEPT ![s] = {}]
    /\ UNCHANGED <<backend, durable, ghosts>>

WriteProfile(s) ==
    /\ install[s] = "profile" /\ Set(s, "profileSync")
    /\ disk' = [disk EXCEPT !.hook = TRUE, !.lines = copy[s]]
    /\ copy' = [copy EXCEPT ![s] = {}]
    /\ UNCHANGED <<backend, durable, ghosts>>

(* fish has a file for the hook alone (conf.d/cosmosh.fish): it is replaced  *)
(* unread, whatever else it holds.                                          *)
WriteFishProfile(s) ==
    /\ install[s] = "profileRead" /\ isFish /\ Set(s, "profileSync")
    /\ disk' = [disk EXCEPT !.hook = TRUE, !.lines = {}]
    /\ UNCHANGED <<backend, copy, durable, ghosts>>

UpdateProfiles(s) ==
    \/ ReadProfile(s) \/ WriteProfile(s) \/ WriteFishProfile(s)
    \/ SyncDirectory(s, "profileSync", {"hook", "lines"}, "version")

WriteVersion(s) ==
    \/ RenameFile(s, "version", "versionSync")
    \/ SyncDirectory(s, "versionSync", {"binary", "version"}, "done")

(* The download, the checksum or a write fails, or the process is killed.   *)
InstallFails(s) ==
    /\ install[s] \in {"download"} \cup Writing /\ Set(s, "failed")
    /\ copy' = [copy EXCEPT ![s] = {}]
    /\ UNCHANGED <<backend, disk, durable, ghosts>>

-----------------------------------------------------------------------------
(* The user and the host                                                    *)

(* The user adds a line to the profile, and may remove the hook.            *)
UserSaves(l) ==
    /\ l \notin saved /\ saved' = saved \cup {l}
    /\ \E hook \in {disk.hook, FALSE} :
         /\ disk' = [disk EXCEPT !.lines = @ \cup {l}, !.hook = hook]
         /\ durable' = [durable EXCEPT !.lines = disk.lines \cup {l}, !.hook = hook]
         /\ clean' = IF hook THEN clean ELSE {}
    /\ raced' = IF \E s \in Session : install[s] = "profile" THEN raced \cup {l} ELSE raced
    /\ UNCHANGED <<backend, install, copy, powerLost>>

(* Of every rename not yet durable, either side may survive; connections    *)
(* and processes are gone.                                                  *)
PowerLoss ==
    /\ ~powerLost /\ powerLost' = TRUE /\ clean' = {}
    /\ \E old \in SUBSET {"binary", "helper", "version"}, oldProfile \in BOOLEAN :
         disk' = [f \in DOMAIN disk |->
                    IF f \in old \/ (oldProfile /\ f \in {"hook", "lines"})
                    THEN durable[f] ELSE disk[f]]
    /\ durable' = disk'
    /\ install' = [s \in Session |->
                     IF install[s] \in {"download"} \cup Writing THEN "failed" ELSE install[s]]
    /\ copy' = [s \in Session |-> {}]
    /\ UNCHANGED <<backend, saved, raced>>

-----------------------------------------------------------------------------
(* An install over an older one, or over nothing, that ended after any of   *)
(* its four writes.                                                         *)
Left(old, new, writes) ==
    [binary |-> IF writes >= 1 THEN new ELSE old, helper |-> IF writes >= 2 THEN new ELSE old,
     hook |-> writes >= 3 \/ old # NoVersion, version |-> IF writes = 4 THEN new ELSE old,
     lines |-> {}]

BootstrapInit ==
    /\ isFish \in BOOLEAN
    /\ phase = [s \in Session |-> "new"] /\ want = [s \in Session |-> NoVersion]
    /\ transport = [s \in Session |-> "none"] /\ matched = [s \in Session |-> 0]
    /\ cache = NoVersion /\ loading = FALSE
    /\ install = [s \in Session |-> "none"] /\ copy = [s \in Session |-> {}]
    /\ \E old \in Version \cup {NoVersion}, new \in Version, writes \in 0 .. 4 :
         disk = Left(old, new, writes)
    /\ durable = disk
    /\ saved = {} /\ raced = {} /\ clean = {} /\ powerLost = FALSE

SessionStep(s) ==
    \/ Begin(s) \/ SettingsDisable(s) \/ LoadManifest(s)
    \/ OpenTransport(s) \/ TransportReady(s) \/ TransportFails(s)
    \/ ProbeFails(s) \/ ProbeSucceeds(s)
    \/ ReadStatus(s) \/ StatusFails(s) \/ InstallReturns(s) \/ GiveUp(s)

InstallerStep(s) ==
    \/ Skip(s) \/ StartWriting(s)
    \/ InstallFiles(s) \/ UpdateProfiles(s) \/ WriteVersion(s)
    \/ InstallFails(s)

BootstrapNext ==
    /\ \/ \E s \in Session : SessionStep(s) \/ InstallerStep(s)
       \/ \E v \in Version : ManifestArrives(v)
       \/ ManifestFails \/ CacheExpires
       \/ \E l \in Line : UserSaves(l)
       \/ PowerLoss
    /\ UNCHANGED isFish

BootstrapSpec == BootstrapInit /\ [][BootstrapNext]_bootstrapVars

-----------------------------------------------------------------------------
(* Properties                                                               *)

(* When the shell opens, no transport of the bootstrap is open beside it;   *)
(* and a session that waits for the manifest waits for a load that runs,    *)
(* whoever else gave up on it (ensureRemoteEnhancementsBeforeShell,         *)
(* loadSharedManifest).                                                     *)
EnsureIsSafe ==
    /\ BootstrapTypeOK
    /\ \A s \in Session : phase[s] \in Ended => transport[s] # "open"
    /\ \A s \in Session : phase[s] = "manifest" => loading

(* Whatever earlier installs left behind, a session nobody interferes with  *)
(* repairs it: it is never told that what it installed is not current, and  *)
(* what it then trusts is installed completely (Status, Run).               *)
RepairSucceeds ==
    \A s \in clean :
        /\ phase[s] # "unverified"
        /\ phase[s] = "ready" => Complete(want[s])

(* What an undisturbed install wrote survives a loss of power, if the       *)
(* directories it was written to do (commitAtomicTarget).                   *)
InstalledIsDurable ==
    \A s \in clean : install[s] = "done" =>
        durable.binary = want[s] /\ durable.helper = want[s]
        /\ durable.version = want[s] /\ (disk.hook => durable.hook)

(* A line the user saved in the profile of a shell other than fish is only  *)
(* lost to an installer that had read the profile and not yet written it    *)
(* (updateProfiles).                                                        *)
OnlyRacedEditsAreLost == ~isFish => saved \ raced \subseteq disk.lines
=============================================================================
