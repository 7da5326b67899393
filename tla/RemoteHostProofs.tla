-------------------------- MODULE RemoteHostProofs --------------------------
(***************************************************************************)
(* What is written on the remote host: the helper and the profile that the *)
(* bootstrap of a session installs, for any sessions, versions and lines,  *)
(* and a file that is replaced over SFTP, for any number of uploaders,     *)
(* whatever the server's renames do and however requests, failures and     *)
(* session closes interleave.                                              *)
(***************************************************************************)
EXTENDS RemoteBootstrap, RemoteReplace, FiniteSetTheorems, TLAPS

-----------------------------------------------------------------------------
(* The bootstrap.                                                          *)
(*                                                                         *)
(* Three inductive invariants, each over the type of the state: EnsureInv  *)
(* for the sessions, LinesInv for the profile, InstallInv for what an      *)
(* installer nobody disturbed has left on the host.                        *)

-----------------------------------------------------------------------------
(* The type of the state.                                                   *)

\* What an earlier install left behind are files.
LEMMA LeftFiles ==
  ASSUME NEW old \in Version \cup {NoVersion}, NEW new \in Version, NEW writes \in 0 .. 4
  PROVE  Left(old, new, writes) \in Files
  BY DEF Files, Left

\* The initial states have their types.
LEMMA TypeInitially == BootstrapInit => BootstrapTypeOK
<1> SUFFICES ASSUME BootstrapInit PROVE BootstrapTypeOK
  OBVIOUS
<1>1. disk \in Files /\ durable \in Files
  BY LeftFiles DEF BootstrapInit
<1>2. phase \in [Session -> {"new"} \cup Running \cup Ended]
  BY DEF BootstrapInit
<1>3. want \in [Session -> Version \cup {NoVersion}] /\ cache \in Version \cup {NoVersion} /\ loading \in BOOLEAN
  BY DEF BootstrapInit
<1>4. transport \in [Session -> {"none", "opening", "open", "closed"}]
  BY DEF BootstrapInit
<1>5. matched \in [Session -> 0 .. 3]
  BY DEF BootstrapInit
<1>6. install \in [Session -> {"none", "download", "done", "skipped", "failed"} \cup Writing]
  BY DEF BootstrapInit
<1>7. copy \in [Session -> SUBSET Line]
  BY DEF BootstrapInit
<1>8. /\ isFish \in BOOLEAN /\ saved \subseteq Line /\ raced \subseteq saved
    /\ clean \subseteq Session /\ powerLost \in BOOLEAN
  BY DEF BootstrapInit
<1> QED
  BY <1>1, <1>2, <1>3, <1>4, <1>5, <1>6, <1>7, <1>8 DEF BootstrapTypeOK

\* A rename leaves files.
LEMMA RenamedFiles ==
  ASSUME BootstrapTypeOK, NEW s \in Session, NEW file \in {"binary", "helper", "version"}
  PROVE  [disk EXCEPT ![file] = want[s]] \in Files
  BY DEF BootstrapTypeOK, Files

\* Some fields of one host's files and the rest of another's are files:
\* what a directory sync makes durable.
LEMMA MergedFiles ==
  ASSUME NEW new \in Files, NEW old \in Files, NEW fields
  PROVE  [f \in DOMAIN new |-> IF f \in fields THEN new[f] ELSE old[f]] \in Files
  BY DEF Files

\* Each step of a session keeps the types.
LEMMA SessionStepKeepsType ==
  ASSUME BootstrapTypeOK, UNCHANGED isFish, NEW s \in Session, SessionStep(s)
  PROVE  BootstrapTypeOK'
<1> USE DEF BootstrapTypeOK, bootstrapVars, backend, host, ghosts, Enter, End, Running, Ended
<1>1. CASE Begin(s)
  BY <1>1 DEF Begin
<1>2. CASE SettingsDisable(s)
  BY <1>2 DEF SettingsDisable, Disposed
<1>3. CASE LoadManifest(s)
  <2>1. CASE cache # NoVersion
    BY <1>3, <2>1 DEF LoadManifest
  <2>2. CASE cache = NoVersion
    BY <1>3, <2>2 DEF LoadManifest
  <2> QED
    BY <2>1, <2>2
<1>4. CASE OpenTransport(s)
  BY <1>4 DEF OpenTransport
<1>5. CASE TransportReady(s)
  BY <1>5 DEF TransportReady
<1>6. CASE TransportFails(s)
  BY <1>6 DEF TransportFails
<1>7. CASE ProbeFails(s)
  BY <1>7 DEF ProbeFails, Disposed
<1>8. CASE ProbeSucceeds(s)
  BY <1>8 DEF ProbeSucceeds
<1>9. CASE ReadStatus(s)
  BY <1>9 DEF ReadStatus, NotCurrent, Set, Disposed
<1>10. CASE StatusFails(s)
  BY <1>10 DEF StatusFails, NotCurrent, Set, Disposed
<1>11. CASE InstallReturns(s)
  BY <1>11 DEF InstallReturns, Disposed
<1>12. CASE GiveUp(s)
  BY <1>12 DEF GiveUp, Disposed
<1> QED
  BY <1>1, <1>2, <1>3, <1>4, <1>5, <1>6, <1>7, <1>8, <1>9, <1>10, <1>11, <1>12 DEF SessionStep

\* So does each step of an installer.
LEMMA InstallerStepKeepsType ==
  ASSUME BootstrapTypeOK, UNCHANGED isFish, NEW s \in Session, InstallerStep(s)
  PROVE  BootstrapTypeOK'
<1>1. /\ phase' = phase /\ want' = want /\ transport' = transport /\ matched' = matched
      /\ cache' = cache /\ loading' = loading
      /\ saved' = saved /\ raced' = raced /\ powerLost' = powerLost
      /\ clean' \subseteq clean
  BY DEF InstallerStep, Skip, StartWriting, InstallFiles, UpdateProfiles, WriteVersion,
         InstallFails, RenameFile, SyncDirectory, ReadProfile, WriteProfile,
         WriteFishProfile, DisturbedBy, backend, ghosts
<1>2. \E next \in {"done", "skipped", "failed"} \cup Writing : Set(s, next)
  BY DEF InstallerStep, Skip, StartWriting, InstallFiles, UpdateProfiles, WriteVersion,
         InstallFails, RenameFile, SyncDirectory, ReadProfile, WriteProfile,
         WriteFishProfile, Writing
<1>3. install' \in [Session -> {"none", "download", "done", "skipped", "failed"} \cup Writing]
  BY <1>2 DEF BootstrapTypeOK, Set
<1>4. disk' \in Files
  <2>1. CASE WriteProfile(s) \/ WriteFishProfile(s)
    BY <2>1 DEF WriteProfile, WriteFishProfile, BootstrapTypeOK, Files
  <2>2. CASE \E file \in {"binary", "helper", "version"} : disk' = [disk EXCEPT ![file] = want[s]]
    BY <2>2, RenamedFiles
  <2>3. CASE disk' = disk
    BY <2>3 DEF BootstrapTypeOK
  <2> QED
    BY <2>1, <2>2, <2>3 DEF InstallerStep, Skip, StartWriting, InstallFiles, UpdateProfiles,
       WriteVersion, InstallFails, RenameFile, SyncDirectory, ReadProfile
<1>5. durable' \in Files
  <2>1. CASE durable' = durable
    BY <2>1 DEF BootstrapTypeOK
  <2>2. CASE \E fields : durable' = [f \in DOMAIN disk |-> IF f \in fields THEN disk[f] ELSE durable[f]]
    BY <2>2, MergedFiles DEF BootstrapTypeOK
  <2> QED
    BY <2>1, <2>2 DEF InstallerStep, Skip, StartWriting, InstallFiles, UpdateProfiles,
       WriteVersion, InstallFails, RenameFile, SyncDirectory, ReadProfile, WriteProfile,
       WriteFishProfile
<1>6. copy' \in [Session -> SUBSET Line]
  <2>1. disk.lines \in SUBSET Line
    BY DEF BootstrapTypeOK, Files
  <2>2. copy' = copy \/ copy' = [copy EXCEPT ![s] = {}] \/ copy' = [copy EXCEPT ![s] = disk.lines]
    BY DEF InstallerStep, Skip, StartWriting, InstallFiles, UpdateProfiles, WriteVersion,
           InstallFails, RenameFile, SyncDirectory, ReadProfile, WriteProfile,
           WriteFishProfile
  <2> QED
    BY <2>1, <2>2 DEF BootstrapTypeOK
<1> QED
  BY <1>1, <1>3, <1>4, <1>5, <1>6 DEF BootstrapTypeOK

\* So does the shared load of the manifest.
LEMMA ManifestStepKeepsType ==
  ASSUME BootstrapTypeOK, UNCHANGED isFish,
         ManifestFails \/ CacheExpires \/ \E v \in Version : ManifestArrives(v)
  PROVE  BootstrapTypeOK'
<1>1. CASE ManifestFails
  BY <1>1 DEF ManifestFails, BootstrapTypeOK, host, ghosts, Running, Ended
<1>2. CASE CacheExpires
  BY <1>2 DEF CacheExpires, BootstrapTypeOK, host, ghosts
<1>3. ASSUME NEW v \in Version, ManifestArrives(v) PROVE BootstrapTypeOK'
  BY <1>3 DEF ManifestArrives, BootstrapTypeOK, host, ghosts, Running
<1> QED
  BY <1>1, <1>2, <1>3

\* So do the user's edits and the loss of power.
LEMMA HostStepKeepsType ==
  ASSUME BootstrapTypeOK, UNCHANGED isFish, PowerLoss \/ \E l \in Line : UserSaves(l)
  PROVE  BootstrapTypeOK'
<1>1. CASE PowerLoss
  <2>1. disk' \in Files
    <3>1. PICK fields : disk' = [f \in DOMAIN disk |-> IF f \in fields THEN durable[f] ELSE disk[f]]
      <4>1. PICK old \in SUBSET {"binary", "helper", "version"}, oldProfile \in BOOLEAN :
              disk' = [f \in DOMAIN disk |->
                        IF f \in old \/ (oldProfile /\ f \in {"hook", "lines"})
                        THEN durable[f] ELSE disk[f]]
        BY <1>1 DEF PowerLoss
      <4>2. \A f : f \in old \/ (oldProfile /\ f \in {"hook", "lines"})
                 <=> f \in old \cup {g \in {"hook", "lines"} : oldProfile}
        OBVIOUS
      <4> QED
        BY <4>1, <4>2
    <3>2. DOMAIN disk = DOMAIN durable
      BY DEF BootstrapTypeOK, Files
    <3> QED
      BY <3>1, <3>2 DEF BootstrapTypeOK, Files
  <2> QED
    BY <1>1, <2>1 DEF PowerLoss, BootstrapTypeOK, backend
<1>2. ASSUME NEW l \in Line, UserSaves(l) PROVE BootstrapTypeOK'
  <2>1. disk' \in Files /\ durable' \in Files
    <3>1. PICK hook \in BOOLEAN :
            /\ disk' = [disk EXCEPT !.lines = @ \cup {l}, !.hook = hook]
            /\ durable' = [durable EXCEPT !.lines = disk.lines \cup {l}, !.hook = hook]
      BY <1>2 DEF UserSaves, BootstrapTypeOK, Files
    <3> QED
      BY <3>1 DEF BootstrapTypeOK, Files
  <2>2. raced' \subseteq raced \cup {l} /\ saved' = saved \cup {l}
    BY <1>2 DEF UserSaves
  <2>3. clean' \subseteq clean
    BY <1>2 DEF UserSaves
  <2>4. UNCHANGED <<backend, install, copy, powerLost>>
    BY <1>2 DEF UserSaves
  <2> QED
    BY <2>1, <2>2, <2>3, <2>4 DEF BootstrapTypeOK, backend
<1> QED
  BY <1>1, <1>2

\* Every state has its type: a session's stages, its transport and the
\* host's files are those the code can be in.
THEOREM TypeAlways == BootstrapSpec => []BootstrapTypeOK
<1>1. BootstrapTypeOK /\ [BootstrapNext]_bootstrapVars => BootstrapTypeOK'
  <2>1. CASE UNCHANGED bootstrapVars
    BY <2>1 DEF BootstrapTypeOK, bootstrapVars, backend, host, ghosts
  <2>2. CASE BootstrapNext
    BY <2>2, SessionStepKeepsType, InstallerStepKeepsType, ManifestStepKeepsType,
       HostStepKeepsType DEF BootstrapNext
  <2> QED
    BY <2>1, <2>2
<1> QED
  BY <1>1, TypeInitially, PTL DEF BootstrapSpec

-----------------------------------------------------------------------------
(* The sessions.                                                            *)

\* Strengthening of EnsureIsSafe: no transport is opened before the probe,
\* so a manifest that fails ends a session without one.
EnsureInv ==
    /\ EnsureIsSafe
    /\ \A s \in Session : phase[s] \in {"new", "settings", "manifest"} => transport[s] = "none"

\* Each step of a session keeps EnsureInv.
LEMMA SessionStepKeepsEnsure ==
  ASSUME EnsureInv, UNCHANGED isFish, NEW s \in Session, SessionStep(s)
  PROVE  EnsureInv'
<1>1. BootstrapTypeOK'
  BY SessionStepKeepsType DEF EnsureInv, EnsureIsSafe
<1> DEFINE Safe(p, t, l) == \A q \in Session :
              /\ p[q] \in Ended => t[q] # "open"
              /\ p[q] = "manifest" => l
              /\ p[q] \in {"new", "settings", "manifest"} => t[q] = "none"
<1> SUFFICES Safe(phase', transport', loading')
  BY <1>1 DEF EnsureInv, EnsureIsSafe
<1>2. Safe(phase, transport, loading)
  BY DEF EnsureInv, EnsureIsSafe
<1>3. /\ phase \in [Session -> {"new"} \cup Running \cup Ended]
      /\ transport \in [Session -> {"none", "opening", "open", "closed"}]
  BY DEF EnsureInv, EnsureIsSafe, BootstrapTypeOK
<1> USE <1>2, <1>3 DEF Enter, End, Running, Ended, Safe
<1>4. CASE Begin(s)
  BY <1>4 DEF Begin
<1>5. CASE SettingsDisable(s)
  BY <1>5 DEF SettingsDisable, Disposed
<1>6. CASE LoadManifest(s)
  BY <1>6 DEF LoadManifest
<1>7. CASE OpenTransport(s)
  BY <1>7 DEF OpenTransport
<1>8. CASE TransportReady(s)
  BY <1>8 DEF TransportReady
<1>9. CASE TransportFails(s)
  BY <1>9 DEF TransportFails
<1>10. CASE ProbeFails(s)
  BY <1>10 DEF ProbeFails, Disposed
<1>11. CASE ProbeSucceeds(s)
  BY <1>11 DEF ProbeSucceeds
<1>12. CASE ReadStatus(s)
  BY <1>12 DEF ReadStatus, NotCurrent, Disposed
<1>13. CASE StatusFails(s)
  BY <1>13 DEF StatusFails, NotCurrent, Disposed
<1>14. CASE InstallReturns(s)
  BY <1>14 DEF InstallReturns, Disposed
<1>15. CASE GiveUp(s)
  BY <1>15 DEF GiveUp, Disposed
<1> QED
  BY <1>4, <1>5, <1>6, <1>7, <1>8, <1>9, <1>10, <1>11, <1>12, <1>13, <1>14, <1>15 DEF SessionStep

\* When the shell opens no transport of the bootstrap is open beside it, and
\* who waits for the manifest waits for a load that runs
\* (ensureRemoteEnhancementsBeforeShell, loadSharedManifest).
THEOREM EnsureAlwaysSafe == BootstrapSpec => []EnsureIsSafe
<1>1. BootstrapInit => EnsureInv
  <2> SUFFICES ASSUME BootstrapInit PROVE EnsureInv
    OBVIOUS
  <2>1. BootstrapTypeOK
    BY TypeInitially
  <2> QED
    BY <2>1 DEF EnsureInv, EnsureIsSafe, BootstrapInit, Ended
<1>2. EnsureInv /\ [BootstrapNext]_bootstrapVars => EnsureInv'
  <2> SUFFICES ASSUME EnsureInv, [BootstrapNext]_bootstrapVars PROVE EnsureInv'
    OBVIOUS
  <2>1. UNCHANGED isFish
    BY DEF BootstrapNext, bootstrapVars
  <2>2. CASE UNCHANGED bootstrapVars
    BY <2>2 DEF EnsureInv, EnsureIsSafe, BootstrapTypeOK, bootstrapVars, backend, host, ghosts
  <2>3. ASSUME NEW s \in Session, SessionStep(s) PROVE EnsureInv'
    BY <2>1, <2>3, SessionStepKeepsEnsure
  <2>4. CASE \/ PowerLoss \/ \E l \in Line : UserSaves(l)
             \/ \E s \in Session : InstallerStep(s)
    <3>1. UNCHANGED backend
      BY <2>4 DEF PowerLoss, UserSaves, InstallerStep, Skip, StartWriting, InstallFiles,
         UpdateProfiles, WriteVersion, InstallFails, RenameFile, SyncDirectory, ReadProfile,
         WriteProfile, WriteFishProfile
    <3>2. BootstrapTypeOK'
      BY <2>1, <2>4, InstallerStepKeepsType, HostStepKeepsType DEF EnsureInv, EnsureIsSafe
    <3> QED
      BY <3>1, <3>2 DEF EnsureInv, EnsureIsSafe, backend
  <2>5. CASE ManifestFails \/ CacheExpires \/ \E v \in Version : ManifestArrives(v)
    <3>1. BootstrapTypeOK'
      BY <2>1, <2>5, ManifestStepKeepsType DEF EnsureInv, EnsureIsSafe
    <3>2. /\ transport' = transport
          /\ \/ phase' = phase /\ loading' = loading
             \/ \E next \in {"probe", "disabled"} :
                  phase' = [s \in Session |-> IF phase[s] = "manifest" THEN next ELSE phase[s]]
      BY <2>5 DEF ManifestFails, CacheExpires, ManifestArrives
    <3> QED
      BY <3>1, <3>2 DEF EnsureInv, EnsureIsSafe, Ended, BootstrapTypeOK
  <2> QED
    BY <2>2, <2>3, <2>4, <2>5 DEF BootstrapNext
<1> QED
  BY <1>1, <1>2, PTL DEF BootstrapSpec, EnsureInv

-----------------------------------------------------------------------------
(* The user's profile.                                                      *)

\* Where the lines of a profile that is read before it is written are: besides
\* the profile, in the durable one, which a loss of power may bring back, and
\* in the copy of every installer about to write one.
LinesKept ==
    /\ saved \ raced \subseteq disk.lines
    /\ saved \ raced \subseteq durable.lines
    /\ \A s \in Session : install[s] = "profile" => saved \ raced \subseteq copy[s]

\* Strengthening of OnlyRacedEditsAreLost: fish's file is not read, and keeps
\* nothing.
LinesInv == ~isFish => LinesKept

\* Each step of an installer keeps LinesInv.
LEMMA InstallerStepKeepsLines ==
  ASSUME BootstrapTypeOK, LinesInv, UNCHANGED isFish, NEW s \in Session, InstallerStep(s)
  PROVE  LinesInv'
<1> SUFFICES ASSUME ~isFish, LinesKept PROVE LinesKept'
  BY DEF LinesInv
<1> DEFINE kept == saved \ raced
<1>1. kept' = kept
  BY DEF InstallerStep, Skip, StartWriting, InstallFiles, UpdateProfiles, WriteVersion,
         InstallFails, RenameFile, SyncDirectory, ReadProfile, WriteProfile, WriteFishProfile,
         ghosts
<1>2. kept \subseteq disk.lines /\ kept \subseteq durable.lines
  BY DEF LinesKept
<1>3. \A q \in Session : install[q] = "profile" => kept \subseteq copy[q]
  BY DEF LinesKept
<1> SUFFICES /\ kept \subseteq disk'.lines /\ kept \subseteq durable'.lines
             /\ \A q \in Session : install'[q] = "profile" => kept \subseteq copy'[q]
  BY <1>1 DEF LinesKept
<1> HIDE DEF kept
<1> USE DEF Set, BootstrapTypeOK
<1>4. CASE Skip(s) \/ StartWriting(s)
  BY <1>2, <1>3, <1>4 DEF Skip, StartWriting
<1>5. ASSUME NEW file \in {"binary", "helper", "version"}, NEW next, next # "profile",
             RenameFile(s, file, next)
      PROVE  /\ kept \subseteq disk'.lines /\ kept \subseteq durable'.lines
             /\ \A q \in Session : install'[q] = "profile" => kept \subseteq copy'[q]
  BY <1>2, <1>3, <1>5 DEF RenameFile, Files
<1>6. ASSUME NEW stage, NEW fields, NEW next, next # "profile",
             SyncDirectory(s, stage, fields, next)
      PROVE  /\ kept \subseteq disk'.lines /\ kept \subseteq durable'.lines
             /\ \A q \in Session : install'[q] = "profile" => kept \subseteq copy'[q]
  BY <1>2, <1>3, <1>6 DEF SyncDirectory, Files
<1>7. CASE ReadProfile(s)
  BY <1>2, <1>3, <1>7 DEF ReadProfile
<1>8. CASE WriteProfile(s)
  BY <1>2, <1>3, <1>8 DEF WriteProfile, Files
<1>9. CASE InstallFails(s)
  BY <1>2, <1>3, <1>9 DEF InstallFails
<1>10. ~WriteFishProfile(s)
  BY DEF WriteFishProfile
<1> QED
  BY <1>4, <1>5, <1>6, <1>7, <1>8, <1>9, <1>10
     DEF InstallerStep, InstallFiles, UpdateProfiles, WriteVersion

\* So do the user's edits and the loss of power.
LEMMA HostStepKeepsLines ==
  ASSUME BootstrapTypeOK, LinesInv, UNCHANGED isFish,
         PowerLoss \/ \E l \in Line : UserSaves(l)
  PROVE  LinesInv'
<1> SUFFICES ASSUME LinesKept PROVE LinesKept'
  BY DEF LinesInv
<1>1. CASE PowerLoss
  <2>1. disk'.lines \in {disk.lines, durable.lines} /\ durable' = disk'
    BY <1>1 DEF PowerLoss, BootstrapTypeOK, Files
  <2>2. \A s \in Session : install'[s] # "profile"
    BY <1>1 DEF PowerLoss, BootstrapTypeOK, Writing
  <2>3. saved' = saved /\ raced' = raced
    BY <1>1 DEF PowerLoss
  <2> QED
    BY <2>1, <2>2, <2>3 DEF LinesKept
<1>2. ASSUME NEW l \in Line, UserSaves(l) PROVE LinesKept'
  <2>1. disk'.lines = disk.lines \cup {l} /\ durable'.lines = disk.lines \cup {l}
    BY <1>2 DEF UserSaves, BootstrapTypeOK, Files
  <2>2. install' = install /\ copy' = copy /\ saved' = saved \cup {l}
    BY <1>2 DEF UserSaves
  <2>3. CASE \E s \in Session : install[s] = "profile"
    <3>1. raced' = raced \cup {l}
      BY <1>2, <2>3 DEF UserSaves
    <3> QED
      BY <2>1, <2>2, <3>1 DEF LinesKept
  <2>4. CASE ~\E s \in Session : install[s] = "profile"
    <3>1. raced' = raced
      BY <1>2, <2>4 DEF UserSaves
    <3> QED
      BY <2>1, <2>2, <2>4, <3>1 DEF LinesKept
  <2> QED
    BY <2>3, <2>4
<1> QED
  BY <1>1, <1>2

\* A line the user saved in the profile of a shell other than fish is only lost
\* to an installer that had read the profile and not yet written it
\* (updateProfiles).
THEOREM OnlyRacedEditsAreEverLost == BootstrapSpec => []OnlyRacedEditsAreLost
<1>1. BootstrapInit => LinesInv
  BY DEF BootstrapInit, LinesInv, LinesKept
<1>2. BootstrapTypeOK /\ LinesInv /\ [BootstrapNext]_bootstrapVars => LinesInv'
  <2> SUFFICES ASSUME BootstrapTypeOK, LinesInv, [BootstrapNext]_bootstrapVars PROVE LinesInv'
    OBVIOUS
  <2>1. UNCHANGED isFish
    BY DEF BootstrapNext, bootstrapVars
  <2>2. CASE \/ UNCHANGED bootstrapVars
             \/ ManifestFails \/ CacheExpires \/ \E v \in Version : ManifestArrives(v)
    <3>1. UNCHANGED <<host, ghosts>>
      BY <2>2 DEF bootstrapVars, ManifestFails, CacheExpires, ManifestArrives
    <3>2. LinesKept' = LinesKept
      BY <3>1 DEF LinesKept, host, ghosts
    <3> QED
      BY <2>1, <3>2 DEF LinesInv
  <2>3. ASSUME NEW s \in Session, SessionStep(s) PROVE LinesInv'
    <3>1. UNCHANGED <<copy, disk, durable, saved, raced>>
      BY <2>3 DEF SessionStep, Begin, SettingsDisable, LoadManifest, OpenTransport, TransportReady,
         TransportFails, ProbeFails, ProbeSucceeds, ReadStatus, StatusFails, InstallReturns, GiveUp,
         host, ghosts
    <3>2. install' = install \/ install' = [install EXCEPT ![s] = "download"]
      BY <2>3 DEF SessionStep, Begin, SettingsDisable, LoadManifest, OpenTransport, TransportReady,
         TransportFails, ProbeFails, ProbeSucceeds, ReadStatus, StatusFails, InstallReturns, GiveUp,
         NotCurrent, Set, host
    <3>3. LinesKept => LinesKept'
      BY <3>1, <3>2 DEF LinesKept, BootstrapTypeOK
    <3> QED
      BY <2>1, <3>3 DEF LinesInv
  <2>4. ASSUME NEW s \in Session, InstallerStep(s) PROVE LinesInv'
    BY <2>1, <2>4, InstallerStepKeepsLines
  <2>5. CASE PowerLoss \/ \E l \in Line : UserSaves(l)
    BY <2>1, <2>5, HostStepKeepsLines
  <2> QED
    BY <2>2, <2>3, <2>4, <2>5 DEF BootstrapNext
<1>3. LinesInv => OnlyRacedEditsAreLost
  BY DEF LinesInv, LinesKept, OnlyRacedEditsAreLost
<1> QED
  BY <1>1, <1>2, <1>3, TypeAlways, PTL DEF BootstrapSpec

-----------------------------------------------------------------------------
(* The installation.                                                        *)

\* The stages after each rename of the installer.
AfterHook   == {"profileSync", "version", "versionSync", "done"}
AfterHelper == {"helperSync", "profileRead", "profile"} \cup AfterHook
AfterBinary == {"binarySync", "helper"} \cup AfterHelper

\* What the status of a session nobody disturbed has found so far.
Found(s) ==
    /\ matched[s] >= 1 => disk.binary # NoVersion /\ disk.version = want[s]
    /\ matched[s] >= 2 => disk.helper = want[s]
    /\ matched[s] >= 3 => disk.hook

\* What its installer has renamed into place.
Written(s) ==
    /\ install[s] \in AfterBinary => disk.binary = want[s]
    /\ install[s] \in AfterHelper => disk.helper = want[s]
    /\ install[s] \in AfterHook => disk.hook
    /\ install[s] \in {"versionSync", "done"} => disk.version = want[s]
    /\ install[s] = "skipped" => Complete(want[s])

\* What of that a loss of power leaves.
Synced(s) ==
    /\ install[s] \in AfterBinary \ {"binarySync"} => durable.binary = want[s]
    /\ install[s] \in AfterHelper \ {"helperSync"} => durable.helper = want[s]
    /\ install[s] \in AfterHook \ {"profileSync"} => durable.hook
    /\ install[s] = "done" => durable.version = want[s]

\* All of it, and where that puts the session.
Undisturbed(s) ==
    /\ phase[s] \in {"status", "install", "verify", "ready", "disabled"}
    /\ want[s] \in Version
    /\ phase[s] = "status" => Found(s)
    /\ phase[s] = "ready" => Complete(want[s])
    /\ Written(s) /\ Synced(s)

\* No installer before a status was read, no verification before it ended.
OrderInv ==
    \A s \in Session :
        /\ phase[s] \in {"new", "settings", "manifest", "probe", "status"} => install[s] = "none"
        /\ phase[s] \in {"settings", "manifest", "probe"} => matched[s] = 0
        /\ phase[s] = "probe" => want[s] \in Version
        /\ phase[s] = "verify" => install[s] \in {"done", "skipped"}
\* Strengthening of RepairSucceeds and InstalledIsDurable.
InstallInv == OrderInv /\ \A s \in clean : Undisturbed(s)

\* A step that changes a file only to the session's own version, and makes
\* durable only what is on the disk.
Spared(s) ==
    /\ \A f \in {"binary", "helper", "version"} : disk'[f] \in {disk[f], want[s]}
    /\ disk'.hook \in {disk.hook, TRUE}
    /\ \A f \in {"binary", "helper", "version", "hook"} : durable'[f] \in {durable[f], disk[f]}

\* Such a step of another leaves a session undisturbed.
LEMMA SparedStaysUndisturbed ==
  ASSUME NEW s \in Session, Undisturbed(s), Spared(s),
         phase'[s] = phase[s], want'[s] = want[s], matched'[s] = matched[s],
         install'[s] = install[s]
  PROVE  Undisturbed(s)'
<1>1. want[s] # NoVersion
  BY VersionAssumption DEF Undisturbed
<1>2. Complete(want[s]) => /\ disk'.binary = want[s] /\ disk'.helper = want[s]
                          /\ disk'.version = want[s] /\ disk'.hook
  BY DEF Complete, Spared
<1>3. Found(s) => Found(s)'
  BY <1>1 DEF Found, Spared
<1>4. Written(s)'
  BY <1>2 DEF Undisturbed, Written, Spared, Complete
<1>5. Synced(s)'
  BY DEF Undisturbed, Written, Synced, Spared, AfterBinary, AfterHelper, AfterHook
<1> QED
  BY <1>2, <1>3, <1>4, <1>5 DEF Undisturbed, Complete

\* A step of a session leaves every other session and its installer alone.
LEMMA SessionStepIsLocal ==
  ASSUME BootstrapTypeOK, NEW s \in Session, SessionStep(s), NEW q \in Session, q # s
  PROVE  /\ phase'[q] = phase[q] /\ want'[q] = want[q]
         /\ matched'[q] = matched[q] /\ install'[q] = install[q]
<1> USE DEF BootstrapTypeOK, Enter, End, host
<1>1. CASE Begin(s)
  BY <1>1 DEF Begin
<1>2. CASE SettingsDisable(s)
  BY <1>2 DEF SettingsDisable
<1>3. CASE LoadManifest(s)
  BY <1>3 DEF LoadManifest
<1>4. CASE OpenTransport(s)
  BY <1>4 DEF OpenTransport
<1>5. CASE TransportReady(s)
  BY <1>5 DEF TransportReady
<1>6. CASE TransportFails(s)
  BY <1>6 DEF TransportFails
<1>7. CASE ProbeFails(s)
  BY <1>7 DEF ProbeFails
<1>8. CASE ProbeSucceeds(s)
  BY <1>8 DEF ProbeSucceeds
<1>9. CASE ReadStatus(s)
  BY <1>9 DEF ReadStatus, NotCurrent, Set
<1>10. CASE StatusFails(s)
  BY <1>10 DEF StatusFails, NotCurrent, Set
<1>11. CASE InstallReturns(s)
  BY <1>11 DEF InstallReturns
<1>12. CASE GiveUp(s)
  BY <1>12 DEF GiveUp
<1> QED
  BY <1>1, <1>2, <1>3, <1>4, <1>5, <1>6, <1>7, <1>8, <1>9, <1>10, <1>11, <1>12 DEF SessionStep

\* Each step of a session keeps OrderInv.
LEMMA SessionStepKeepsOrder ==
  ASSUME BootstrapTypeOK, OrderInv, NEW s \in Session, SessionStep(s)
  PROVE  OrderInv'
<1>1. \A q \in Session : q # s => /\ phase'[q] = phase[q] /\ want'[q] = want[q]
                                 /\ matched'[q] = matched[q] /\ install'[q] = install[q]
  BY SessionStepIsLocal
<1> SUFFICES /\ phase'[s] \in {"new", "settings", "manifest", "probe", "status"} => install'[s] = "none"
             /\ phase'[s] \in {"settings", "manifest", "probe"} => matched'[s] = 0
             /\ phase'[s] = "probe" => want'[s] \in Version
             /\ phase'[s] = "verify" => install'[s] \in {"done", "skipped"}
  BY <1>1 DEF OrderInv
<1> USE DEF OrderInv, BootstrapTypeOK, Enter, End, Running, host
<1>2. CASE Begin(s)
  BY <1>2 DEF Begin
<1>3. CASE SettingsDisable(s)
  BY <1>3 DEF SettingsDisable
<1>4. CASE LoadManifest(s)
  BY <1>4 DEF LoadManifest
<1>5. CASE OpenTransport(s)
  BY <1>5 DEF OpenTransport
<1>6. CASE TransportReady(s)
  BY <1>6 DEF TransportReady
<1>7. CASE TransportFails(s)
  BY <1>7 DEF TransportFails
<1>8. CASE ProbeFails(s)
  BY <1>8 DEF ProbeFails
<1>9. CASE ProbeSucceeds(s)
  BY <1>9 DEF ProbeSucceeds
<1>10. CASE ReadStatus(s)
  BY <1>10 DEF ReadStatus, NotCurrent, Set
<1>11. CASE StatusFails(s)
  BY <1>11 DEF StatusFails, NotCurrent, Set
<1>12. CASE InstallReturns(s)
  BY <1>12 DEF InstallReturns
<1>13. CASE GiveUp(s)
  BY <1>13 DEF GiveUp
<1> QED
  BY <1>2, <1>3, <1>4, <1>5, <1>6, <1>7, <1>8, <1>9, <1>10, <1>11, <1>12, <1>13 DEF SessionStep

\* The part of the status that is read next is current.
LEMMA PartsInOrder ==
  ASSUME NEW s \in Session, matched[s] \in 0 .. 3
  PROVE  PartIsCurrent(s) <=>
           /\ matched[s] = 0 => disk.binary # NoVersion /\ disk.version = want[s]
           /\ matched[s] = 1 => disk.helper = want[s]
           /\ matched[s] = 2 => disk.hook
           /\ matched[s] = 3 => disk.binary = want[s]
<1>1. CASE matched[s] = 0
  BY <1>1 DEF PartIsCurrent
<1>2. CASE matched[s] = 1
  BY <1>2 DEF PartIsCurrent
<1>3. CASE matched[s] = 2
  BY <1>3 DEF PartIsCurrent
<1>4. CASE matched[s] = 3
  BY <1>4 DEF PartIsCurrent
<1> QED
  BY <1>1, <1>2, <1>3, <1>4

\* Each step of a session keeps, or starts, its being undisturbed.
LEMMA SessionStepKeepsUndisturbed ==
  ASSUME BootstrapTypeOK, OrderInv, NEW s \in Session, SessionStep(s), s \in clean',
         s \in clean => Undisturbed(s)
  PROVE  Undisturbed(s)'
<1>1. UNCHANGED <<disk, durable>>
  BY DEF SessionStep, Begin, SettingsDisable, LoadManifest, OpenTransport, TransportReady,
     TransportFails, ProbeFails, ProbeSucceeds, ReadStatus, StatusFails, InstallReturns, GiveUp, host
<1> SUFFICES /\ phase'[s] \in {"status", "install", "verify", "ready", "disabled"}
             /\ want'[s] \in Version
             /\ phase'[s] = "status" => Found(s)'
             /\ phase'[s] = "ready" => Complete(want[s]) /\ want'[s] = want[s]
             /\ Written(s)' /\ Synced(s)'
  BY <1>1 DEF Undisturbed, Complete
<1> USE <1>1 DEF BootstrapTypeOK, OrderInv, Undisturbed, Enter, End, Running, host, ghosts
<1>2. CASE Begin(s)
  BY <1>2 DEF Begin, Found, Written, Synced, Complete, AfterBinary, AfterHelper, AfterHook
<1>3. CASE SettingsDisable(s)
  BY <1>3 DEF SettingsDisable, Found, Written, Synced, Complete, AfterBinary, AfterHelper, AfterHook
<1>4. CASE LoadManifest(s)
  BY <1>4 DEF LoadManifest, Found, Written, Synced, Complete, AfterBinary, AfterHelper, AfterHook
<1>5. CASE OpenTransport(s)
  BY <1>5 DEF OpenTransport, Found, Written, Synced, Complete, AfterBinary, AfterHelper, AfterHook
<1>6. CASE TransportReady(s)
  BY <1>6 DEF TransportReady, Found, Written, Synced, Complete, AfterBinary, AfterHelper, AfterHook
<1>7. CASE TransportFails(s)
  BY <1>7 DEF TransportFails, Found, Written, Synced, Complete, AfterBinary, AfterHelper, AfterHook
<1>8. CASE ProbeFails(s)
  BY <1>8 DEF ProbeFails, Found, Written, Synced, Complete, AfterBinary, AfterHelper, AfterHook
<1>9. CASE ProbeSucceeds(s)
  BY <1>9 DEF ProbeSucceeds, Found, Written, Synced, Complete, AfterBinary, AfterHelper, AfterHook
<1>10. CASE ReadStatus(s)
  <2>1. /\ s \in clean /\ Undisturbed(s) /\ want' = want /\ matched[s] \in 0 .. 3
        /\ want[s] # NoVersion
    BY <1>10, VersionAssumption DEF ReadStatus
  <2>2. phase[s] = "verify" => Complete(want[s])
    BY <2>1 DEF Written, Complete, AfterBinary, AfterHelper, AfterHook
  <2>3. phase[s] = "verify" => PartIsCurrent(s)
    BY <2>1, <2>2, PartsInOrder DEF Complete
  <2>4. CASE ~PartIsCurrent(s)
    <3>1. /\ phase[s] = "status" /\ phase' = [phase EXCEPT ![s] = "install"]
          /\ install' = [install EXCEPT ![s] = "download"]
      BY <1>10, <2>3, <2>4 DEF ReadStatus, NotCurrent, Set
    <3> QED
      BY <2>1, <3>1 DEF Written, Synced, AfterBinary, AfterHelper, AfterHook
  <2>5. CASE PartIsCurrent(s) /\ matched[s] < 3
    <3>1. /\ UNCHANGED <<phase, install>>
          /\ matched' = [matched EXCEPT ![s] = @ + 1]
      BY <1>10, <2>5 DEF ReadStatus
    <3>2. phase[s] = "status" => Found(s)'
      BY <2>1, <2>5, <3>1, PartsInOrder DEF Found
    <3> QED
      BY <2>1, <3>1, <3>2 DEF Written, Synced, Complete
  <2>6. CASE PartIsCurrent(s) /\ matched[s] = 3
    <3>1. phase' = [phase EXCEPT ![s] = "ready"] /\ install' = install
      BY <1>10, <2>6 DEF ReadStatus
    <3>2. phase[s] \in {"status", "verify"}
      BY <1>10 DEF ReadStatus
    <3>3. Complete(want[s])
      BY <2>1, <2>2, <2>6, <3>2, PartsInOrder DEF Found, Complete
    <3> QED
      BY <2>1, <3>1, <3>3 DEF Written, Synced, Complete
  <2> QED
    BY <2>1, <2>4, <2>5, <2>6
<1>11. CASE StatusFails(s)
  BY <1>11 DEF StatusFails, NotCurrent, Set, Found, Written, Synced, Complete, AfterBinary, AfterHelper, AfterHook
<1>12. CASE InstallReturns(s)
  BY <1>12 DEF InstallReturns, Found, Written, Synced, Complete, AfterBinary, AfterHelper, AfterHook
<1>13. CASE GiveUp(s)
  BY <1>13 DEF GiveUp, Found, Written, Synced, Complete, AfterBinary, AfterHelper, AfterHook
<1> QED
  BY <1>2, <1>3, <1>4, <1>5, <1>6, <1>7, <1>8, <1>9, <1>10, <1>11, <1>12, <1>13 DEF SessionStep

\* A step of any installer spares the sessions that stay clean.
LEMMA InstallerStepSpares ==
  ASSUME BootstrapTypeOK, NEW q \in Session, InstallerStep(q), NEW s \in clean'
  PROVE  s \in clean /\ Spared(s)
<1> USE DEF BootstrapTypeOK, Files
<1>1. CASE UNCHANGED <<disk, durable, clean>>
  BY <1>1 DEF Spared
<1>2. ASSUME NEW file \in {"binary", "helper", "version"}, NEW next, RenameFile(q, file, next)
      PROVE  s \in clean /\ Spared(s)
  <2>1. s \in clean /\ want[s] = want[q]
    BY <1>2 DEF RenameFile, DisturbedBy
  <2> QED
    BY <1>2, <2>1 DEF RenameFile, Spared
<1>3. ASSUME NEW stage, NEW fields, NEW next, SyncDirectory(q, stage, fields, next)
      PROVE  s \in clean /\ Spared(s)
  BY <1>3 DEF SyncDirectory, Spared, ghosts
<1>4. CASE WriteProfile(q) \/ WriteFishProfile(q)
  BY <1>4 DEF WriteProfile, WriteFishProfile, Spared, ghosts
<1> QED
  BY <1>1, <1>2, <1>3, <1>4 DEF InstallerStep, InstallFiles, UpdateProfiles, WriteVersion,
     Skip, StartWriting, ReadProfile, InstallFails, ghosts

\* Each step of its own installer leaves a session undisturbed.
LEMMA InstallerStepKeepsUndisturbed ==
  ASSUME BootstrapTypeOK, OrderInv, NEW s \in Session, InstallerStep(s), Undisturbed(s)
  PROVE  Undisturbed(s)'
<1>1. /\ phase' = phase /\ want' = want /\ matched' = matched
      /\ install[s] \in {"download"} \cup Writing
  BY DEF InstallerStep, Skip, StartWriting, InstallFiles, UpdateProfiles, WriteVersion,
         InstallFails, RenameFile, SyncDirectory, ReadProfile, WriteProfile,
         WriteFishProfile, backend, Writing
<1>2. phase[s] # "status"
  BY <1>1 DEF OrderInv, Writing
<1>3. phase[s] = "ready" => /\ disk'.binary = want[s] /\ disk'.helper = want[s]
                            /\ disk'.version = want[s] /\ disk'.hook
  <2>1. \/ disk' = disk
        \/ \E lines \in {copy[s], {}} : disk' = [disk EXCEPT !.hook = TRUE, !.lines = lines]
        \/ \E file \in {"binary", "helper", "version"} : disk' = [disk EXCEPT ![file] = want[s]]
    BY DEF InstallerStep, Skip, StartWriting, InstallFiles, UpdateProfiles, WriteVersion,
           InstallFails, RenameFile, SyncDirectory, ReadProfile, WriteProfile,
           WriteFishProfile
  <2> QED
    BY <2>1 DEF Undisturbed, Complete, BootstrapTypeOK, Files
<1>4. Written(s)' /\ Synced(s)'
  <2> USE <1>1 DEF Written, Synced, Undisturbed, BootstrapTypeOK, Files, Set,
               AfterBinary, AfterHelper, AfterHook
  <2>1. CASE Skip(s)
    BY <2>1 DEF Skip, Complete
  <2>2. CASE StartWriting(s)
    BY <2>2 DEF StartWriting
  <2>3. CASE RenameFile(s, "binary", "binarySync")
    BY <2>3 DEF RenameFile
  <2>4. CASE SyncDirectory(s, "binarySync", {"binary", "version"}, "helper")
    BY <2>4 DEF SyncDirectory
  <2>5. CASE RenameFile(s, "helper", "helperSync")
    BY <2>5 DEF RenameFile
  <2>6. CASE SyncDirectory(s, "helperSync", {"helper"}, "profileRead")
    BY <2>6 DEF SyncDirectory
  <2>7. CASE ReadProfile(s)
    BY <2>7 DEF ReadProfile
  <2>8. CASE WriteProfile(s)
    BY <2>8 DEF WriteProfile
  <2>9. CASE SyncDirectory(s, "profileSync", {"hook", "lines"}, "version")
    BY <2>9 DEF SyncDirectory
  <2>10. CASE RenameFile(s, "version", "versionSync")
    BY <2>10 DEF RenameFile
  <2>11. CASE SyncDirectory(s, "versionSync", {"binary", "version"}, "done")
    BY <2>11 DEF SyncDirectory
  <2>12. CASE InstallFails(s)
    BY <2>12 DEF InstallFails
  <2>13. CASE WriteFishProfile(s)
    BY <2>13 DEF WriteFishProfile
  <2> QED
    BY <2>1, <2>2, <2>3, <2>4, <2>5, <2>6, <2>7, <2>8, <2>9, <2>10, <2>11, <2>12, <2>13
       DEF InstallerStep, InstallFiles, UpdateProfiles, WriteVersion
<1> QED
  BY <1>1, <1>2, <1>3, <1>4 DEF Undisturbed, Complete

\* Each step of an installer keeps OrderInv.
LEMMA InstallerStepKeepsOrder ==
  ASSUME BootstrapTypeOK, OrderInv, NEW s \in Session, InstallerStep(s)
  PROVE  OrderInv'
<1>1. /\ phase' = phase /\ want' = want /\ matched' = matched
      /\ install[s] \in {"download"} \cup Writing
  BY DEF InstallerStep, Skip, StartWriting, InstallFiles, UpdateProfiles, WriteVersion,
         InstallFails, RenameFile, SyncDirectory, ReadProfile, WriteProfile,
         WriteFishProfile, backend, Writing
<1>2. \A q \in Session : q # s => install'[q] = install[q]
  BY DEF InstallerStep, Skip, StartWriting, InstallFiles, UpdateProfiles, WriteVersion,
         InstallFails, RenameFile, SyncDirectory, ReadProfile, WriteProfile,
         WriteFishProfile, Set, BootstrapTypeOK
<1>3. phase[s] \notin {"new", "settings", "manifest", "probe", "status", "verify"}
  BY <1>1 DEF OrderInv, Writing
<1> QED
  BY <1>1, <1>2, <1>3 DEF OrderInv

\* InstallInv holds at first, when no session has looked at the host.
LEMMA InstallInvInitially == BootstrapInit => InstallInv
  BY DEF BootstrapInit, InstallInv, OrderInv

\* Every step keeps InstallInv.
LEMMA InstallInvPreserved == BootstrapTypeOK /\ InstallInv /\ [BootstrapNext]_bootstrapVars => InstallInv'
<1> SUFFICES ASSUME BootstrapTypeOK, OrderInv, \A s \in clean : Undisturbed(s), [BootstrapNext]_bootstrapVars
             PROVE  OrderInv' /\ \A s \in clean' : Undisturbed(s)'
  BY DEF InstallInv
<1>1. CASE UNCHANGED bootstrapVars
  <2>1. \A s \in clean : Undisturbed(s)'
    BY <1>1 DEF Undisturbed, Found, Written, Synced, Complete, bootstrapVars, backend, host, ghosts
  <2> QED
    BY <1>1, <2>1 DEF OrderInv, bootstrapVars, backend, host, ghosts
<1>2. ASSUME NEW s \in Session, SessionStep(s)
      PROVE  OrderInv' /\ \A q \in clean' : Undisturbed(q)'
  <2>1. clean' \subseteq clean \cup {s} /\ UNCHANGED <<disk, durable>>
    BY <1>2 DEF SessionStep, Begin, SettingsDisable, LoadManifest, OpenTransport, TransportReady,
       TransportFails, ProbeFails, ProbeSucceeds, ReadStatus, StatusFails, InstallReturns, GiveUp,
       host, ghosts
  <2>2. ASSUME NEW q \in clean', q # s PROVE Undisturbed(q)'
    <3>1. q \in Session /\ q \in clean
      BY <2>1, <2>2 DEF BootstrapTypeOK
    <3>2. Spared(q)
      BY <2>1 DEF Spared
    <3> QED
      BY <1>2, <2>2, <3>1, <3>2, SessionStepIsLocal, SparedStaysUndisturbed
  <2> QED
    BY <1>2, <2>2, SessionStepKeepsOrder, SessionStepKeepsUndisturbed
<1>3. ASSUME NEW s \in Session, InstallerStep(s)
      PROVE  OrderInv' /\ \A q \in clean' : Undisturbed(q)'
  <2>1. ASSUME NEW q \in clean', q # s PROVE Undisturbed(q)'
    <3>1. q \in clean /\ q \in Session /\ Spared(q)
      BY <1>3, <2>1, InstallerStepSpares DEF BootstrapTypeOK
    <3>2. /\ UNCHANGED backend /\ install'[q] = install[q]
      BY <1>3, <2>1, <3>1 DEF InstallerStep, Skip, StartWriting, InstallFiles, UpdateProfiles,
         WriteVersion, InstallFails, RenameFile, SyncDirectory, ReadProfile, WriteProfile,
         WriteFishProfile, Set, BootstrapTypeOK
    <3> QED
      BY <3>1, <3>2, SparedStaysUndisturbed DEF backend
  <2>2. s \in clean' => s \in clean
    BY <1>3, InstallerStepSpares
  <2> QED
    BY <1>3, <2>1, <2>2, InstallerStepKeepsOrder, InstallerStepKeepsUndisturbed
<1>4. CASE ManifestFails \/ CacheExpires \/ \E v \in Version : ManifestArrives(v)
  <2>1. UNCHANGED <<matched, host, ghosts>>
    BY <1>4 DEF ManifestFails, CacheExpires, ManifestArrives
  <2>2. \A s \in Session : phase[s] # "manifest" => phase'[s] = phase[s] /\ want'[s] = want[s]
    BY <1>4 DEF ManifestFails, CacheExpires, ManifestArrives
  <2>3. \A s \in Session : phase[s] = "manifest" =>
          \/ phase'[s] = phase[s]
          \/ phase'[s] = "disabled"
          \/ phase'[s] = "probe" /\ want'[s] \in Version
    BY <1>4 DEF ManifestFails, CacheExpires, ManifestArrives
  <2>4. OrderInv'
    BY <2>1, <2>2, <2>3 DEF OrderInv, host
  <2>5. ASSUME NEW s \in clean' PROVE Undisturbed(s)'
    <3>1. s \in clean /\ s \in Session /\ Spared(s)
      BY <2>1, <2>5 DEF BootstrapTypeOK, host, ghosts, Spared
    <3>2. phase[s] # "manifest"
      BY <3>1 DEF Undisturbed
    <3> QED
      BY <2>1, <2>2, <3>1, <3>2, SparedStaysUndisturbed DEF host
  <2> QED
    BY <2>4, <2>5
<1>5. CASE PowerLoss
  <2>1. \A s \in Session : install'[s] \in {install[s], "failed"}
                            /\ (install[s] \in {"none", "done", "skipped"} => install'[s] = install[s])
    BY <1>5 DEF PowerLoss, BootstrapTypeOK, Writing
  <2> QED
    BY <1>5, <2>1 DEF PowerLoss, OrderInv, backend
<1>6. ASSUME NEW l \in Line, UserSaves(l)
      PROVE  OrderInv' /\ \A q \in clean' : Undisturbed(q)'
  <2>1. UNCHANGED <<backend, install>>
    BY <1>6 DEF UserSaves
  <2>2. OrderInv'
    BY <2>1 DEF OrderInv, backend
  <2>3. ASSUME NEW s \in clean' PROVE Undisturbed(s)'
    <3>1. s \in clean /\ s \in Session /\ Spared(s)
      <4>1. PICK hook \in {disk.hook, FALSE} :
              /\ disk' = [disk EXCEPT !.lines = @ \cup {l}, !.hook = hook]
              /\ durable' = [durable EXCEPT !.lines = disk.lines \cup {l}, !.hook = hook]
              /\ clean' = IF hook THEN clean ELSE {}
        BY <1>6 DEF UserSaves
      <4>2. hook /\ hook = disk.hook /\ s \in clean
        BY <2>3, <4>1
      <4> QED
        BY <4>1, <4>2 DEF Spared, BootstrapTypeOK, Files
    <3> QED
      BY <2>1, <3>1, SparedStaysUndisturbed DEF backend
  <2> QED
    BY <2>2, <2>3
<1> QED
  BY <1>1, <1>2, <1>3, <1>4, <1>5, <1>6 DEF BootstrapNext

\* InstallInv is an invariant.
THEOREM InstallInvAlways == BootstrapSpec => []InstallInv
  BY InstallInvInitially, InstallInvPreserved, TypeAlways, PTL DEF BootstrapSpec

\* Whatever earlier installs left behind, a session nobody interferes with
\* repairs it, and trusts nothing that is not completely installed
\* (Status, Run).
THEOREM RepairAlwaysSucceeds == BootstrapSpec => []RepairSucceeds
<1>1. InstallInv => RepairSucceeds
  BY DEF InstallInv, Undisturbed, RepairSucceeds
<1> QED
  BY <1>1, InstallInvAlways, PTL

\* What an undisturbed install wrote survives a loss of power
\* (commitAtomicTarget).
THEOREM InstalledAlwaysDurable == BootstrapSpec => []InstalledIsDurable
<1>1. InstallInv => InstalledIsDurable
  BY DEF InstallInv, Undisturbed, Synced, InstalledIsDurable, AfterBinary, AfterHelper, AfterHook
<1> QED
  BY <1>1, InstallInvAlways, PTL

-----------------------------------------------------------------------------
(* Replacing a file.                                                       *)

\* The requests before which an upload has not changed the file.
Untouching == {"new", "stat", "stream", "posix", "rename", "recheck", "unlink", "create"}

\* The requests between which an upload may have a temporary sibling.
HoldsTemporary == {"stream", "posix", "rename", "recheck", "unlink", "rename2", "cleanup"}

\* The requests after which the next change of an uploader's own may destroy
\* what is under the file's name.
Destroys == {"stream", "posix", "rename", "unlink", "rename2", "creating", "cleanupTarget"}

\* What u may find under the name without having raced anybody, or having
\* raced a version it could not look at.
Expected(u) == {Absent, expect[u], Partial(u)} \cup since[u]

\* How far one upload is tells what it has left on the server, what it may
\* answer and what it would destroy.
Progress(u) ==
    /\ temp[u] # Absent /\ pc[u] \notin HoldsTemporary => u \in interrupted \cup refused
    /\ pc[u] \in HoldsTemporary \ {"stream", "cleanup"} => temp[u] = Whole(u)
    /\ pc[u] \in (Awaiting \cup {"new"}) \ {"cleanup"} => answer[u] # "conflict"
    /\ u \in touched => answer[u] # "conflict" /\ pc[u] \notin Untouching
    /\ u \in touched /\ pc[u] = "cleanup" => u \in refused
    /\ pc[u] \in Destroys /\ ~overwrite[u] => target \in Expected(u)

\* The inductive invariant. WritesAreSafe alone is not inductive: that a
\* conflict has touched nothing, that a temporary file is whole when the
\* target is unlinked and that a cleanup finds only what may be removed
\* follow from how far the upload is.
ReplaceInv ==
    /\ TypeOK
    /\ DOMAIN temp = Uploaders
    /\ \A u \in Uploaders : Progress(u)
    /\ DataSurvives

\* A request of u is answered, or u is interrupted: Next but for the foreign
\* program.
Step(u) ==
    \/ Submit(u)
    \/ RetryOverwriting(u)
    \/ StatTarget(u)
    \/ StreamTemporary(u)
    \/ StreamFails(u)
    \/ PosixRename(u)
    \/ PosixRenameFallsThrough(u)
    \/ Rename(u)
    \/ RenameRefused(u)
    \/ RequestFails(u)
    \/ AssertRemoteSnapshotStillMatches(u)
    \/ UnlinkTarget(u)
    \/ RenameAgain(u)
    \/ RenameAgainFails(u)
    \/ UnlinkTemporary(u)
    \/ OpenExclusively(u)
    \/ StreamTarget(u)
    \/ StreamTargetFails(u)
    \/ UnlinkOpenedTarget(u)
    \/ StatWritten(u)
    \/ Interrupt(u)

\* No version is the absent file or the absent expectation.
LEMMA VersionsDiffer ==
  /\ Absent \notin Versions /\ None \notin Versions /\ Absent # None
  /\ Foreign \notin Uploaders
  /\ \A u \in Uploaders : /\ Whole(u) \in Versions /\ Partial(u) \in Versions
                          /\ Whole(u) # Absent /\ Partial(u) # Absent
                          /\ Whole(u) # None /\ Partial(u) # None
  /\ Whole(Foreign) \in Versions /\ Whole(Original) \in Versions
<1>1. Absent # None
  <2> SUFFICES ASSUME Absent = None PROVE FALSE
    OBVIOUS
  <2> DEFINE one == {} \cup {Original}
             two == one \cup {Foreign}
             three == two \cup {Absent}
  <2>1. /\ IsFiniteSet({}) /\ Cardinality({}) = 0
    BY FS_EmptySet
  <2>2. /\ IsFiniteSet(one) /\ Cardinality(one) \in 0..1
    BY <2>1, FS_AddElement
  <2>3. /\ IsFiniteSet(two) /\ Cardinality(two) \in 0..2
    BY <2>2, FS_AddElement
  <2>4. /\ IsFiniteSet(three) /\ Cardinality(three) \in 0..3
    BY <2>3, FS_AddElement
  <2>5. three = {Original, Foreign, Absent, None}
    OBVIOUS
  <2> QED
    BY <2>4, <2>5, DistinctVersions
<1>2. Foreign \notin Uploaders /\ Absent \notin Versions /\ None \notin Versions
  BY DistinctVersions
<1>3. /\ \A u \in Uploaders : Whole(u) \in Versions /\ Partial(u) \in Versions
      /\ Whole(Foreign) \in Versions /\ Whole(Original) \in Versions
  BY DEF Versions, Whole, Partial
<1> QED
  BY <1>1, <1>2, <1>3

-----------------------------------------------------------------------------
(* Types.                                                                  *)

\* The types, and that every upload has a temporary name.
TypeInv == TypeOK /\ DOMAIN temp = Uploaders

\* Types are kept by every step of an upload.
LEMMA TypeKept ==
  ASSUME TypeInv, NEW u \in Uploaders, Step(u)
  PROVE  TypeInv'
<1> USE VersionsDiffer DEF TypeInv, TypeOK, Awaiting
<1>1. CASE Submit(u)
  BY <1>1 DEF Submit, history, Goto
<1>2. CASE RetryOverwriting(u)
  BY <1>2 DEF RetryOverwriting, history, Goto, Answer
<1>3. CASE StatTarget(u)
  BY <1>3 DEF StatTarget, Look, Goto, Answer
<1>4. CASE StreamTemporary(u)
  BY <1>4 DEF StreamTemporary, history, Goto
<1>5. CASE StreamFails(u)
  BY <1>5 DEF StreamFails, history, Goto, Answer
<1>6. CASE PosixRename(u)
  BY <1>6 DEF PosixRename, MoveIn, Put, Goto
<1>7. CASE PosixRenameFallsThrough(u)
  BY <1>7 DEF PosixRenameFallsThrough, history, Goto
<1>8. CASE Rename(u)
  BY <1>8 DEF Rename, MoveIn, Put, Goto
<1>9. CASE RenameRefused(u)
  BY <1>9 DEF RenameRefused, Look, Goto
<1>10. CASE RequestFails(u)
  BY <1>10 DEF RequestFails, history, Goto, Answer
<1>11. CASE AssertRemoteSnapshotStillMatches(u)
  BY <1>11 DEF AssertRemoteSnapshotStillMatches, Look, Goto, Answer
<1>12. CASE UnlinkTarget(u)
  BY <1>12 DEF UnlinkTarget, Put, Goto
<1>13. CASE RenameAgain(u)
  BY <1>13 DEF RenameAgain, MoveIn, Put, Goto
<1>14. CASE RenameAgainFails(u)
  BY <1>14 DEF RenameAgainFails, Goto, Answer
<1>15. CASE UnlinkTemporary(u)
  BY <1>15 DEF UnlinkTemporary, Goto
<1>16. CASE OpenExclusively(u)
  BY <1>16 DEF OpenExclusively, Put, Goto
<1>17. CASE StreamTarget(u)
  BY <1>17 DEF StreamTarget, Put, Goto
<1>18. CASE StreamTargetFails(u)
  BY <1>18 DEF StreamTargetFails, history, Goto, Answer
<1>19. CASE UnlinkOpenedTarget(u)
  BY <1>19 DEF UnlinkOpenedTarget, Put, Goto
<1>20. CASE StatWritten(u)
  BY <1>20 DEF StatWritten, history, Goto, Answer
<1>21. CASE Interrupt(u)
  BY <1>21 DEF Interrupt, history, Goto
<1> QED
  BY <1>1, <1>2, <1>3, <1>4, <1>5, <1>6, <1>7, <1>8, <1>9, <1>10, <1>11, <1>12,
     <1>13, <1>14, <1>15, <1>16, <1>17, <1>18, <1>19, <1>20, <1>21 DEF Step

-----------------------------------------------------------------------------
(* What uploads leave to one another.                                      *)

\* What a step leaves of an upload that does not take it: the file under the
\* name may have gone, or is now among those written since its last look.
Keeps(w) ==
    /\ pc'[w] = pc[w] /\ temp'[w] = temp[w] /\ answer'[w] = answer[w]
    /\ expect'[w] = expect[w] /\ overwrite'[w] = overwrite[w]
    /\ w \in touched' <=> w \in touched
    /\ w \in refused' <=> w \in refused
    /\ w \in interrupted' <=> w \in interrupted
    /\ \/ target' \in {target, Absent} /\ since'[w] = since[w]
       \/ since'[w] = since[w] \cup {target'}

\* Uploads only meet at the file: no step of one moves another.
LEMMA OthersKept ==
  ASSUME TypeInv, NEW u \in Uploaders, Step(u), NEW w \in Uploaders, w # u
  PROVE  Keeps(w)
<1> USE DEF TypeInv, TypeOK, Keeps
<1>1. CASE Submit(u)
  BY <1>1 DEF Submit, history, Goto
<1>2. CASE RetryOverwriting(u)
  BY <1>2 DEF RetryOverwriting, history, Goto, Answer
<1>3. CASE StatTarget(u)
  BY <1>3 DEF StatTarget, Look, Goto, Answer
<1>4. CASE StreamTemporary(u)
  BY <1>4 DEF StreamTemporary, history, Goto
<1>5. CASE StreamFails(u)
  BY <1>5 DEF StreamFails, history, Goto, Answer
<1>6. CASE PosixRename(u)
  BY <1>6 DEF PosixRename, MoveIn, Put, Goto
<1>7. CASE PosixRenameFallsThrough(u)
  BY <1>7 DEF PosixRenameFallsThrough, history, Goto
<1>8. CASE Rename(u)
  BY <1>8 DEF Rename, MoveIn, Put, Goto
<1>9. CASE RenameRefused(u)
  BY <1>9 DEF RenameRefused, Look, Goto
<1>10. CASE RequestFails(u)
  BY <1>10 DEF RequestFails, history, Goto, Answer
<1>11. CASE AssertRemoteSnapshotStillMatches(u)
  BY <1>11 DEF AssertRemoteSnapshotStillMatches, Look, Goto, Answer
<1>12. CASE UnlinkTarget(u)
  BY <1>12 DEF UnlinkTarget, Put, Goto
<1>13. CASE RenameAgain(u)
  BY <1>13 DEF RenameAgain, MoveIn, Put, Goto
<1>14. CASE RenameAgainFails(u)
  BY <1>14 DEF RenameAgainFails, Goto, Answer
<1>15. CASE UnlinkTemporary(u)
  BY <1>15 DEF UnlinkTemporary, Goto
<1>16. CASE OpenExclusively(u)
  BY <1>16 DEF OpenExclusively, Put, Goto
<1>17. CASE StreamTarget(u)
  BY <1>17 DEF StreamTarget, Put, Goto
<1>18. CASE StreamTargetFails(u)
  BY <1>18 DEF StreamTargetFails, history, Goto, Answer
<1>19. CASE UnlinkOpenedTarget(u)
  BY <1>19 DEF UnlinkOpenedTarget, Put, Goto
<1>20. CASE StatWritten(u)
  BY <1>20 DEF StatWritten, history, Goto, Answer
<1>21. CASE Interrupt(u)
  BY <1>21 DEF Interrupt, history, Goto
<1> QED
  BY <1>1, <1>2, <1>3, <1>4, <1>5, <1>6, <1>7, <1>8, <1>9, <1>10, <1>11, <1>12,
     <1>13, <1>14, <1>15, <1>16, <1>17, <1>18, <1>19, <1>20, <1>21 DEF Step

\* Where an upload was left alone, what is known of it still holds.
LEMMA KeptProgress ==
  ASSUME NEW w \in Uploaders, Progress(w), Keeps(w)
  PROVE  Progress(w)'
  BY DEF Progress, Keeps, Expected

\* What is known of an upload holds after each of its own steps.
LEMMA OwnProgress ==
  ASSUME TypeInv, NEW u \in Uploaders, Progress(u), Step(u)
  PROVE  Progress(u)'
<1> USE VersionsDiffer DEF TypeInv, TypeOK, Progress, Expected, Matches, Awaiting,
                           HoldsTemporary, Untouching, Destroys
<1>1. CASE Submit(u)
  BY <1>1 DEF Submit, history, Goto
<1>2. CASE RetryOverwriting(u)
  BY <1>2 DEF RetryOverwriting, history, Goto, Answer
<1>3. CASE StatTarget(u)
  BY <1>3 DEF StatTarget, Look, Goto, Answer
<1>4. CASE StreamTemporary(u)
  BY <1>4 DEF StreamTemporary, history, Goto
<1>5. CASE StreamFails(u)
  BY <1>5 DEF StreamFails, history, Goto, Answer
<1>6. CASE PosixRename(u)
  BY <1>6 DEF PosixRename, MoveIn, Put, Goto
<1>7. CASE PosixRenameFallsThrough(u)
  BY <1>7 DEF PosixRenameFallsThrough, history, Goto
<1>8. CASE Rename(u)
  BY <1>8 DEF Rename, MoveIn, Put, Goto
<1>9. CASE RenameRefused(u)
  BY <1>9 DEF RenameRefused, Look, Goto
<1>10. CASE RequestFails(u)
  BY <1>10 DEF RequestFails, history, Goto, Answer
<1>11. CASE AssertRemoteSnapshotStillMatches(u)
  BY <1>11 DEF AssertRemoteSnapshotStillMatches, Look, Goto, Answer
<1>12. CASE UnlinkTarget(u)
  BY <1>12 DEF UnlinkTarget, Put, Goto
<1>13. CASE RenameAgain(u)
  BY <1>13 DEF RenameAgain, MoveIn, Put, Goto
<1>14. CASE RenameAgainFails(u)
  BY <1>14 DEF RenameAgainFails, Goto, Answer
<1>15. CASE UnlinkTemporary(u)
  BY <1>15 DEF UnlinkTemporary, Goto
<1>16. CASE OpenExclusively(u)
  BY <1>16 DEF OpenExclusively, Put, Goto
<1>17. CASE StreamTarget(u)
  BY <1>17 DEF StreamTarget, Put, Goto
<1>18. CASE StreamTargetFails(u)
  BY <1>18 DEF StreamTargetFails, history, Goto, Answer
<1>19. CASE UnlinkOpenedTarget(u)
  BY <1>19 DEF UnlinkOpenedTarget, Put, Goto
<1>20. CASE StatWritten(u)
  BY <1>20 DEF StatWritten, history, Goto, Answer
<1>21. CASE Interrupt(u)
  BY <1>21 DEF Interrupt, history, Goto
<1> QED
  BY <1>1, <1>2, <1>3, <1>4, <1>5, <1>6, <1>7, <1>8, <1>9, <1>10, <1>11, <1>12,
     <1>13, <1>14, <1>15, <1>16, <1>17, <1>18, <1>19, <1>20, <1>21 DEF Step
-----------------------------------------------------------------------------
(* The file itself.                                                        *)

\* No step of an upload makes the last copy of the file vanish: the unlink of
\* the target happens while the uploader's own whole temporary file is there,
\* and what removes temporary files later runs only where nothing was
\* unlinked or the server has refused the rename.
LEMMA DataKept ==
  ASSUME TypeInv, NEW u \in Uploaders, Step(u), \A w \in Uploaders : Progress(w), DataSurvives
  PROVE  DataSurvives'
<1>0. Progress(u) /\ \A w \in touched \ {Foreign} : w \in Uploaders
  BY DEF TypeInv, TypeOK
<1> USE <1>0, VersionsDiffer DEF TypeInv, TypeOK, Progress, DataSurvives, Awaiting,
                                 HoldsTemporary, Untouching
<1>1. CASE Submit(u)
  BY <1>1 DEF Submit, history, Goto
<1>2. CASE RetryOverwriting(u)
  BY <1>2 DEF RetryOverwriting, history, Goto, Answer
<1>3. CASE StatTarget(u)
  BY <1>3 DEF StatTarget, Look, Goto, Answer
<1>4. CASE StreamTemporary(u)
  BY <1>4 DEF StreamTemporary, history, Goto
<1>5. CASE StreamFails(u)
  BY <1>5 DEF StreamFails, history, Goto, Answer
<1>6. CASE PosixRename(u)
  BY <1>6 DEF PosixRename, MoveIn, Put, Goto
<1>7. CASE PosixRenameFallsThrough(u)
  BY <1>7 DEF PosixRenameFallsThrough, history, Goto
<1>8. CASE Rename(u)
  BY <1>8 DEF Rename, MoveIn, Put, Goto
<1>9. CASE RenameRefused(u)
  BY <1>9 DEF RenameRefused, Look, Goto
<1>10. CASE RequestFails(u)
  BY <1>10 DEF RequestFails, history, Goto, Answer
<1>11. CASE AssertRemoteSnapshotStillMatches(u)
  BY <1>11 DEF AssertRemoteSnapshotStillMatches, Look, Goto, Answer
<1>12. CASE UnlinkTarget(u)
  BY <1>12 DEF UnlinkTarget, Put, Goto
<1>13. CASE RenameAgain(u)
  BY <1>13 DEF RenameAgain, MoveIn, Put, Goto
<1>14. CASE RenameAgainFails(u)
  BY <1>14 DEF RenameAgainFails, Goto, Answer
<1>15. CASE UnlinkTemporary(u)
  BY <1>15 DEF UnlinkTemporary, Goto
<1>16. CASE OpenExclusively(u)
  BY <1>16 DEF OpenExclusively, Put, Goto
<1>17. CASE StreamTarget(u)
  BY <1>17 DEF StreamTarget, Put, Goto
<1>18. CASE StreamTargetFails(u)
  BY <1>18 DEF StreamTargetFails, history, Goto, Answer
<1>19. CASE UnlinkOpenedTarget(u)
  BY <1>19 DEF UnlinkOpenedTarget, Put, Goto
<1>20. CASE StatWritten(u)
  BY <1>20 DEF StatWritten, history, Goto, Answer
<1>21. CASE Interrupt(u)
  BY <1>21 DEF Interrupt, history, Goto
<1> QED
  BY <1>1, <1>2, <1>3, <1>4, <1>5, <1>6, <1>7, <1>8, <1>9, <1>10, <1>11, <1>12,
     <1>13, <1>14, <1>15, <1>16, <1>17, <1>18, <1>19, <1>20, <1>21 DEF Step

\* Nor does the write of another program.
LEMMA ForeignKept ==
  ASSUME TypeInv, ForeignWrite
  PROVE  /\ TypeInv' /\ DataSurvives'
         /\ \A w \in Uploaders : Keeps(w)
<1>1. /\ target' = Whole(Foreign) /\ touched' = touched \cup {Foreign}
      /\ since' = [w \in Uploaders |-> since[w] \cup {Whole(Foreign)}]
      /\ UNCHANGED <<server, temp, control, refused, takenBack>>
  BY VersionsDiffer DEF ForeignWrite, Put
<1>2. TypeInv'
  BY <1>1, VersionsDiffer DEF TypeInv, TypeOK, control
<1>3. DataSurvives'
  BY <1>1, VersionsDiffer DEF DataSurvives
<1>4. ASSUME NEW w \in Uploaders PROVE Keeps(w)
  BY <1>1, VersionsDiffer DEF Keeps, control, TypeInv, TypeOK
<1> QED
  BY <1>2, <1>3, <1>4

\* Nor does a step of something else.
LEMMA StutterKept ==
  ASSUME UNCHANGED vars, ReplaceInv
  PROVE  ReplaceInv'
<1>1. TypeOK' /\ DOMAIN temp' = Uploaders /\ DataSurvives'
  BY DEF ReplaceInv, TypeOK, DataSurvives, vars, control, history
<1>2. ASSUME NEW u \in Uploaders PROVE Progress(u)'
  BY DEF ReplaceInv, Progress, Expected, vars, control, history
<1> QED
  BY <1>1, <1>2 DEF ReplaceInv

\* Every step is one of an upload or of the foreign program.
LEMMA NextSteps ==
  ASSUME Next
  PROVE  ForeignWrite \/ \E u \in Uploaders : Step(u)
  BY DEF Next, Step

\* Every step keeps the invariant.
LEMMA ReplaceStep == ReplaceInv /\ [Next]_vars => ReplaceInv'
<1> SUFFICES ASSUME ReplaceInv, [Next]_vars PROVE ReplaceInv'
  OBVIOUS
<1>0. TypeInv /\ DataSurvives /\ \A w \in Uploaders : Progress(w)
  BY DEF ReplaceInv, TypeInv
<1>1. ASSUME NEW u \in Uploaders, Step(u) PROVE ReplaceInv'
  <2>1. TypeInv' /\ DataSurvives'
    BY <1>0, <1>1, TypeKept, DataKept
  <2>2. ASSUME NEW w \in Uploaders PROVE Progress(w)'
    <3>1. CASE w = u
      BY <1>0, <1>1, <3>1, OwnProgress
    <3>2. CASE w # u
      BY <1>0, <1>1, <3>2, OthersKept, KeptProgress
    <3> QED
      BY <3>1, <3>2
  <2> QED
    BY <2>1, <2>2 DEF ReplaceInv, TypeInv
<1>2. CASE ForeignWrite
  <2>1. ASSUME NEW w \in Uploaders PROVE Progress(w)'
    BY <1>0, <1>2, ForeignKept, KeptProgress
  <2> QED
    BY <1>0, <1>2, <2>1, ForeignKept DEF ReplaceInv, TypeInv
<1>3. CASE UNCHANGED vars
  BY <1>3, StutterKept
<1> QED
  BY <1>1, <1>2, <1>3, NextSteps

\* It holds before the first request.
LEMMA ReplaceInitially == Init => ReplaceInv
<1> SUFFICES ASSUME Init PROVE ReplaceInv
  OBVIOUS
<1>1. TypeOK /\ DOMAIN temp = Uploaders /\ DataSurvives
  BY VersionsDiffer DEF Init, TypeOK, DataSurvives
<1>2. ASSUME NEW u \in Uploaders PROVE Progress(u)
  BY DEF Init, Progress, Awaiting, HoldsTemporary, Destroys
<1> QED
  BY <1>1, <1>2 DEF ReplaceInv

\* It holds throughout.
LEMMA ReplaceAlways == Spec => []ReplaceInv
  BY ReplaceInitially, ReplaceStep, PTL DEF Spec

\* replaceRemoteFileFromTemp, createRemoteFileFromLocalPath: a conflict has
\* touched nothing, temporary files are removed unless the server refuses or
\* the session dies, and at no moment between two requests of any uploader is
\* a file that was written gone under both its names, but for the refusals
\* DataSurvives names.
THEOREM WritesAlwaysSafe == Spec => []WritesAreSafe
<1>1. ReplaceInv => WritesAreSafe
  <2> SUFFICES ASSUME ReplaceInv PROVE WritesAreSafe
    OBVIOUS
  <2>1. ConflictTouchesNothing
    BY DEF ReplaceInv, Progress, ConflictTouchesNothing
  <2>2. TemporariesAreRemoved
    BY DEF ReplaceInv, Progress, TemporariesAreRemoved, HoldsTemporary
  <2> QED
    BY <2>1, <2>2 DEF ReplaceInv, WritesAreSafe
<1> QED
  BY <1>1, ReplaceAlways, PTL

-----------------------------------------------------------------------------
(* What a write destroys.                                                  *)

\* What an upload destroys is what it expected, or has appeared since its
\* last look.
LEMMA OwnLoss ==
  ASSUME TypeInv, NEW u \in Uploaders, Progress(u), Step(u),
         target' # target, target # Absent, ~overwrite[u]
  PROVE  target \in {expect[u], Partial(u)} \cup since[u]
<1> USE DEF TypeInv, TypeOK, Progress, Expected, Destroys
<1>1. CASE Submit(u)
  BY <1>1 DEF Submit, history, Goto
<1>2. CASE RetryOverwriting(u)
  BY <1>2 DEF RetryOverwriting, history, Goto, Answer
<1>3. CASE StatTarget(u)
  BY <1>3 DEF StatTarget, Look, Goto, Answer
<1>4. CASE StreamTemporary(u)
  BY <1>4 DEF StreamTemporary, history, Goto
<1>5. CASE StreamFails(u)
  BY <1>5 DEF StreamFails, history, Goto, Answer
<1>6. CASE PosixRename(u)
  BY <1>6 DEF PosixRename, MoveIn, Put, Goto
<1>7. CASE PosixRenameFallsThrough(u)
  BY <1>7 DEF PosixRenameFallsThrough, history, Goto
<1>8. CASE Rename(u)
  BY <1>8 DEF Rename, MoveIn, Put, Goto
<1>9. CASE RenameRefused(u)
  BY <1>9 DEF RenameRefused, Look, Goto
<1>10. CASE RequestFails(u)
  BY <1>10 DEF RequestFails, history, Goto, Answer
<1>11. CASE AssertRemoteSnapshotStillMatches(u)
  BY <1>11 DEF AssertRemoteSnapshotStillMatches, Look, Goto, Answer
<1>12. CASE UnlinkTarget(u)
  BY <1>12 DEF UnlinkTarget, Put, Goto
<1>13. CASE RenameAgain(u)
  BY <1>13 DEF RenameAgain, MoveIn, Put, Goto
<1>14. CASE RenameAgainFails(u)
  BY <1>14 DEF RenameAgainFails, Goto, Answer
<1>15. CASE UnlinkTemporary(u)
  BY <1>15 DEF UnlinkTemporary, Goto
<1>16. CASE OpenExclusively(u)
  BY <1>16 DEF OpenExclusively, Put, Goto
<1>17. CASE StreamTarget(u)
  BY <1>17 DEF StreamTarget, Put, Goto
<1>18. CASE StreamTargetFails(u)
  BY <1>18 DEF StreamTargetFails, history, Goto, Answer
<1>19. CASE UnlinkOpenedTarget(u)
  BY <1>19 DEF UnlinkOpenedTarget, Put, Goto
<1>20. CASE StatWritten(u)
  BY <1>20 DEF StatWritten, history, Goto, Answer
<1>21. CASE Interrupt(u)
  BY <1>21 DEF Interrupt, history, Goto
<1> QED
  BY <1>1, <1>2, <1>3, <1>4, <1>5, <1>6, <1>7, <1>8, <1>9, <1>10, <1>11, <1>12,
     <1>13, <1>14, <1>15, <1>16, <1>17, <1>18, <1>19, <1>20, <1>21 DEF Step

\* The same of every step that moves the upload.
LEMMA LossStep ==
  ASSUME ReplaceInv, [Next]_vars, NEW u \in Uploaders,
         pc'[u] # pc[u], target' # target, target # Absent, ~overwrite[u]
  PROVE  target \in {expect[u], Partial(u)} \cup since[u]
<1>0. TypeInv /\ Progress(u)
  BY DEF ReplaceInv, TypeInv
<1>1. CASE Step(u)
  BY <1>0, <1>1, OwnLoss
<1>2. ASSUME NEW w \in Uploaders, Step(w), w # u PROVE FALSE
  BY <1>0, <1>2, OthersKept DEF Keeps
<1>3. CASE ForeignWrite
  BY <1>0, <1>3, ForeignKept DEF Keeps
<1>4. CASE UNCHANGED vars
  BY <1>4 DEF vars
<1> QED
  BY <1>1, <1>2, <1>3, <1>4, NextSteps

\* assertRemoteSnapshotStillMatches and the stat before the upload: a write
\* nobody confirmed destroys only the version it expected, its own, or one
\* that appeared after it last looked.
THEOREM LossesAlwaysRaced == Spec => OnlyRacedVersionsAreLost
<1>1. ReplaceInv /\ [Next]_vars =>
        [\A u \in Uploaders :
           pc'[u] # pc[u] /\ target' # target /\ target # Absent /\ ~overwrite[u]
           => target \in {expect[u], Partial(u)} \cup since[u]]_vars
  BY LossStep
<1> QED
  BY <1>1, ReplaceAlways, PTL DEF Spec, OnlyRacedVersionsAreLost
=============================================================================
