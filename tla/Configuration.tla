--------------------------- MODULE Configuration ---------------------------
(***************************************************************************)
(* What the operator configures, and what a job is given of it: a target,  *)
(* storage profiles, secrets and the settings.  A request of the operator  *)
(* reads a row, asks for the rows it refers to and saves; each of these is *)
(* a call of a repository, between which other handlers run.  Building the *)
(* payload of a job reads target, profile and settings more than once: for *)
(* the environment of the run and again for the storage context that is    *)
(* shown with the job.                                                     *)
(*                                                                         *)
(* A secret stands for the name of the rclone remote in it; passwords are  *)
(* secrets whose content does not matter.  A repository is where it comes  *)
(* from, the remote it names and how often the target's path was appended. *)
(***************************************************************************)
EXTENDS Naturals, FiniteSets, Sequences

CONSTANTS
  Secret,     \* identifiers of secrets
  Profile,    \* identifiers of storage profiles
  Remote,     \* names of rclone remotes
  Clerk,      \* handler threads of operators and of dispatches
  OneOverlap  \* bound: no request comes in once two have overlapped

VARIABLES
  secretRow,    \* the remote a secret names, or "absent"
  profileRow,   \* the rows of the profiles
  settingsRow,  \* the settings
  savedTarget,  \* the target
  edit,         \* what each handler is doing
  overlapped    \* two requests have been under way at a time

configurationVars ==
  <<secretRow, profileRow, settingsRow, savedTarget, edit, overlapped>>
rowVars == <<secretRow, profileRow, settingsRow, savedTarget>>

-----------------------------------------------------------------------------
None == "none"

ASSUME ConfigurationAssumption ==
  /\ None \notin Secret \union Profile
  /\ Remote \cap {None, "absent", "path", "s3"} = {}
  /\ OneOverlap \in BOOLEAN

OptionalSecret == Secret \union {None}
(* A profile: its backend, whether it says what RESTIC_REPOSITORY is, the  *)
(* secret that is its rclone.conf (file_secret_refs), and one of those     *)
(* that its environment is filled from (secret_refs).                      *)
Absent == [backend |-> "absent", repo |-> FALSE, file |-> None, env |-> None]
ProfileRow == [backend : {"rclone", "other"}, repo : BOOLEAN,
               file : OptionalSecret, env : OptionalSecret]
(* restic_repository_base: absent, a path, an address, or rclone:<remote>: *)
SettingsRow == [base : {None, "path", "s3"} \union Remote,
                conf : OptionalSecret]
(* The strategy, an own RESTIC_REPOSITORY, path_storage, and references. *)
TargetRecord == [restic : BOOLEAN, repo : BOOLEAN, path : BOOLEAN,
                 profile : Profile \union {None}, password : OptionalSecret]

(* _validate_path_storage_target_environment *)
Permitted(t) == ~(t.restic /\ t.path /\ t.repo)

NoRepository == [source |-> "unconfigured", remote |-> None, appended |-> 0]
Resting == [op |-> "none"]

ConfigurationInit ==
  /\ secretRow = [s \in Secret |-> "absent"]
  /\ profileRow = [p \in Profile |-> Absent]
  /\ settingsRow = [base |-> None, conf |-> None]
  /\ savedTarget = [restic |-> TRUE, repo |-> FALSE, path |-> FALSE,
                    profile |-> None, password |-> None]
  /\ edit = [h \in Clerk |-> Resting]
  /\ overlapped = FALSE

-----------------------------------------------------------------------------
(* Requests of operators.                                                  *)

Exists(s) == s = None \/ secretRow[s] # "absent"
Edits(h, e) == edit' = [edit EXCEPT ![h] = e]

MayBegin(h) == edit[h] = Resting /\ ~(OneOverlap /\ overlapped)

(* A request comes in; from now on it may overlap with others. *)
Accepts(h, e) ==
  /\ MayBegin(h)
  /\ Edits(h, e)
  /\ overlapped' = (overlapped \/ \E g \in Clerk : edit[g] # Resting)
  /\ UNCHANGED rowVars

(* A row was saved: the handler rests.  A payload that is being built      *)
(* meanwhile may mix what was and what is; it ends without its content     *)
(* being followed further.                                                 *)
Saved(h) ==
  /\ edit' = [g \in Clerk |-> CASE g = h -> Resting
                              [] g # h /\ edit[g].op = "build" ->
                                   [op |-> "build", at |-> "mixed"]
                              [] OTHER -> edit[g]]
  /\ UNCHANGED overlapped

(* create_secret and update_secret *)
EditSecret(h) ==
  \E s \in Secret, r \in Remote :
    Accepts(h, [op |-> "secret", id |-> s, value |-> r])

(* update_settings, create_ and update_storage_profile, register_ and      *)
(* update_target: a reference that the request gives is asked for, one     *)
(* that it leaves alone is saved as it was read.  The rclone reference of  *)
(* the settings can be replaced, but an empty one is taken for none given. *)
(* Nobody asks for the secrets of a profile's environment.                 *)
EditReferring(h) ==
  \/ \E s \in OptionalSecret :
       Accepts(h, [op |-> "target", ref |-> s, asked |-> FALSE])
  \/ Accepts(h, [op |-> "target", ref |-> savedTarget.password,
                 asked |-> TRUE])
  \/ \E s \in Secret :
       Accepts(h, [op |-> "settings", ref |-> s, asked |-> FALSE])
  \/ Accepts(h, [op |-> "settings", ref |-> settingsRow.conf, asked |-> TRUE])
  \/ \E p \in Profile :
       \/ \E s \in OptionalSecret :
            Accepts(h, [op |-> "profile", id |-> p, ref |-> s,
                        asked |-> FALSE])
       \/ /\ profileRow[p] # Absent
          /\ Accepts(h, [op |-> "profile", id |-> p,
                         ref |-> profileRow[p].file, asked |-> TRUE])

Referring(h) == edit[h].op \in {"settings", "target", "profile"}

(* _require_secret: a reference that is missing is an error. *)
RequireSecret(h) ==
  /\ Referring(h) /\ ~edit[h].asked
  /\ Edits(h, IF Exists(edit[h].ref) THEN [edit[h] EXCEPT !.asked = TRUE]
              ELSE Resting)
  /\ UNCHANGED <<rowVars, overlapped>>

SaveSecret(h) ==
  /\ edit[h].op = "secret"
  /\ secretRow' = [secretRow EXCEPT ![edit[h].id] = edit[h].value]
  /\ Saved(h)
  /\ UNCHANGED <<profileRow, settingsRow, savedTarget>>

SaveSettings(h) ==
  /\ edit[h].op = "settings" /\ edit[h].asked
  /\ settingsRow' \in {row \in SettingsRow : row.conf = edit[h].ref}
  /\ Saved(h)
  /\ UNCHANGED <<secretRow, profileRow, savedTarget>>

SaveProfile(h) ==
  /\ edit[h].op = "profile" /\ edit[h].asked
  /\ \E row \in ProfileRow :
       /\ row.file = edit[h].ref
       /\ profileRow' = [profileRow EXCEPT ![edit[h].id] = row]
  /\ Saved(h)
  /\ UNCHANGED <<secretRow, settingsRow, savedTarget>>

(* The profile has to exist as well. *)
SaveBackupTarget(h) ==
  /\ edit[h].op = "target" /\ edit[h].asked
  /\ savedTarget' \in {row \in TargetRecord :
                         /\ row.password = edit[h].ref /\ Permitted(row)
                         /\ \/ row.profile = None
                            \/ profileRow[row.profile] # Absent}
  /\ Saved(h)
  /\ UNCHANGED <<secretRow, profileRow, settingsRow>>

(* Usages of which the one in the settings is forgotten. *)
UsedOutsideSettings(place, s) ==
  CASE place = "target" -> savedTarget.password = s
    [] place = "profile" ->
         \E p \in Profile : s \in {profileRow[p].file, profileRow[p].env}
    [] OTHER -> FALSE

(* find_secret_usages goes through targets, profiles and settings, in this *)
(* order and by a call for each.                                           *)
UsedIn(place, s) ==
  CASE place = "target" -> savedTarget.password = s
    [] place = "profile" ->
         \E p \in Profile : s \in {profileRow[p].file, profileRow[p].env}
    [] OTHER -> settingsRow.conf = s

SecretPlaces == <<"target", "profile", "settings">>

FindUsages(h) ==
  \/ \E s \in Secret :
       /\ secretRow[s] # "absent"
       /\ Accepts(h, [op |-> "delete", id |-> s, left |-> SecretPlaces])
  \/ /\ edit[h].op = "delete" /\ edit[h].left # <<>>
     /\ Edits(h, IF UsedIn(Head(edit[h].left), edit[h].id) THEN Resting
                 ELSE [edit[h] EXCEPT !.left = Tail(@)])
     /\ UNCHANGED <<rowVars, overlapped>>

DeleteSecret(h) ==
  /\ edit[h].op = "delete" /\ edit[h].left = <<>>
  /\ secretRow' = [secretRow EXCEPT ![edit[h].id] = "absent"]
  /\ Saved(h)
  /\ UNCHANGED <<profileRow, settingsRow, savedTarget>>

(* delete_storage_profile asks nobody: a target may go on naming it. *)
DeleteProfile(h) ==
  /\ MayBegin(h)
  /\ \E p \in Profile :
       /\ profileRow[p] # Absent
       /\ profileRow' = [profileRow EXCEPT ![p] = Absent]
  /\ Saved(h)
  /\ UNCHANGED <<secretRow, settingsRow, savedTarget>>

-----------------------------------------------------------------------------
(* The repository of a target.                                             *)

Named(s) == IF s = None \/ secretRow[s] = "absent" THEN None ELSE secretRow[s]

(* _profile_rclone_remote: only a profile of the rclone backend gives one. *)
ProfileRemote(profile, file) ==
  IF profile.backend = "rclone" THEN file ELSE None

(* _settings_repository_for_target.  The path of the target, or its name,  *)
(* is part of it.                                                          *)
SettingsRepository(target, remote) ==
  IF ~target.restic \/ settingsRow.base = None THEN NoRepository
  ELSE [source |-> IF remote # None /\ settingsRow.base # "s3"
                   THEN "profile" ELSE "settings",
        remote |-> CASE settingsRow.base \in Remote ->
                          IF remote # None THEN remote ELSE settingsRow.base
                     [] settingsRow.base = "s3" -> None
                     [] OTHER -> IF remote # None THEN remote
                                 ELSE Named(settingsRow.conf),
        appended |-> 1]

(* _resolve_effective_repository: the target's own, the profile's, or the  *)
(* settings'.  environment is the repository found so far; compose says    *)
(* whether the target's path is still to be appended to a profile's.       *)
EffectiveRepository(target, profile, file, environment, compose) ==
  CASE target.repo -> [source |-> "target", remote |-> None, appended |-> 0]
    [] ~target.repo /\ profile.repo ->
         [environment EXCEPT !.source = "profile",
            !.appended = @ + (IF compose /\ target.restic /\ target.path
                              THEN 1 ELSE 0)]
    [] OTHER -> SettingsRepository(target, ProfileRemote(profile, file))

(* The profile as the second reading of it finds it. *)
ProfileNow(target) ==
  IF target.profile = None THEN Absent ELSE profileRow[target.profile]

(* What the environment holds before the repository is looked for: what    *)
(* the profile says, unless the target has its own.                        *)
Given(target, profile) ==
  IF target.repo \/ profile.repo
  THEN [source |-> IF target.repo THEN "target" ELSE "profile",
        remote |-> None, appended |-> 0]
  ELSE NoRepository

-----------------------------------------------------------------------------
(* Building the payload of a job for the target.                           *)

(* The target is read, and then the profile, which has to be there. *)
BuildBegins(h) ==
  Accepts(h, [op |-> "build", at |-> "profile", target |-> savedTarget])

Building(h, at) == edit[h].op = "build" /\ edit[h].at = at

BuildReadsProfile(h) ==
  /\ Building(h, "profile")
  /\ Edits(h, IF edit[h].target.profile # None
                 /\ ProfileNow(edit[h].target) = Absent
              THEN Resting
              ELSE [op |-> "build", at |-> "file", target |-> edit[h].target,
                    profile |-> ProfileNow(edit[h].target)])
  /\ UNCHANGED <<rowVars, overlapped>>

(* _resolve_secret_refs and _resolve_file_secret_refs *)
BuildReadsFile(h) ==
  /\ Building(h, "file")
  /\ Edits(h, IF \/ ~Exists(edit[h].profile.env)
                 \/ ~Exists(edit[h].profile.file) THEN Resting
              ELSE [op |-> "build", at |-> "resolve",
                    target |-> edit[h].target,
                    given |-> Given(edit[h].target, edit[h].profile),
                    file |-> Named(edit[h].profile.file)])
  /\ UNCHANGED <<rowVars, overlapped>>

(* What is in the environment, and the repository as resolved with it. *)
Resolve(b, environment, compose) ==
  EffectiveRepository(b.target, ProfileNow(b.target), b.file, environment,
                      compose)

(* _resolve_runtime_dependencies: only a restic target needs one.  Where   *)
(* the profile has no rclone.conf the settings' joins the files of the     *)
(* run, and from then on nothing tells it from the profile's.              *)
BuildResolves(h) ==
  /\ Building(h, "resolve")
  /\ LET b == edit[h]
         found == Resolve(b, b.given, TRUE)
     IN Edits(h, [op |-> "build", at |-> "context", target |-> b.target,
                  file |-> IF b.target.restic /\ b.file = None
                           THEN Named(settingsRow.conf) ELSE b.file,
                  environment |-> IF b.target.restic /\ found # NoRepository
                                  THEN found ELSE b.given])
  /\ UNCHANGED <<rowVars, overlapped>>

(* A context that appends the target's path to what has it already. *)
ContextComposed(b) == Resolve(b, b.environment, TRUE)

(* _storage_context resolves it once more, from rows it reads again. *)
StorageContext(b) == Resolve(b, b.environment, FALSE)

BuildShows(h) ==
  /\ Building(h, "context")
  /\ Edits(h, [op |-> "build", at |-> "built", target |-> edit[h].target,
               environment |-> edit[h].environment,
               context |-> StorageContext(edit[h])])
  /\ UNCHANGED <<rowVars, overlapped>>

(* dispatch_job takes the payload from here. *)
BuildEnds(h) ==
  /\ Building(h, "built") \/ Building(h, "mixed")
  /\ Edits(h, Resting)
  /\ UNCHANGED <<rowVars, overlapped>>

ConfigurationNext ==
  \E h \in Clerk :
    \/ EditSecret(h) \/ EditReferring(h) \/ RequireSecret(h) \/ SaveSecret(h)
    \/ SaveSettings(h) \/ SaveProfile(h) \/ SaveBackupTarget(h)
    \/ FindUsages(h) \/ DeleteSecret(h) \/ DeleteProfile(h)
    \/ BuildBegins(h) \/ BuildReadsProfile(h) \/ BuildReadsFile(h)
    \/ BuildResolves(h) \/ BuildShows(h) \/ BuildEnds(h)

ConfigurationSpec ==
  ConfigurationInit /\ [][ConfigurationNext]_configurationVars

-----------------------------------------------------------------------------
(* Properties.                                                             *)

ConfigurationTypeOK ==
  /\ secretRow \in [Secret -> Remote \union {"absent"}]
  /\ profileRow \in [Profile -> ProfileRow \union {Absent}]
  /\ settingsRow \in SettingsRow
  /\ savedTarget \in TargetRecord
  /\ overlapped \in BOOLEAN
  /\ \A h \in Clerk :
       /\ edit[h].op \in {"none", "secret", "settings", "profile", "target",
                         "delete", "build"}
       /\ Building(h, "context") => edit[h].environment.appended \in 0..1

(* The references that a save asks for, and those that it does not.        *)
AskedFor == {settingsRow.conf, savedTarget.password}
              \union {profileRow[p].file : p \in Profile}
Unasked == {profileRow[p].env : p \in Profile}

(* As long as no two requests of operators overlap, every secret that the  *)
(* settings, a target or a profile's file refer to is there, whatever is   *)
(* created, changed and deleted in whichever order; and no secret is       *)
(* deleted that anything refers to, a profile's environment included,      *)
(* which may name secrets that were never there (delete_secret,            *)
(* find_secret_usages, _require_secret).                                   *)
ReferencedSecretsExist ==
  /\ [](overlapped \/ \A s \in AskedFor : Exists(s))
  /\ [][\A s \in Secret :
          secretRow[s] # "absent" /\ secretRow'[s] = "absent" =>
            overlapped \/ s \notin AskedFor \union Unasked]_configurationVars

(* A profile of the rclone backend that has no rclone.conf, under settings *)
(* that have one.                                                          *)
LacksFile(target) ==
  /\ ProfileNow(target).backend = "rclone" /\ ProfileNow(target).file = None
  /\ ~ProfileNow(target).repo /\ settingsRow.conf # None

(* The storage context that is shown with a job names the repository that  *)
(* the job was given, its source, its remote and its path, whichever of    *)
(* target, profile and settings it came from and although it is worked out *)
(* twice, unless the profile lacks the file that the settings have.  (A    *)
(* row that is saved between the two makes them differ as well.)           *)
ContextNamesTheRepository ==
  \A h \in Clerk :
    Building(h, "built") =>
      edit[h].context = edit[h].environment \/ LacksFile(edit[h].target)

(* "Return the exact repository and its precedence source for one target": *)
(* the two calls of _resolve_effective_repository for a payload return the *)
(* same.                                                                   *)
RepositoryIsExact ==
  \A h \in Clerk :
    Building(h, "built") => edit[h].context = edit[h].environment

=============================================================================
