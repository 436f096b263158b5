---------------------------- MODULE SkillInstall ----------------------------
(***************************************************************************)
(* Skills on disk: install_skill of the agent (pkg/tools/skills_install.go *)
(* with pkg/skills/clawhub_registry.go and scanner/), the `skills` command *)
(* in a process of its own (cmd_skills.go, pkg/skills/installer.go), and   *)
(* the loader that lists them for every prompt (pkg/skills/loader.go).     *)
(* The tool's mutex serialises the tool; nothing serialises the command.   *)
(***************************************************************************)
EXTENDS Naturals, FiniteSets

CONSTANTS Skills,        \* directory names
          InstallRounds, \* rounds that call install_skill
          SkillShells,   \* processes of the skills command
          NoSkill,       \* no directory, no skill, nobody
          MaxInstalls    \* bound: operations

Sources == {"workspace", "global", "builtin"}

VARIABLES skillDir, \* skill -> its directory in the workspace, or NoSkill
          shipped,  \* what global and built-in skills there are
          mutex,    \* who holds the tool's mutex, or NoSkill
          installing, slug, force, by,   \* each installer's step and its arguments
          installs,
          unclean   \* history: operations overlapped, one was killed, or a write failed

installVars == <<skillDir, shipped, mutex, installing, slug, force, by, installs, unclean>>
Installers == InstallRounds \cup SkillShells
args == <<slug, force, by>>

(* A directory: its files are all there; SKILL.md is valid; it was scanned *)
(* and is not blocked; its origin is noted; who made it.                   *)
Kinds == {"none", "tool", "registry", "github"}
SkillDirs == [whole : BOOLEAN, valid : BOOLEAN, passed : BOOLEAN, origin : BOOLEAN, of : Kinds]
Partial == [whole |-> FALSE, valid |-> FALSE, passed |-> FALSE, origin |-> FALSE, of |-> "none"]

(* Rounds are not processes of the command, and NoSkill is none of these.  *)
ASSUME InstallAssumption ==
  /\ InstallRounds \cap SkillShells = {}
  /\ NoSkill \notin Installers \cup SkillDirs

InstallInit ==
  /\ skillDir = [s \in Skills |-> NoSkill]
  /\ shipped \in [Skills -> SUBSET {"global", "builtin"}]
  /\ mutex = NoSkill
  /\ installing = [i \in Installers |-> "idle"] /\ slug = [i \in Installers |-> NoSkill]
  /\ force = [i \in Installers |-> FALSE] /\ by = [i \in Installers |-> "none"]
  /\ installs = 0 /\ unclean = FALSE

Proceed(i, to) == installing' = [installing EXCEPT ![i] = to]
Begun(i, s, f, b) ==
  /\ installing[i] = "idle" /\ installs < MaxInstalls /\ installs' = installs + 1
  /\ slug' = [slug EXCEPT ![i] = s] /\ force' = [force EXCEPT ![i] = f]
  /\ by' = [by EXCEPT ![i] = b] /\ Proceed(i, "called")
  /\ unclean' = (unclean \/ (\E j \in Installers \ {i} : installing[j] # "idle"
                                     /\ {i, j} \cap SkillShells # {}))
  /\ UNCHANGED <<skillDir, shipped, mutex>>

InstallSkill(i, s, f) == i \in InstallRounds /\ Begun(i, s, f, "tool")
InstallFromRegistry(i, s) == i \in SkillShells /\ Begun(i, s, FALSE, "registry")
InstallFromGitHub(i, s) == i \in SkillShells /\ Begun(i, s, FALSE, "github")

(* The mutex, then the check: an installed skill is an error, or with      *)
(* `force` it is removed first.  (Faulty form: it is left in place.)       *)
Left(s) == skillDir
Removed(s) == [skillDir EXCEPT ![s] = NoSkill]
CheckSkill(i) ==
  /\ installing[i] = "called"
  /\ i \in InstallRounds => mutex = NoSkill
  /\ IF skillDir[slug[i]] # NoSkill /\ ~force[i]
     THEN Proceed(i, "idle") /\ UNCHANGED <<skillDir, mutex>>
     ELSE /\ skillDir' = IF force[i] THEN Removed(slug[i]) ELSE skillDir
          /\ mutex' = IF i \in InstallRounds THEN i ELSE mutex
          /\ Proceed(i, "fetch")
  /\ UNCHANGED <<shipped, args, installs, unclean>>

InstallDone(i) == Proceed(i, "idle") /\ mutex' = IF mutex = i THEN NoSkill ELSE mutex

(* DownloadAndInstall: an unknown registry, a failing download and a bad   *)
(* archive end it; a directory that was begun is removed.  From GitHub     *)
(* only SKILL.md comes, after the whole body was read.                     *)
FetchSkill(i) ==
  /\ installing[i] = "fetch"
  /\ \/ InstallDone(i) /\ skillDir' = IF by[i] = "github" THEN skillDir
                                       ELSE [skillDir EXCEPT ![slug[i]] = NoSkill]
     \/ /\ skillDir' = [skillDir EXCEPT ![slug[i]] = IF @ = NoSkill THEN Partial ELSE @]
        /\ Proceed(i, "extract") /\ UNCHANGED mutex
  /\ UNCHANGED <<shipped, args, installs, unclean>>
ExtractSkill(i) ==
  /\ installing[i] = "extract"
  /\ \/ /\ by[i] # "github" /\ InstallDone(i)
        /\ skillDir' = [skillDir EXCEPT ![slug[i]] = NoSkill]
        /\ UNCHANGED unclean
     \/ by[i] = "github" /\ InstallDone(i) /\ unclean' = TRUE /\ UNCHANGED skillDir
     \/ /\ UNCHANGED unclean
        /\ \E valid \in BOOLEAN :
             skillDir' = [skillDir EXCEPT ![slug[i]] = [Partial EXCEPT
                       !.whole = (@ \/ skillDir[slug[i]] = Partial \/ skillDir[slug[i]] = NoSkill),
                       !.valid = valid, !.of = by[i]]]
        /\ IF by[i] = "github" THEN InstallDone(i) ELSE Proceed(i, "judge") /\ UNCHANGED mutex
  /\ UNCHANGED <<shipped, args, installs>>

(* The tool scans the files (a score from BlockAt on blocks, a scan that   *)
(* fails does not), and a skill the registry calls malware is removed.     *)
(* The command asks the registry only.                                     *)
Judge(i) ==
  /\ installing[i] = "judge"
  /\ \/ InstallDone(i) /\ skillDir' = [skillDir EXCEPT ![slug[i]] = NoSkill]
     \/ /\ skillDir' = IF skillDir[slug[i]] = NoSkill THEN skillDir
                       ELSE [skillDir EXCEPT ![slug[i]].passed = TRUE]
        /\ IF i \in InstallRounds THEN Proceed(i, "origin") /\ UNCHANGED mutex
           ELSE InstallDone(i)
  /\ UNCHANGED <<shipped, args, installs, unclean>>

(* writeOriginMeta: an error is only logged. *)
WriteOrigin(i) ==
  /\ installing[i] = "origin" /\ InstallDone(i)
  /\ \E ok \in BOOLEAN :
       skillDir' = IF skillDir[slug[i]] = NoSkill THEN skillDir
                   ELSE [skillDir EXCEPT ![slug[i]].origin = ok]
  /\ UNCHANGED <<shipped, args, installs, unclean>>

(* skills remove. *)
Uninstall(i, s) ==
  /\ i \in SkillShells /\ installing[i] = "idle" /\ skillDir[s] # NoSkill
  /\ installs < MaxInstalls /\ installs' = installs + 1
  /\ skillDir' = [skillDir EXCEPT ![s] = NoSkill]
  /\ unclean' = (unclean \/ \E j \in Installers \ {i} : installing[j] # "idle")
  /\ UNCHANGED <<shipped, mutex, installing, args>>

KillInstaller(i) ==
  /\ installing[i] \notin {"idle", "called"} /\ InstallDone(i) /\ unclean' = TRUE
  /\ UNCHANGED <<skillDir, shipped, args, installs>>

InstallNext ==
  \E i \in Installers :
    \/ CheckSkill(i) \/ FetchSkill(i) \/ ExtractSkill(i) \/ Judge(i) \/ WriteOrigin(i)
    \/ KillInstaller(i)
    \/ \E s \in Skills : \/ InstallFromRegistry(i, s) \/ InstallFromGitHub(i, s)
                         \/ Uninstall(i, s)
                         \/ \E f \in BOOLEAN : InstallSkill(i, s, f)

InstallSpec == InstallInit /\ [][InstallNext]_installVars

-----------------------------------------------------------------------------
(* ListSkills: a workspace skill that is valid hides a global one of its   *)
(* name, and either hides a built-in one.  LoadSkill looks for a file only.*)
HasFile(s) == skillDir[s] # NoSkill /\ skillDir[s].whole
ListSkills ==
  {<<s, "workspace">> : s \in {x \in Skills : HasFile(x) /\ skillDir[x].valid}}
    \cup {<<s, "global">> : s \in {x \in Skills : "global" \in shipped[x]
                                     /\ ~(HasFile(x) /\ skillDir[x].valid)}}
    \cup {<<s, "builtin">> : s \in {x \in Skills : shipped[x] = {"builtin"}
                                     /\ ~(HasFile(x) /\ skillDir[x].valid)}}
LoadSkill(s) == IF HasFile(s) THEN "workspace"
                ELSE IF "global" \in shipped[s] THEN "global"
                ELSE IF "builtin" \in shipped[s] THEN "builtin" ELSE "none"

(* When no installer is at work and none overlapped another process or was *)
(* killed, a skill is there whole or not at all, what came from a registry *)
(* was judged, and one that the prompt lists loads from where it is listed.*)
(* From GitHub a file that cannot be written leaves its directory behind   *)
(* (skills_install.go:79-188, loader.go:72-210).                           *)
InstalledIsWhole ==
  ~unclean /\ (\A i \in Installers : installing[i] = "idle") =>
    /\ mutex = NoSkill
    /\ \A s \in Skills : skillDir[s] # NoSkill =>
         skillDir[s].whole /\ (skillDir[s].of # "github" => skillDir[s].passed)
    /\ \A l \in ListSkills : (HasFile(l[1]) => skillDir[l[1]].valid) => LoadSkill(l[1]) = l[2]
=============================================================================
