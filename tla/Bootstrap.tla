----------------------------- MODULE Bootstrap ------------------------------
(***************************************************************************)
(* scripts/bootstrap.sh, which turns a copy of the template into a project *)
(* ("make init"), the CI workflows' template detection, and a user who     *)
(* interrupts the script, runs it again or restores it.                    *)
(*                                                                         *)
(* A file is the placeholders it holds, each still in place (Raw) or       *)
(* replaced by the answers of one run. .env also has the secret key.       *)
(***************************************************************************)
EXTENDS Naturals, Sequences, FiniteSets

CONSTANTS Files,       \* files the find patterns match
          Holds,       \* Holds[f]: the placeholders file f comes with
          PyProject, CiWorkflow, TemplateWorkflow, EnvExample, EnvFile,
          Answers,     \* what a user can answer to the prompts, as a whole
          Raw, None,
          MaxCrashes   \* bound: how many times the script is interrupted

\* The calls of replace_in_files, in order.
Placeholders == <<"NAME", "SLUG", "SERVICE", "OWNER", "DESCRIPTION", "PORT">>
PlaceholderNames == {Placeholders[k] : k \in 1 .. Len(Placeholders)}

\* cleanup_template_artifacts, in order: the Makefile's init target, the README's
\* section, the script itself, the template-only workflow.
Artifacts == <<"init_target", "readme_section", "script", "workflow">>
ArtifactNames == {Artifacts[k] : k \in 1 .. Len(Artifacts)}

ASSUME FilesAssumption ==
  /\ {PyProject, CiWorkflow, TemplateWorkflow, EnvExample, EnvFile} \subseteq Files
  /\ EnvExample # EnvFile /\ TemplateWorkflow \notin {EnvExample, EnvFile}
  /\ Holds \in [Files -> SUBSET PlaceholderNames]
  /\ "SLUG" \in Holds[PyProject] \cap Holds[CiWorkflow] \cap Holds[EnvExample]
  /\ Holds[EnvFile] = Holds[EnvExample]
ASSUME AnswersAssumption ==
  Raw # None /\ {Raw, None} \cap (Answers \cup {"own", "good", "mangled", "empty"}) = {}
ASSUME CrashesAssumption == MaxCrashes \in Nat

VARIABLES text,       \* text[f][p]: what stands for placeholder p in file f, None if nothing
          postman,    \* what stands for the slug in the names of the postman files
          key,        \* the secret key in .env, None if there is no .env, "empty" if .env is empty
          sentinel,   \* .initialized: None or the answers it was stamped with
          artifacts,  \* the template artifacts that are left
          answers,    \* the answers of the last run
          pc, pos,    \* where the script is, and the placeholder it replaces
          crashes

vars == <<text, postman, key, sentinel, artifacts, answers, pc, pos, crashes>>
tree == <<text, postman, key, sentinel, artifacts>>

Nothing == [p \in PlaceholderNames |-> None]
Template(f) == [p \in PlaceholderNames |-> IF p \in Holds[f] THEN Raw ELSE None]

-----------------------------------------------------------------------------
(* The script.                                                             *)

Pristine == pc \in {"off", "done"} /\ text[PyProject] = Template(PyProject)  \* mutant: cannot resume
Startable == pc \in {"off", "done"}

NeverInitialized == FALSE                                \* mutant: the sentinel is not looked at
AlreadyInitialized == sentinel # None

\* A run with valid answers; with the sentinel in place it ends at once, successfully.
Run ==
  /\ Startable /\ "script" \in artifacts
  /\ answers' \in Answers
  /\ \/ AlreadyInitialized /\ pc' = "done"
     \/ ~AlreadyInitialized /\ pc' = "patch"
  /\ pos' = 1
  /\ UNCHANGED <<tree, crashes>>

\* The files grep -lF finds for a placeholder.
FoundOutsideWorkflows(p) == {f \in Files \ {CiWorkflow} : text[f][p] = Raw}  \* mutant: **/.github skipped
Found(p) == {f \in Files : text[f][p] = Raw}

\* replace_in_files: sed -i replaces a file by its patched copy.
PatchFile ==
  /\ pc = "patch"
  /\ \E f \in Found(Placeholders[pos]) : text' = [text EXCEPT ![f][Placeholders[pos]] = answers]
  /\ UNCHANGED <<postman, key, sentinel, artifacts, answers, pc, pos, crashes>>

NextPlaceholder ==
  /\ pc = "patch"
  /\ Found(Placeholders[pos]) = {}
  /\ \/ pos < Len(Placeholders) /\ pos' = pos + 1 /\ UNCHANGED pc
     \/ pos = Len(Placeholders) /\ pc' = "rename" /\ UNCHANGED pos
  /\ UNCHANGED <<tree, answers, crashes>>

RenamePostman ==
  /\ pc = "rename"
  /\ postman' = IF postman = Raw THEN answers ELSE postman
  /\ pc' = "env"
  /\ UNCHANGED <<text, key, sentinel, artifacts, answers, pos, crashes>>

AlwaysCopies == TRUE                                     \* mutant: no [[ ! -f .env ]]
EnvMissing == key = None

EmptyCopy == Nothing                                     \* mutant: touch .env
CopyOfExample == text[EnvExample]

CreateEnv ==
  /\ pc = "env"
  /\ \/ EnvMissing /\ text' = [text EXCEPT ![EnvFile] = CopyOfExample] /\ key' = Raw
     \/ ~EnvMissing /\ UNCHANGED <<text, key>>
  /\ pc' = "key"
  /\ UNCHANGED <<postman, sentinel, artifacts, answers, pos, crashes>>

\* cp is interrupted after it has created .env and before it has written to it.
CopyInterrupted ==
  /\ pc = "env" /\ EnvMissing
  /\ crashes < MaxCrashes
  /\ key' = "empty"
  /\ pc' = "off"
  /\ crashes' = crashes + 1
  /\ UNCHANGED <<text, postman, sentinel, artifacts, answers, pos>>

CleansFirst == "clean"                                   \* mutant: stamped after the cleanup
AfterKey == "stamp"

\* What .env holds once a generated key was put into it. The key's alphabet has an &,
\* and the key goes into a sed replacement unescaped: there & stands for the matched
\* placeholder, which then is back in the file (mangled).
GeneratedKeys == {"good", "mangled"}

PatchKey ==
  /\ pc = "key"
  /\ \/ key \in {Raw, "mangled"} /\ key' \in GeneratedKeys
     \/ key \notin {Raw, "mangled"} /\ UNCHANGED key
  /\ pc' = AfterKey
  /\ UNCHANGED <<text, postman, sentinel, artifacts, answers, pos, crashes>>

Stamp ==
  /\ pc = "stamp"
  /\ sentinel' = answers
  /\ pc' = "clean"
  /\ UNCHANGED <<text, postman, key, artifacts, answers, pos, crashes>>

\* The first artifact that is left.
NextArtifact ==
  LET left == {k \in 1 .. Len(Artifacts) : Artifacts[k] \in artifacts}
  IN  Artifacts[CHOOSE k \in left : \A l \in left : k <= l]

CleanArtifact ==
  /\ pc = "clean" /\ artifacts # {}
  /\ artifacts' = artifacts \ {NextArtifact}
  /\ text' = IF NextArtifact = "workflow" THEN [text EXCEPT ![TemplateWorkflow] = Nothing] ELSE text
  /\ UNCHANGED <<postman, key, sentinel, answers, pc, pos, crashes>>

\* Cleaned, or BOOTSTRAP_CLEAN_TEMPLATE=false. What is left (uv sync, the hooks) cannot
\* fail the script.
End ==
  /\ pc = "clean"
  /\ artifacts \in {{}, ArtifactNames}
  /\ pc' = "done"
  /\ UNCHANGED <<tree, answers, pos, crashes>>

\* Interrupted, or a command fails under set -e.
Crash ==
  /\ pc \notin {"off", "done"}
  /\ crashes < MaxCrashes
  /\ pc' = "off"
  /\ crashes' = crashes + 1
  /\ UNCHANGED <<tree, answers, pos>>

\* README.md:44: the user takes the script back from git history.
RestoreScript ==
  /\ pc = "done" /\ "script" \notin artifacts
  /\ artifacts' = artifacts \cup {"script"}
  /\ UNCHANGED <<text, postman, key, sentinel, answers, pc, pos, crashes>>

-----------------------------------------------------------------------------
\* A fresh copy of the template; its user may have made a .env, with a key or without.
Init ==
  /\ key \in {None, Raw, "own"}
  /\ text = [f \in Files |-> IF f = EnvFile /\ key = None THEN Nothing ELSE Template(f)]
  /\ postman = Raw
  /\ sentinel = None
  /\ artifacts = ArtifactNames
  /\ answers = None
  /\ pc = "off" /\ pos = 1
  /\ crashes = 0

Advance ==
  \/ PatchFile \/ NextPlaceholder \/ RenamePostman \/ CreateEnv \/ PatchKey \/ Stamp
  \/ CleanArtifact \/ End

Next == Run \/ Advance \/ Crash \/ CopyInterrupted \/ RestoreScript

Spec == Init /\ [][Next]_vars

\* The script does not stop by itself, and while the repository is not initialized its
\* user runs the script again.
FairSpec == Spec /\ WF_vars(Advance) /\ WF_vars(Run /\ sentinel = None)

-----------------------------------------------------------------------------
(* Properties.                                                             *)

Texts == [PlaceholderNames -> Answers \cup {Raw, None}]

\* Every variable holds a value of its kind; .env has contents when there is a key in it.
TypeOK ==
  /\ text \in [Files -> Texts]
  /\ postman \in Answers \cup {Raw}
  /\ key \in {None, Raw, "own", "good", "mangled", "empty"}
  /\ (key \in {None, "empty"}) = (text[EnvFile] = Nothing)
  /\ sentinel \in Answers \cup {None}
  /\ artifacts \subseteq ArtifactNames
  /\ answers \in Answers \cup {None}
  /\ pc \in {"off", "patch", "rename", "env", "key", "stamp", "clean", "done"}
  /\ pos \in 1 .. Len(Placeholders)
  /\ crashes \in 0 .. MaxCrashes

\* An initialized repository has no placeholder left, in files, file names or .env,
\* wherever earlier runs were interrupted (bootstrap.sh:217).
SentinelMeansPatched ==
  sentinel # None => /\ \A f \in Files, p \in PlaceholderNames : text[f][p] # Raw
                     /\ postman # Raw
                     /\ key \notin {None, Raw}

\* Until the sentinel is there the script is too: an interrupted run can be repeated.
ResumableUntilStamped == sentinel = None => "script" \in artifacts

\* A key of the user's, or one generated by a run that was interrupted later, stays.
KeysAreKept == [][(key \in {"own", "good"}) => key' = key]_vars

\* What the repository has taken over from its users' answers, in files, file names and
\* the sentinel.
Applied ==
  ({text[f][p] : f \in Files, p \in PlaceholderNames} \cup {postman, sentinel}) \ {None, Raw}

\* One repository, one set of answers: each further set that is mixed into it is the price
\* of an interruption. Running the script again once it has completed, restored from git
\* or never removed, changes nothing whatever it is answered (bootstrap.sh:9-12).
MixesNeedInterruptions == Cardinality(Applied) <= 1 + crashes

\* With finitely many interruptions the repository gets initialized.
InitializedInTheEnd == <>(sentinel # None)

\* The detect jobs: grep -q "<literal>" pyproject.toml means not initialized.
DetectsInitialized == text[CiWorkflow]["SLUG"] # text[PyProject]["SLUG"]

\* .github/workflows/ci.yml:18-30, release.yml: the workflows run in an initialized
\* project. The script also replaces the literal they search for.
CiSeesInitialization == sentinel # None => DetectsInitialized

\* bootstrap.sh:214: "Patch the generated secret key directly into .env".
KeyIsPatched == sentinel # None => key # "mangled"
=============================================================================
