-------------------------- MODULE BootstrapProofs ---------------------------
(***************************************************************************)
(* Theorems about Bootstrap, for every set of files and placeholders they  *)
(* hold, every set of answers and every number of interruptions.           *)
(***************************************************************************)
EXTENDS Bootstrap, FiniteSetTheorems, TLAPS

-----------------------------------------------------------------------------
(* The inductive invariant: what every place of the script has established *)
(* for the places after it.                                                *)

NoPlaceholderLeft == \A f \in Files, p \in PlaceholderNames : text[f][p] # Raw

\* Of the run's own order: the placeholders before pos are gone from every file.
PatchedSoFar ==
  pc = "patch" => \A f \in Files, k \in 1 .. pos - 1 : text[f][Placeholders[k]] # Raw

PlacesCoherent ==
  /\ pc \in {"rename", "env", "key", "stamp", "clean"} => NoPlaceholderLeft
  /\ pc \in {"env", "key", "stamp", "clean"} => postman # Raw
  /\ pc \in {"key", "stamp", "clean"} => key # None
  /\ pc \in {"stamp", "clean"} => key # Raw
  /\ pc \notin {"off", "done"} => answers \in Answers

\* The sentinel splits the script's places into those before and after it was stamped.
SentinelCoherent ==
  /\ sentinel = None => pc \notin {"clean", "done"} /\ "script" \in artifacts
  /\ sentinel # None => pc \in {"off", "clean", "done"}

\* The copy that .env is made from is never an empty one.
ExampleHasContents == text[EnvExample]["SLUG"] # None

Coherent ==
  /\ TypeOK /\ PatchedSoFar /\ PlacesCoherent
  /\ SentinelCoherent /\ SentinelMeansPatched /\ ExampleHasContents

\* What has been applied or will be by the run that is under way, and how many sets of
\* answers that may be: a run that follows an interruption has one more to apply.
Claimed ==
  Applied \cup (IF pc \in {"patch", "rename", "env", "key", "stamp"} THEN {answers} ELSE {})
Allowance == IF pc = "off" /\ sentinel = None THEN crashes ELSE 1 + crashes
WithinAllowance == IsFiniteSet(Claimed) /\ Cardinality(Claimed) <= Allowance

IInv == Coherent /\ WithinAllowance

-----------------------------------------------------------------------------
(* Lemmas about the lists of the script and the text of the files.         *)

USE FilesAssumption, AnswersAssumption, CrashesAssumption

\* replace_in_files is called once for every placeholder there is.
LEMMA PlaceholdersAre ==
  /\ Len(Placeholders) = 6
  /\ \A k \in 1 .. 6 : Placeholders[k] \in PlaceholderNames
  /\ \A p \in PlaceholderNames : \E k \in 1 .. 6 : p = Placeholders[k]
  /\ "SLUG" \in PlaceholderNames
<1>1. Len(Placeholders) = 6
  BY DEF Placeholders
<1>2. Placeholders[2] = "SLUG"
  BY DEF Placeholders
<1> QED
  BY <1>1, <1>2 DEF PlaceholderNames

\* The script and the workflow are among the artifacts of the cleanup.
LEMMA ArtifactsAre ==
  /\ Len(Artifacts) = 4 /\ "script" \in ArtifactNames
  /\ \A k \in 1 .. 4 : Artifacts[k] \in ArtifactNames
<1>1. Len(Artifacts) = 4 /\ Artifacts[3] = "script"
  BY DEF Artifacts
<1> QED
  BY <1>1 DEF ArtifactNames

\* sed puts the answers where the placeholder stood, in one file, and changes nothing else.
LEMMA PatchedText ==
  ASSUME TypeOK, NEW f \in Files, answers \in Answers,
         text' = [text EXCEPT ![f][Placeholders[pos]] = answers]
  PROVE  /\ text' \in [Files -> Texts]
         /\ \A g \in Files, q \in PlaceholderNames :
              text'[g][q] = IF g = f /\ q = Placeholders[pos] THEN answers ELSE text[g][q]
<1>1. Placeholders[pos] \in PlaceholderNames
  BY PlaceholdersAre DEF TypeOK
<1>2. \A g \in Files : text[g] \in Texts
  BY DEF TypeOK
<1>3. text' = [g \in Files |-> IF g = f THEN [text[f] EXCEPT ![Placeholders[pos]] = answers] ELSE text[g]]
  BY DEF TypeOK
<1>4. [text[f] EXCEPT ![Placeholders[pos]] = answers] \in Texts
  BY <1>1, <1>2 DEF Texts
<1>5. \A q \in PlaceholderNames :
        [text[f] EXCEPT ![Placeholders[pos]] = answers][q] = IF q = Placeholders[pos] THEN answers ELSE text[f][q]
  BY <1>1, <1>2 DEF Texts
<1> QED
  BY <1>2, <1>3, <1>4, <1>5

\* .env has contents as soon as a value stands for the slug.
LEMMA HasContents ==
  ASSUME NEW t \in Texts, t["SLUG"] # None
  PROVE  t # Nothing
  BY PlaceholdersAre DEF Nothing

-----------------------------------------------------------------------------
(* The steps.                                                              *)

\* The empty file is a text, and so is the template's.
LEMMA TemplateTexts ==
  /\ Nothing \in Texts
  /\ \A f \in Files : Template(f) \in Texts
  /\ Template(EnvExample)["SLUG"] = Raw
  /\ Template(EnvFile)["SLUG"] = Raw
  BY PlaceholdersAre DEF Nothing, Template, Texts

\* A fresh copy of the template satisfies the invariant, with a .env or without.
LEMMA InitCoherent == Init => Coherent
<1> SUFFICES ASSUME Init PROVE Coherent
  OBVIOUS
<1>1. \A f \in Files : text[f] = IF f = EnvFile /\ key = None THEN Nothing ELSE Template(f)
  BY DEF Init
<1>2. text \in [Files -> Texts]
  BY TemplateTexts DEF Init
<1>3. (key \in {None, "empty"}) = (text[EnvFile] = Nothing)
  BY <1>1, TemplateTexts, HasContents DEF Init
<1>4. TypeOK
  BY <1>2, <1>3, PlaceholdersAre DEF Init, TypeOK
<1>5. PatchedSoFar /\ PlacesCoherent
  BY DEF Init, PatchedSoFar, PlacesCoherent
<1>6. SentinelCoherent /\ SentinelMeansPatched
  BY ArtifactsAre DEF Init, SentinelCoherent, SentinelMeansPatched
<1>7. ExampleHasContents
  BY <1>1, TemplateTexts DEF ExampleHasContents
<1> QED
  BY <1>4, <1>5, <1>6, <1>7 DEF Coherent

\* PatchFile takes a placeholder out of one file and puts none anywhere.
LEMMA PatchFileStep == Coherent /\ PatchFile => Coherent'
<1> SUFFICES ASSUME Coherent, PatchFile PROVE Coherent'
  OBVIOUS
<1> USE DEF Coherent
<1>1. PICK f \in Files : text[f][Placeholders[pos]] = Raw /\ text' = [text EXCEPT ![f][Placeholders[pos]] = answers]
  BY DEF PatchFile, Found
<1>2. answers \in Answers /\ pc = "patch" /\ pos \in 1 .. 6
  BY PlaceholdersAre DEF PatchFile, PlacesCoherent, TypeOK
<1>3. /\ text' \in [Files -> Texts]
      /\ \A g \in Files, q \in PlaceholderNames :
           text'[g][q] = IF g = f /\ q = Placeholders[pos] THEN answers ELSE text[g][q]
  BY <1>1, <1>2, PatchedText
<1>4. Placeholders[pos] \in PlaceholderNames
  BY <1>2, PlaceholdersAre
<1>5. (key \in {None, "empty"}) = (text'[EnvFile] = Nothing)
  <2>1. CASE f = EnvFile
    <3>1. text[EnvFile] # Nothing
      BY <1>1, <1>4, <2>1 DEF Nothing
    <3>2. text'[EnvFile] # Nothing
      BY <1>2, <1>3, <1>4, <2>1 DEF Nothing
    <3> QED
      BY <3>1, <3>2 DEF TypeOK
  <2>2. CASE f # EnvFile
    <3>1. text'[EnvFile] = text[EnvFile]
      BY <1>1, <2>2 DEF TypeOK
    <3> QED
      BY <3>1 DEF TypeOK
  <2> QED
    BY <2>1, <2>2
<1>6. TypeOK'
  BY <1>3, <1>5 DEF PatchFile, TypeOK
<1>7. PatchedSoFar'
  BY <1>2, <1>3, PlaceholdersAre DEF PatchFile, PatchedSoFar
<1>8. PlacesCoherent' /\ SentinelCoherent' /\ SentinelMeansPatched'
  BY <1>2 DEF PatchFile, PlacesCoherent, SentinelCoherent, SentinelMeansPatched
<1>9. ExampleHasContents'
  BY <1>2, <1>3, PlaceholdersAre DEF ExampleHasContents
<1> QED
  BY <1>6, <1>7, <1>8, <1>9

\* After the last placeholder no file holds one.
LEMMA NextPlaceholderStep == Coherent /\ NextPlaceholder => Coherent'
<1> SUFFICES ASSUME Coherent, NextPlaceholder PROVE Coherent'
  OBVIOUS
<1> USE DEF Coherent
<1>1. pos \in 1 .. 6 /\ pc = "patch" /\ Len(Placeholders) = 6
  BY PlaceholdersAre DEF NextPlaceholder, TypeOK
<1>2. \A f \in Files, k \in 1 .. pos : text[f][Placeholders[k]] # Raw
  BY <1>1 DEF NextPlaceholder, Found, PatchedSoFar
<1>3. UNCHANGED <<text, postman, key, sentinel, artifacts, answers, crashes>>
  BY DEF NextPlaceholder, tree
<1>4. CASE pos < 6 /\ pos' = pos + 1 /\ pc' = pc
  <2>1. TypeOK'
    BY <1>1, <1>3, <1>4 DEF TypeOK
  <2>2. PatchedSoFar'
    <3>1. pos' - 1 = pos
      BY <1>1, <1>4
    <3> QED
      BY <1>2, <1>3, <3>1 DEF PatchedSoFar
  <2> QED
    BY <1>1, <1>3, <1>4, <2>1, <2>2
    DEF PlacesCoherent, SentinelCoherent, SentinelMeansPatched, ExampleHasContents, NoPlaceholderLeft
<1>5. CASE pos = 6 /\ pos' = pos /\ pc' = "rename"
  <2>1. NoPlaceholderLeft
    BY <1>2, <1>5, PlaceholdersAre DEF NoPlaceholderLeft
  <2>2. TypeOK' /\ PatchedSoFar'
    BY <1>3, <1>5 DEF TypeOK, PatchedSoFar
  <2> QED
    BY <1>1, <1>3, <1>5, <2>1, <2>2
    DEF PlacesCoherent, SentinelCoherent, SentinelMeansPatched, ExampleHasContents, NoPlaceholderLeft
<1> QED
  BY <1>1, <1>4, <1>5 DEF NextPlaceholder

\* The copy of .env.example that becomes .env has been patched.
LEMMA CreateEnvStep == Coherent /\ CreateEnv => Coherent'
<1> SUFFICES ASSUME Coherent, CreateEnv PROVE Coherent'
  OBVIOUS
<1> USE DEF Coherent
<1>1. pc = "env" /\ pc' = "key" /\ NoPlaceholderLeft /\ sentinel = None
  BY DEF CreateEnv, PlacesCoherent, SentinelCoherent
<1>2. UNCHANGED <<postman, sentinel, artifacts, answers, pos, crashes>>
  BY DEF CreateEnv
<1>3. /\ text' \in [Files -> Texts] /\ NoPlaceholderLeft' /\ ExampleHasContents'
      /\ key' \in {Raw, "own", "good", "mangled", "empty"} /\ (key' = "empty") = (text'[EnvFile] = Nothing)
  <2>1. CASE key # None /\ UNCHANGED <<text, key>>
    BY <1>1, <2>1 DEF TypeOK, NoPlaceholderLeft, ExampleHasContents
  <2>2. CASE text' = [text EXCEPT ![EnvFile] = text[EnvExample]] /\ key' = Raw
    <3>1. \A f \in Files : text'[f] = IF f = EnvFile THEN text[EnvExample] ELSE text[f]
      BY <2>2 DEF TypeOK
    <3>2. text' \in [Files -> Texts] /\ NoPlaceholderLeft' /\ ExampleHasContents'
      BY <1>1, <2>2, <3>1 DEF TypeOK, NoPlaceholderLeft, ExampleHasContents
    <3>3. text'[EnvFile] # Nothing
      BY <3>1, HasContents DEF TypeOK, ExampleHasContents
    <3> QED
      BY <2>2, <3>2, <3>3
  <2> QED
    BY <2>1, <2>2 DEF CreateEnv, EnvMissing, CopyOfExample
<1>4. TypeOK'
  BY <1>1, <1>2, <1>3 DEF TypeOK
<1> QED
  BY <1>1, <1>2, <1>3, <1>4 DEF PatchedSoFar, PlacesCoherent, SentinelCoherent, SentinelMeansPatched

\* The cleanup removes the template-only workflow and brings no placeholder back.
LEMMA CleanArtifactStep == Coherent /\ CleanArtifact => Coherent'
<1> SUFFICES ASSUME Coherent, CleanArtifact PROVE Coherent'
  OBVIOUS
<1> USE DEF Coherent
<1>1. pc = "clean" /\ pc' = pc /\ sentinel # None /\ NoPlaceholderLeft
  BY DEF CleanArtifact, SentinelCoherent, PlacesCoherent
<1>2. UNCHANGED <<postman, key, sentinel, answers, pc, pos, crashes>> /\ artifacts' \subseteq artifacts
  BY DEF CleanArtifact
<1>3. text' = text \/ text' = [text EXCEPT ![TemplateWorkflow] = Nothing]
  BY DEF CleanArtifact
<1>4. \A f \in Files : text'[f] = text[f] \/ (f = TemplateWorkflow /\ text'[f] = Nothing)
  BY <1>3 DEF TypeOK
<1>5. text' \in [Files -> Texts]
  BY <1>3, TemplateTexts DEF TypeOK
<1>6. NoPlaceholderLeft'
  BY <1>1, <1>4 DEF NoPlaceholderLeft, Nothing
<1>7. text'[EnvExample] = text[EnvExample] /\ text'[EnvFile] = text[EnvFile]
  BY <1>4
<1>8. TypeOK' /\ ExampleHasContents'
  BY <1>2, <1>5, <1>7 DEF TypeOK, ExampleHasContents
<1> QED
  BY <1>1, <1>2, <1>6, <1>8
  DEF PatchedSoFar, PlacesCoherent, SentinelCoherent, SentinelMeansPatched, NoPlaceholderLeft

\* Every other step leaves the files alone.
LEMMA OtherStep ==
  ASSUME Coherent, Run \/ RenamePostman \/ PatchKey \/ Stamp \/ End \/ Crash \/ CopyInterrupted \/ RestoreScript
         \/ UNCHANGED vars
  PROVE  Coherent'
<1> USE DEF Coherent
<1>1. CASE Run
  <2>1. TypeOK'
    BY <1>1, PlaceholdersAre DEF Run, TypeOK, tree
  <2>2. PatchedSoFar'
    <3>1. pos' = 1 /\ 1 .. pos' - 1 = {}
      BY <1>1 DEF Run
    <3> QED
      BY <3>1 DEF PatchedSoFar
  <2> QED
    BY <1>1, <2>1, <2>2
    DEF Run, AlreadyInitialized, tree, PlacesCoherent, SentinelCoherent, SentinelMeansPatched, ExampleHasContents
<1>2. CASE RenamePostman
  <2>1. answers \in Answers /\ pc = "rename"
    BY <1>2 DEF RenamePostman, PlacesCoherent
  <2>2. TypeOK'
    BY <1>2, <2>1 DEF RenamePostman, TypeOK
  <2> QED
    BY <1>2, <2>1, <2>2
    DEF RenamePostman, PatchedSoFar, PlacesCoherent, SentinelCoherent, SentinelMeansPatched, ExampleHasContents, NoPlaceholderLeft
<1>3. CASE PatchKey
  <2>1. /\ key # None /\ key' # None /\ key' # Raw /\ key' \in {"own", "good", "mangled", "empty"}
        /\ key = "empty" <=> key' = "empty"
    BY <1>3 DEF PatchKey, GeneratedKeys, PlacesCoherent, TypeOK
  <2>2. TypeOK'
    BY <1>3, <2>1 DEF PatchKey, AfterKey, TypeOK
  <2> QED
    BY <1>3, <2>1, <2>2
    DEF PatchKey, AfterKey, PatchedSoFar, PlacesCoherent, SentinelCoherent, SentinelMeansPatched, ExampleHasContents, NoPlaceholderLeft
<1>4. CASE Stamp
  <2>1. TypeOK'
    BY <1>4 DEF Stamp, TypeOK, PlacesCoherent
  <2> QED
    BY <1>4, <2>1
    DEF Stamp, PatchedSoFar, PlacesCoherent, SentinelCoherent, SentinelMeansPatched, ExampleHasContents, NoPlaceholderLeft
<1>5. CASE End
  BY <1>5 DEF End, tree, TypeOK, PatchedSoFar, PlacesCoherent, SentinelCoherent, SentinelMeansPatched, ExampleHasContents
<1>6. CASE Crash
  BY <1>6 DEF Crash, tree, TypeOK, PatchedSoFar, PlacesCoherent, SentinelCoherent, SentinelMeansPatched, ExampleHasContents
<1>7. CASE CopyInterrupted
  <2>1. key = None /\ key' = "empty" /\ text[EnvFile] = Nothing
    BY <1>7 DEF CopyInterrupted, EnvMissing, TypeOK
  <2>2. TypeOK'
    BY <1>7, <2>1 DEF CopyInterrupted, TypeOK
  <2> QED
    BY <1>7, <2>2
    DEF CopyInterrupted, PatchedSoFar, PlacesCoherent, SentinelCoherent, SentinelMeansPatched, ExampleHasContents
<1>8. CASE RestoreScript
  BY <1>8, ArtifactsAre
  DEF RestoreScript, TypeOK, PatchedSoFar, PlacesCoherent, SentinelCoherent, SentinelMeansPatched, ExampleHasContents
<1>9. CASE UNCHANGED vars
  BY <1>9 DEF vars, TypeOK, PatchedSoFar, PlacesCoherent, SentinelCoherent, SentinelMeansPatched, ExampleHasContents, NoPlaceholderLeft
<1> QED
  BY <1>1, <1>2, <1>3, <1>4, <1>5, <1>6, <1>7, <1>8, <1>9

-----------------------------------------------------------------------------
(* Whose answers are applied.                                              *)

\* What was applied is what stands in files, file names and the sentinel.
LEMMA AppliedValues ==
  /\ \A f \in Files, p \in PlaceholderNames : text[f][p] \in Applied \cup {None, Raw}
  /\ postman \in Applied \cup {None, Raw} /\ sentinel \in Applied \cup {None, Raw}
  BY DEF Applied

\* Nothing is applied but what stands there.
LEMMA AppliedWithin ==
  ASSUME NEW S,
         \A f \in Files, p \in PlaceholderNames : text'[f][p] \in S \cup {None, Raw},
         postman' \in S \cup {None, Raw}, sentinel' \in S \cup {None, Raw}
  PROVE  Applied' \subseteq S
  BY DEF Applied

\* A step of a run applies the answers of that run, and no other step applies any.
LEMMA AppliedStep ==
  ASSUME Coherent, [Next]_vars
  PROVE  Applied' \subseteq IF pc \in {"patch", "rename", "stamp"} THEN Applied \cup {answers} ELSE Applied
<1> USE DEF Coherent
<1> DEFINE S == IF pc \in {"patch", "rename", "stamp"} THEN Applied \cup {answers} ELSE Applied
<1>1. Applied \subseteq S /\ (pc \in {"patch", "rename", "stamp"} => answers \in S)
  OBVIOUS
<1> SUFFICES Applied' \subseteq S
  OBVIOUS
<1> HIDE DEF S
<1>2. /\ \A f \in Files, p \in PlaceholderNames : text[f][p] \in S \cup {None, Raw}
      /\ postman \in S \cup {None, Raw} /\ sentinel \in S \cup {None, Raw}
  BY <1>1, AppliedValues
<1>3. CASE PatchFile
  <2>1. PICK f \in Files : text' = [text EXCEPT ![f][Placeholders[pos]] = answers]
    BY <1>3 DEF PatchFile, Found
  <2>2. answers \in Answers /\ answers \in S
    BY <1>1, <1>3 DEF PatchFile, PlacesCoherent
  <2>3. \A g \in Files, q \in PlaceholderNames :
          text'[g][q] = IF g = f /\ q = Placeholders[pos] THEN answers ELSE text[g][q]
    BY <2>1, <2>2, PatchedText
  <2>4. \A g \in Files, q \in PlaceholderNames : text'[g][q] \in S \cup {None, Raw}
    BY <1>2, <2>2, <2>3
  <2>5. postman' \in S \cup {None, Raw} /\ sentinel' \in S \cup {None, Raw}
    BY <1>2, <1>3 DEF PatchFile
  <2> QED
    BY <2>4, <2>5, AppliedWithin
<1>4. CASE CreateEnv
  <2>1. text' = text \/ text' = [text EXCEPT ![EnvFile] = text[EnvExample]]
    BY <1>4 DEF CreateEnv, CopyOfExample
  <2>2. \A g \in Files : text'[g] = text[g] \/ text'[g] = text[EnvExample]
    BY <2>1 DEF TypeOK
  <2>3. UNCHANGED <<postman, sentinel>>
    BY <1>4 DEF CreateEnv
  <2> QED
    BY <1>2, <2>2, <2>3, AppliedWithin
<1>5. CASE CleanArtifact
  <2>1. text' = text \/ text' = [text EXCEPT ![TemplateWorkflow] = Nothing]
    BY <1>5 DEF CleanArtifact
  <2>2. \A g \in Files, q \in PlaceholderNames : text'[g][q] = text[g][q] \/ text'[g][q] = None
    BY <2>1 DEF TypeOK, Nothing
  <2>3. \A g \in Files, q \in PlaceholderNames : text'[g][q] \in S \cup {None, Raw}
    BY <1>2, <2>2
  <2>4. postman' \in S \cup {None, Raw} /\ sentinel' \in S \cup {None, Raw}
    BY <1>2, <1>5 DEF CleanArtifact
  <2> QED
    BY <2>3, <2>4, AppliedWithin
<1>6. CASE RenamePostman \/ Stamp
  <2>1. UNCHANGED text /\ postman' \in {postman, answers} /\ sentinel' \in {sentinel, answers} /\ answers \in S
    BY <1>1, <1>6 DEF RenamePostman, Stamp
  <2> QED
    BY <1>2, <2>1, AppliedWithin
<1>7. CASE UNCHANGED <<text, postman, sentinel>>
  BY <1>2, <1>7, AppliedWithin
<1>8. Run \/ NextPlaceholder \/ PatchKey \/ End \/ Crash \/ CopyInterrupted \/ RestoreScript \/ UNCHANGED vars
        => UNCHANGED <<text, postman, sentinel>>
  BY DEF Run, NextPlaceholder, PatchKey, End, Crash, CopyInterrupted, RestoreScript, tree, vars
<1> QED
  BY <1>3, <1>4, <1>5, <1>6, <1>7, <1>8 DEF Next, Advance

\* Once a run has begun, an interruption allows for one more set of answers and claims none.
LEMMA ClaimedStep ==
  ASSUME Coherent, [Next]_vars, ~Run
  PROVE  Claimed' \subseteq Claimed /\ Allowance \in Nat /\ Allowance' \in Nat /\ Allowance <= Allowance'
<1> USE DEF Coherent
<1>1. Claimed' \subseteq Claimed
  <2>1. Applied' \subseteq Claimed
    BY AppliedStep DEF Claimed
  <2>2. pc' \in {"patch", "rename", "env", "key", "stamp"}
          => answers' = answers /\ pc \in {"patch", "rename", "env", "key", "stamp"}
    BY DEF Next, Advance, PatchFile, NextPlaceholder, RenamePostman, CreateEnv, PatchKey, AfterKey, Stamp,
           CleanArtifact, End, Crash, CopyInterrupted, RestoreScript, tree, vars
  <2> QED
    BY <2>1, <2>2 DEF Claimed
<1>2. crashes \in Nat /\ (UNCHANGED crashes \/ crashes' = crashes + 1)
  BY DEF Next, Advance, PatchFile, NextPlaceholder, RenamePostman, CreateEnv, PatchKey, Stamp,
         CleanArtifact, End, Crash, CopyInterrupted, RestoreScript, tree, vars, TypeOK
<1>3. (pc = "off" /\ sentinel = None) \/ crashes' = crashes + 1 \/ ~(pc' = "off" /\ sentinel' = None)
  BY DEF Next, Advance, PatchFile, NextPlaceholder, RenamePostman, CreateEnv, PatchKey, AfterKey, Stamp,
         CleanArtifact, End, Crash, CopyInterrupted, RestoreScript, tree, vars
<1> QED
  BY <1>1, <1>2, <1>3 DEF Allowance

\* A run claims its answers and uses up what the interruption before it allowed for; with
\* the sentinel in place it claims none.
LEMMA RunClaims ==
  ASSUME Coherent, WithinAllowance, Run
  PROVE  WithinAllowance'
<1> USE DEF Coherent
<1>1. /\ Applied' = Applied /\ crashes' = crashes /\ sentinel' = sentinel /\ crashes \in Nat
      /\ pc \in {"off", "done"} /\ Claimed = Applied
  BY DEF Run, Startable, tree, TypeOK, Claimed, Applied
<1>2. IsFiniteSet(Applied) /\ Cardinality(Applied) \in Nat /\ Cardinality(Applied) <= Allowance
  BY <1>1, FS_CardinalityType DEF WithinAllowance
<1>3. CASE sentinel = None
  <2>1. pc = "off" /\ pc' = "patch"
    BY <1>1, <1>3 DEF Run, AlreadyInitialized, SentinelCoherent
  <2>2. Claimed' = Applied \cup {answers'} /\ Allowance = crashes /\ Allowance' = 1 + crashes
    BY <1>1, <1>3, <2>1 DEF Claimed, Allowance
  <2>3. IsFiniteSet(Claimed') /\ Cardinality(Claimed') <= Cardinality(Applied) + 1
    <3> DEFINE a == answers'
    <3>1. IsFiniteSet(Applied \cup {a}) /\ Cardinality(Applied \cup {a}) \in {Cardinality(Applied), Cardinality(Applied) + 1}
      BY <1>2, FS_AddElement
    <3> QED
      BY <1>2, <2>2, <3>1
  <2>4. Cardinality(Claimed') \in Nat
    BY <2>3, FS_CardinalityType
  <2> QED
    BY <1>1, <1>2, <2>2, <2>3, <2>4 DEF WithinAllowance
<1>4. CASE sentinel # None
  <2>1. pc' = "done"
    BY <1>4 DEF Run, AlreadyInitialized
  <2>2. Claimed' = Applied /\ Allowance' = 1 + crashes /\ Allowance = 1 + crashes
    BY <1>1, <1>4, <2>1 DEF Claimed, Allowance
  <2> QED
    BY <1>2, <2>2 DEF WithinAllowance
<1> QED
  BY <1>3, <1>4

\* No step lets a run apply more than it may.
LEMMA AllowanceStep == Coherent /\ WithinAllowance /\ [Next]_vars => WithinAllowance'
<1> SUFFICES ASSUME Coherent, WithinAllowance, [Next]_vars PROVE WithinAllowance'
  OBVIOUS
<1>1. CASE ~Run
  <2>1. Claimed' \subseteq Claimed /\ Allowance \in Nat /\ Allowance' \in Nat /\ Allowance <= Allowance'
    BY <1>1, ClaimedStep
  <2>2. IsFiniteSet(Claimed') /\ Cardinality(Claimed') <= Cardinality(Claimed)
    BY <2>1, FS_Subset DEF WithinAllowance
  <2>3. Cardinality(Claimed') \in Nat /\ Cardinality(Claimed) \in Nat
    BY <2>2, FS_CardinalityType DEF WithinAllowance
  <2> QED
    BY <2>1, <2>2, <2>3 DEF WithinAllowance
<1> QED
  BY <1>1, RunClaims

\* In a fresh copy of the template nobody's answers are applied.
LEMMA InitAllowance == Init => WithinAllowance
<1> SUFFICES ASSUME Init PROVE WithinAllowance
  OBVIOUS
<1>1. \A f \in Files, p \in PlaceholderNames : text[f][p] \in {None, Raw}
  BY DEF Init, Nothing, Template
<1>2. Claimed = {}
  BY <1>1 DEF Init, Claimed, Applied
<1> QED
  BY <1>2, FS_EmptySet DEF Init, WithinAllowance, Allowance

-----------------------------------------------------------------------------
(* The theorems.                                                           *)

\* The inductive invariant holds in every state, for every number of interruptions.
THEOREM Invariance == Spec => []IInv
<1>1. Coherent /\ [Next]_vars => Coherent'
  BY PatchFileStep, NextPlaceholderStep, CreateEnvStep, CleanArtifactStep, OtherStep DEF Next, Advance
<1>2. IInv /\ [Next]_vars => IInv'
  BY <1>1, AllowanceStep DEF IInv
<1>3. Init => IInv
  BY InitCoherent, InitAllowance DEF IInv
<1> QED
  BY <1>2, <1>3, PTL DEF Spec

\* Every variable of Bootstrap keeps its type; .env has contents exactly when it has a key.
THEOREM TypeCorrect == Spec => []TypeOK
<1>1. IInv => TypeOK
  BY DEF IInv, Coherent
<1> QED
  BY Invariance, <1>1, PTL

\* bootstrap.sh:217: what carries the sentinel has no placeholder left, whatever files the
\* template has, whatever placeholders they hold and wherever earlier runs were interrupted.
THEOREM InitializedMeansPatched == Spec => []SentinelMeansPatched
<1>1. IInv => SentinelMeansPatched
  BY DEF IInv, Coherent
<1> QED
  BY Invariance, <1>1, PTL

\* Until it has stamped the sentinel the script does not remove itself.
THEOREM InterruptedRunsCanBeRepeated == Spec => []ResumableUntilStamped
<1>1. IInv => ResumableUntilStamped
  BY DEF IInv, Coherent, SentinelCoherent, ResumableUntilStamped
<1> QED
  BY Invariance, <1>1, PTL

\* No step of a later run replaces a key that is not a placeholder, the user's or a
\* generated one.
THEOREM KeysStay == Spec => KeysAreKept
<1>1. IInv /\ [Next]_vars => [(key \in {"own", "good"}) => key' = key]_vars
  <2> SUFFICES ASSUME IInv, [Next]_vars, key \in {"own", "good"} PROVE key' = key
    OBVIOUS
  <2>1. CASE CreateEnv
    BY <2>1 DEF CreateEnv, EnvMissing
  <2>2. CASE PatchKey
    BY <2>2 DEF PatchKey
  <2> QED
    BY <2>1, <2>2 DEF Next, Advance, Run, PatchFile, NextPlaceholder, RenamePostman, Stamp, CleanArtifact, End,
                      Crash, CopyInterrupted, EnvMissing, RestoreScript, tree, vars
<1> QED
  BY Invariance, <1>1, PTL DEF Spec, KeysAreKept

\* bootstrap.sh:9-12: n interruptions mix at most n further sets of answers into the
\* repository, and a run that has completed is never mixed with a later one.
THEOREM CompletedRunsAreFinal == Spec => []MixesNeedInterruptions
<1>1. IInv => MixesNeedInterruptions
  <2> SUFFICES ASSUME IInv PROVE Cardinality(Applied) <= 1 + crashes
    BY DEF MixesNeedInterruptions
  <2>1. Applied \subseteq Claimed /\ IsFiniteSet(Claimed) /\ Cardinality(Claimed) <= Allowance /\ crashes \in Nat
    BY DEF IInv, WithinAllowance, Claimed, Coherent, TypeOK
  <2>2. IsFiniteSet(Applied) /\ Cardinality(Applied) <= Cardinality(Claimed)
    BY <2>1, FS_Subset
  <2>3. Cardinality(Applied) \in Nat /\ Cardinality(Claimed) \in Nat /\ Allowance <= 1 + crashes /\ Allowance \in Nat
    BY <2>1, <2>2, FS_CardinalityType DEF Allowance
  <2> QED
    BY <2>1, <2>2, <2>3
<1> QED
  BY Invariance, <1>1, PTL
=============================================================================
