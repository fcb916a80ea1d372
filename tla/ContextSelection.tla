-------------------------- MODULE ContextSelection --------------------------
(***************************************************************************)
(* What collect_context makes of a repository: the files a model is shown, *)
(* and the commands its work is verified with.                             *)
(*                                                                         *)
(* _select_context_files: which files of a repository a model is shown.    *)
(* A file is its size, whether it can be read as text, and the score its   *)
(* name and content earn against the task, and how much of it the lines    *)
(* around the task's terms make up; files are numbered by path.            *)
(***************************************************************************)
EXTENDS Integers, SequencesExt

CONSTANTS MaxContextFiles, MaxFileBytes, MaxContextBytes,
          MaxReadable,     \* a larger file is not opened
          ScanBudget       \* bytes read in one selection

FileRecords(sizes, scores) ==
  {f \in [size : sizes, score : scores, around : sizes \ {0}, text : BOOLEAN] :
     f.size > 0 => f.around <= f.size}

\* The files read, scored and kept, in the order of their paths.
Scan(files) ==
  LET Look(s, i) ==
        LET f == files[i]
            skip == f.size > MaxReadable \/ (s.scanned + f.size > ScanBudget /\ s.kept # <<>>)
            keep == f.text /\ (f.score > 0 \/ Len(s.kept) < MaxContextFiles)
        IN  IF skip THEN s
            ELSE [scanned |-> s.scanned + f.size,
                  kept |-> IF keep THEN Append(s.kept, i) ELSE s.kept]
  IN  FoldLeft(Look, [scanned |-> 0, kept |-> <<>>], [i \in DOMAIN files |-> i]).kept

\* Highest score first, then by path.
Ranked(files, kept) ==
  SetToSortSeq(ToSet(kept), LAMBDA i, j :
    files[i].score > files[j].score \/ (files[i].score = files[j].score /\ i < j))

\* The length of what is shown of a file.  An excerpt begins with a line break that is
\* stripped after it was cut, so a budget of one byte shows nothing.
Excerpt(f, budget) ==
  IF f.size <= budget THEN f.size
  ELSE IF budget <= 1 THEN 0
  ELSE IF f.around < budget THEN f.around ELSE budget

SelectContext(files) ==
  LET Take(s, i) ==
        LET budget == IF MaxFileBytes < s.left THEN MaxFileBytes ELSE s.left
            length == Excerpt(files[i], budget)
        IN  IF Len(s.chosen) >= MaxContextFiles \/ s.left <= 0 \/ length = 0 THEN s
            ELSE [left |-> s.left - length,
                  chosen |-> Append(s.chosen, [file |-> i, bytes |-> length])]
  IN  FoldLeft(Take, [left |-> MaxContextBytes, chosen |-> <<>>],
               Ranked(files, Scan(files))).chosen

-----------------------------------------------------------------------------
(* verification_commands.  A tool is its command and the sets of files     *)
(* that call for it; what runs a package's test script is not told apart.  *)

PythonTools ==
  <<[run |-> "uv", for |-> {{"uv.lock", "tests"}, {"uv.lock", "pyproject"}}],
    [run |-> "poetry", for |-> {{"poetry.lock"}}], [run |-> "tox", for |-> {{"tox.ini"}}],
    [run |-> "pytest", for |-> {{"pyproject", "tests"}, {"pytest.ini"}, {"conftest"}}]>>

OtherTools ==
  <<[run |-> "package test", for |-> {{"package with a test script"}}],
    [run |-> "cargo", for |-> {{"Cargo.toml"}}], [run |-> "go", for |-> {{"go.mod"}}],
    [run |-> "swift", for |-> {{"Package.swift"}}], [run |-> "ctest", for |-> {{"CMake", "build"}}]>>

Applicable(tools, present) ==
  LET Fits(tool) == \E files \in tool.for : files \subseteq present
      fitting == SelectSeq(tools, Fits)
  IN  [i \in DOMAIN fitting |-> fitting[i].run]

\* One Python tool at most, and every other that fits.
DetectTestCommands(present) ==
  LET python == Applicable(PythonTools, present)
  IN  (IF python = <<>> THEN <<>> ELSE <<Head(python)>>) \o Applicable(OtherTools, present)

DiffCheck == "git diff --check"

\* The configuration's commands replace what is detected; each is run once.
VerificationCommands(configured, present) ==
  LET selected == IF configured # <<>> THEN configured ELSE DetectTestCommands(present)
      Once(seen, command) == IF Contains(seen, command) THEN seen ELSE Append(seen, command)
  IN  FoldLeft(Once, <<DiffCheck>>, selected)

-----------------------------------------------------------------------------
(* What a selection must satisfy.                                          *)

BytesOf(chosen) == FoldLeft(LAMBDA n, c : n + c.bytes, 0, chosen)

\* The three limits hold together.
ContextFits(files) ==
  LET chosen == SelectContext(files)
  IN  /\ Len(chosen) <= MaxContextFiles
      /\ BytesOf(chosen) <= MaxContextBytes
      /\ \A i \in DOMAIN chosen : chosen[i].bytes <= MaxFileBytes

\* A file that was read is left out for better ones only, when the limits are used up but for
\* a last byte, into which only a file of one byte fits.
BestFilesChosen(files) ==
  LET chosen == SelectContext(files)
      picked == {chosen[i].file : i \in DOMAIN chosen}
  IN  \A i \in ToSet(Scan(files)) \ picked :
        \/ files[i].size = 0
        \/ /\ Len(chosen) = MaxContextFiles \/ BytesOf(chosen) >= MaxContextBytes - 1
           /\ \A j \in picked : files[j].score >= files[i].score \/ files[j].size = 1

\* The diff is checked first, no command is run twice, and none that was configured is left out.
CommandsInOrder(configured, present) ==
  LET commands == VerificationCommands(configured, present)
  IN  /\ commands[1] = DiffCheck /\ IsInjective(commands)
      /\ ToSet(configured) \subseteq ToSet(commands)
      /\ configured = <<>> => Len(commands) <= 2 + Len(OtherTools)
=============================================================================
