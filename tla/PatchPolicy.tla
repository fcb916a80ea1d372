----------------------------- MODULE PatchPolicy -----------------------------
(***************************************************************************)
(* validate_patch: one pass over the lines of a unified diff that collects *)
(* the paths it declares.  A line is a record: "git" is `diff --git a/old  *)
(* b/new`, "from" and "to" are its --- and +++ headers, "hunk" starts with *)
(* @@, "banned" stands for binary, symlink, submodule, rename and copy     *)
(* markers, and anything else is "text".                                   *)
(***************************************************************************)
EXTENDS Integers, FiniteSets, SequencesExt

CONSTANTS Paths,
          Refused,     \* paths _validate_patch_path refuses
          DevNull, Unset,
          MaxFiles

ASSUME PathAssumption ==
  /\ Refused \subseteq Paths /\ DevNull \notin Paths /\ Unset \notin Paths \cup {DevNull}
  /\ MaxFiles \in Nat \ {0}

Lines ==
  [kind : {"git"}, old : Paths, new : Paths]
  \cup [kind : {"from", "to"}, path : Paths \cup {DevNull}]
  \cup [kind : {"hunk", "text", "banned"}]

\* A relative path inside the root, of no control or sensitive name, through no symlink.
PathAccepted(path) == path \in Paths \ Refused

\* The variables of the loop; name is Unset before the first section.
Scanner == [ok |-> TRUE, paths |-> {}, name |-> Unset, from |-> Unset, to |-> Unset,
            hunks |-> FALSE]

\* finish_section
SectionFinished(s) ==
  \/ s.name = Unset
  \/ s.from = Unset /\ s.to = Unset
  \/ /\ s.from \in {s.name, DevNull} /\ s.to \in {s.name, DevNull}
     /\ ~ (s.from = DevNull /\ s.to = DevNull)

NewSection(s, line) ==
  [s EXCEPT !.ok = @ /\ SectionFinished(s) /\ line.old = line.new /\ PathAccepted(line.old),
            !.paths = @ \cup {line.old}, !.name = line.old,
            !.from = Unset, !.to = Unset, !.hunks = FALSE]

\* Headers are read in a section in front of its first hunk only.
Ignored(s, line) == s.name = Unset \/ s.hunks \/ line.kind = "text"

Header(line) == line.path = DevNull \/ PathAccepted(line.path)

ScanLine(s, line) ==
  CASE line.kind = "git" -> NewSection(s, line)
    [] line.kind = "banned" -> [s EXCEPT !.ok = FALSE]
    [] line.kind \notin {"git", "banned"} /\ Ignored(s, line) -> s
    [] line.kind = "hunk" /\ ~Ignored(s, line) -> [s EXCEPT !.hunks = TRUE]
    [] line.kind = "from" /\ ~Ignored(s, line) ->
         [s EXCEPT !.ok = @ /\ s.from = Unset /\ Header(line), !.from = line.path]
    [] line.kind = "to" /\ ~Ignored(s, line) ->
         [s EXCEPT !.ok = @ /\ s.to = Unset /\ Header(line), !.to = line.path]

ValidatePatch(patch) ==
  LET s == FoldLeft(ScanLine, Scanner, patch)
  IN  [ok |-> /\ s.ok /\ SectionFinished(s)
              /\ s.paths # {} /\ Cardinality(s.paths) <= MaxFiles,
       paths |-> s.paths]

-----------------------------------------------------------------------------
(* The same, said of the whole patch: the reference the pass is compared   *)
(* with over bounded patches.                                              *)

\* The section line i belongs to, 0 in front of the first one.
SectionOf(patch, i) ==
  LET heads == {j \in 1..i : patch[j].kind = "git"}
  IN  IF heads = {} THEN 0 ELSE CHOOSE j \in heads : \A k \in heads : k <= j

HeadersOf(patch, head, kind) ==
  {i \in head + 1..Len(patch) :
     /\ patch[i].kind = kind /\ SectionOf(patch, i) = head
     /\ \A j \in head..i : patch[j].kind # "hunk"}

DeclaredPaths(patch) == {patch[i].old : i \in {j \in DOMAIN patch : patch[j].kind = "git"}}

SectionSound(patch, head) ==
  LET froms == HeadersOf(patch, head, "from")
      tos == HeadersOf(patch, head, "to")
      allowed == {patch[head].old, DevNull}
  IN  /\ patch[head].old = patch[head].new /\ patch[head].old \notin Refused
      /\ Cardinality(froms) = Cardinality(tos) /\ Cardinality(froms) <= 1
      /\ \A i \in froms \cup tos : patch[i].path \in allowed
      /\ \A i \in froms, j \in tos : ~ (patch[i].path = DevNull /\ patch[j].path = DevNull)

PatchSound(patch) ==
  /\ \A i \in DOMAIN patch : patch[i].kind # "banned"
  /\ \A i \in DOMAIN patch : patch[i].kind = "git" => SectionSound(patch, i)
  /\ DeclaredPaths(patch) # {} /\ Cardinality(DeclaredPaths(patch)) <= MaxFiles
=============================================================================
