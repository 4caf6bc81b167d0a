-------------------------- MODULE MCEditorActions --------------------------
(* A small instance of EditorActions for TLC. *)
EXTENDS EditorActions

CONSTANTS p1, p2

TwoProjects == {p1, p2}
ThreeIssues == 1 .. 3

Frame(form, path, line) == [form |-> form, path |-> path, line |-> line, column |-> 2]

\* A file of p1 in a folder with the name of a placeholder; one of p2, in the second line
\* of its trace; and one that is given with its absolute path.
Traces ==
  << <<Frame("python", <<"{line}", "a.py">>, 0)>>,
     <<Frame("none", <<"x">>, 1), Frame("bare", <<".", "b.go">>, 3)>>,
     <<Frame("parenthesized", <<"", "srv", "c.ts">>, 4)>> >>

InProject == <<p1, p2, p2>>

Presets == {"jetbrains", "custom"}

\* Typed templates; the one a draft begins with is refused.
Templates ==
  {[protocol |-> "my-editor", body |-> <<Hole("{project}"), Hole("{path}"), Hole("{line}")>>]}

\* An absolute root that ends with a slash, and a drive, which becomes relative.
Roots == {<<"", "home", "">>, <<"C:", "">>}

Names == {<<"{line}">>}
=============================================================================
