---------------------------- MODULE EditorLinks ----------------------------
(***************************************************************************)
(* Open in Editor (web/src/editor.ts): from a stack trace to the URL that  *)
(* opens a local file.  Paths and project names are what split("/") makes  *)
(* of them once backslashes are slashes: "/a" is <<"", "a">>.  Templates   *)
(* and URLs are sequences of pieces, texts and placeholders; whether text  *)
(* reads as a placeholder is all that encoding it changes here.  Blanks    *)
(* and NUL, and templates in which a placeholder stands within a further   *)
(* pair of braces, are left out.                                           *)
(***************************************************************************)
EXTENDS Integers, Sequences, FiniteSetsExt, SequencesExt, TLC

Text(s) == [hole |-> FALSE, text |-> s]
Hole(s) == [hole |-> TRUE, text |-> s]

NoPath == <<>>
NoLink == [protocol |-> "", body |-> <<>>]
NoSource == [path |-> NoPath, line |-> 0, column |-> 0]

\* The placeholders, in the order in which they are replaced.
Placeholders == <<"{path}", "{pathEncoded}", "{pathNoLeadingSlash}", "{project}",
                  "{projectEncoded}", "{line}", "{column}">>

PathPlaceholders == {"{path}", "{pathEncoded}", "{pathNoLeadingSlash}"}
ProjectPlaceholders == {"{project}", "{projectEncoded}"}

Bigger(a, b) == IF a > b THEN a ELSE b

\* Python frames have no column; lines and columns count from one.
Location(frame) ==
  [path |-> frame.path,
   line |-> Bigger(1, frame.line),
   column |-> IF frame.form = "python" THEN 1 ELSE Bigger(1, frame.column)]

\* The first line of the trace that one of the three expressions matches.
SourceLocationFromStacktrace(trace) ==
  LET frames == {i \in 1 .. Len(trace) : trace[i].form \in {"python", "parenthesized", "bare"}}
  IN IF frames = {} THEN NoSource ELSE Location(trace[Min(frames)])

\* A drive letter stands for all of them.
Drive == "C:"

IsAbsolutePath(path) == Len(path) > 1 /\ path[1] \in {"", Drive}

\* One slash at the end is dropped.
WithoutSlash(path) ==
  IF Len(path) > 1 /\ Last(path) = "" THEN Front(path) ELSE path

\* The segments but those that are empty or ".", one after the other.
Clean(path) ==
  LET clean[i \in 0 .. Len(path)] ==
        IF i = 0 THEN <<>>
        ELSE IF path[i] \in {"", "."} THEN clean[i - 1] ELSE Append(clean[i - 1], path[i])
  IN clean[Len(path)]

\* A relative path is taken to be below the root of the project's sources.
ResolveSourcePath(path, sourceRoot) ==
  LET root == WithoutSlash(sourceRoot)
      below == Clean(path)
  IN IF path \in {NoPath, <<"">>} \/ \E i \in 1 .. Len(path) : path[i] = ".." THEN NoPath
     ELSE IF IsAbsolutePath(path) THEN path
     ELSE IF ~IsAbsolutePath(root) THEN NoPath
     ELSE root \o IF below = <<>> THEN <<"">> ELSE below

FolderName(path) ==
  LET names == SelectSeq(path, LAMBDA segment : segment # "")
  IN IF names = <<>> THEN "" ELSE Last(names)

AtLine(hole) == <<Hole(hole), Text(":"), Hole("{line}"), Text(":"), Hole("{column}")>>

\* The templates of the presets that take a path alone.
PresetTemplates ==
  [preset \in {"vscode", "vscode-insiders", "cursor", "zed"} |->
     [protocol |-> preset,
      body |-> AtLine(IF preset = "zed" THEN "{pathNoLeadingSlash}" ELSE "{path}")]]

EditorTemplate(settings) ==
  CASE settings.preset = "custom" -> settings.customTemplate
    [] settings.preset = "jetbrains" ->
         [protocol |-> "jetbrains",
          body |-> <<Hole("{projectEncoded}"), Text("&path=")>> \o AtLine("{pathEncoded}")]
    [] OTHER -> PresetTemplates[settings.preset]

\* The template holds one of these placeholders.
Mentions(template, names) ==
  \E i \in 1 .. Len(template.body) : template.body[i].hole /\ template.body[i].text \in names

\* validateEditorTemplate finds nothing to say.
ValidTemplate(template) ==
  /\ template.protocol \notin {"", "javascript", "data", "file", "http", "https"}
  /\ Mentions(template, PathPlaceholders)

\* Mutant: a name that reads like a placeholder is put in as it is.
Encode_Raw(s) ==
  IF \E i \in 1 .. Len(Placeholders) : s = Placeholders[i] THEN Hole(s) ELSE Text(s)

\* encodeURIComponent: what it returns has no braces.
Encode(s) == Text(s)

\* The segments, encoded, with what a slash becomes between them.
Encoded(path, slash) ==
  [i \in 1 .. 2 * Len(path) - 1 |->
     IF i % 2 = 1 THEN Encode(path[(i + 1) \div 2]) ELSE Text(slash)]

\* What stands for each placeholder.
Value(path, source, project) ==
  LET pathForURL == Encoded(path, "/")
  IN [hole \in ToSet(Placeholders) |->
        CASE hole = "{path}" -> pathForURL
          [] hole = "{pathEncoded}" -> Encoded(path, "%2F")
          [] hole = "{pathNoLeadingSlash}" ->
               IF path[1] = "" THEN SubSeq(pathForURL, 3, Len(pathForURL)) ELSE pathForURL
          [] hole = "{project}" -> Encoded(project, "/")
          [] hole = "{projectEncoded}" -> Encoded(project, "%2F")
          [] hole = "{line}" -> <<Text(ToString(source.line))>>
          [] hole = "{column}" -> <<Text(ToString(source.column))>>]

Replace(pieces, hole, value) ==
  FlattenSeq([i \in 1 .. Len(pieces) |->
                IF pieces[i] = Hole(hole) THEN value ELSE <<pieces[i]>>])

\* One placeholder after the other is replaced, in what the one before has left.
Replaced(pieces, value) ==
  LET url[k \in 0 .. Len(Placeholders)] ==
        IF k = 0 THEN pieces
        ELSE Replace(url[k - 1], Placeholders[k], value[Placeholders[k]])
  IN url[Len(Placeholders)]

BuildEditorURL(settings, path, source, project) ==
  LET template == EditorTemplate(settings)
      value == Value(path, source, project)
  IN IF \/ ~ValidTemplate(template)
        \/ Mentions(template, ProjectPlaceholders) /\ project = <<"">>
     THEN NoLink
     ELSE [protocol |-> template.protocol,
           body |-> Replaced(template.body, value)]

\* Every placeholder of a template replaced at once: what a URL should be.
Substituted(template, value) ==
  FlattenSeq([i \in 1 .. Len(template.body) |->
                LET piece == template.body[i]
                IN IF piece.hole /\ piece.text \in DOMAIN value THEN value[piece.text]
                   ELSE <<piece>>])
=============================================================================
