--------------------------- MODULE EditorActions ---------------------------
(***************************************************************************)
(* The editor settings of an issue's panel (EditorActions in web/src/      *)
(* components/IssuePanel.tsx): localStorage, which all tabs of the browser *)
(* share, what one panel has read of it, and the dialog that changes both. *)
(* The panel is mounted for an issue and reads storage then.  It goes away *)
(* whenever the detail is loaded again, another issue or project is        *)
(* selected, or the user signs out.                                        *)
(***************************************************************************)
EXTENDS EditorLinks

CONSTANTS
  Project, Issue,
  ProjectOf,  \* the project of each issue
  TraceOf,    \* the stack trace of each issue, a sequence of frames
  Preset,     \* presets that are chosen
  Template,   \* custom templates that are typed
  Root,       \* source roots that are typed
  Name,       \* JetBrains project names that are typed
  MaxSaves,   \* bound: how often settings are saved, in all tabs
  None        \* no panel, no settings

ASSUME ProjectOfIssue == ProjectOf \in [Issue -> Project]
ASSUME TraceAssumption ==
  TraceOf \in [Issue -> Seq([form : STRING, path : Seq(STRING), line : Int, column : Int])]
ASSUME PresetAssumption ==
  Preset \subseteq {"vscode", "vscode-insiders", "cursor", "zed", "jetbrains", "custom"}
ASSUME TemplateAssumption ==
  Template \subseteq [protocol : STRING, body : Seq([hole : BOOLEAN, text : STRING])]
ASSUME RootAssumption == Root \subseteq Seq(STRING)
ASSUME NameAssumption == Name \subseteq Seq(STRING)
ASSUME SavesAssumption == MaxSaves \in Nat

VARIABLES
  kept,   \* the settings in localStorage
  roots,  \* roots[p]: the source root of p in localStorage, <<"">> if none
  names,  \* names[p]: the JetBrains project of p in localStorage, <<"">> if none
  panel,  \* the panel, if one is mounted
  given,  \* given[p]: the roots that were ever saved for p (history)
  saves   \* how often settings were saved

storage == <<kept, roots, names, given, saves>>
editorVars == <<storage, panel>>

InitialEditorSettings ==
  [preset |-> "vscode", customTemplate |-> [protocol |-> "", body |-> <<>>]]

SettingsOr(settings, other) == IF settings = None THEN other ELSE settings

EditorInit ==
  /\ kept = None
  /\ roots = [p \in Project |-> <<"">>]
  /\ names = [p \in Project |-> <<"">>]
  /\ panel = None
  /\ given = [p \in Project |-> {}]
  /\ saves = 0

Source(i) == SourceLocationFromStacktrace(TraceOf[i])

\* The panel of issue i reads storage.
Show(i) ==
  LET p == ProjectOf[i]
  IN /\ panel = None
     /\ panel' = [issue |-> i, settings |-> kept, root |-> roots[p], name |-> names[p],
                  configuring |-> FALSE, problem |-> "none",
                  draft |-> [settings |-> SettingsOr(kept, InitialEditorSettings),
                             root |-> roots[p], name |-> names[p]]]
     /\ UNCHANGED storage

\* Drafts that were not saved are gone.
Hide ==
  /\ panel # None
  /\ panel' = None
  /\ UNCHANGED storage

\* A panel whose trace has a location, with its dialog shown or not.
Configuring == panel # None /\ panel.configuring
Usable == panel # None /\ Source(panel.issue) # NoSource

BeginConfiguration ==
  /\ Usable /\ ~Configuring
  /\ panel' = [panel EXCEPT
       !.configuring = TRUE, !.problem = "none",
       !.draft = [settings |-> SettingsOr(panel.settings, InitialEditorSettings),
                  root |-> panel.root,
                  name |-> IF panel.name = <<"">> THEN <<FolderName(panel.root)>>
                           ELSE panel.name]]
  /\ UNCHANGED storage

\* An empty project name is filled in when the JetBrains preset is chosen.
ChoosePreset(preset) ==
  /\ Configuring
  /\ panel' = [panel EXCEPT
       !.draft.settings.preset = preset,
       !.draft.name = IF preset = "jetbrains" /\ @ = <<"">>
                      THEN <<FolderName(panel.draft.root)>> ELSE @]
  /\ UNCHANGED storage

TypeTemplate(template) ==
  /\ Configuring /\ panel.draft.settings.preset = "custom"
  /\ panel' = [panel EXCEPT !.draft.settings.customTemplate = template]
  /\ UNCHANGED storage

TypeRoot(root) ==
  /\ Configuring
  /\ panel' = [panel EXCEPT !.draft.root = root]
  /\ UNCHANGED storage

TypeName(name) ==
  /\ Configuring /\ panel.draft.settings.preset = "jetbrains"
  /\ panel' = [panel EXCEPT !.draft.name = name]
  /\ UNCHANGED storage

\* The button, Escape, or a click beside the dialog.
Cancel ==
  /\ Configuring
  /\ panel' = [panel EXCEPT !.configuring = FALSE]
  /\ UNCHANGED storage

\* The first thing that is wrong with a draft.
Problem(draft, path) ==
  IF ~ValidTemplate(EditorTemplate(draft.settings)) THEN "template"
  ELSE IF ResolveSourcePath(path, draft.root) = NoPath THEN "root"
  ELSE IF draft.settings.preset = "jetbrains" /\ draft.name = <<"">> THEN "name"
  ELSE "none"

RefuseConfiguration ==
  LET problem == Problem(panel.draft, Source(panel.issue).path)
  IN /\ Configuring /\ problem # "none"
     /\ panel' = [panel EXCEPT !.problem = problem]
     /\ UNCHANGED storage

\* Mutant: the key of the source root does not name the project.
Store_Shared(p, draft, n) ==
  /\ saves < MaxSaves /\ saves' = saves + 1
  /\ kept' = IF n > 0 THEN draft.settings ELSE kept
  /\ roots' = IF n > 1 THEN [q \in Project |-> draft.root] ELSE roots
  /\ names' = IF n > 2 THEN [names EXCEPT ![p] = draft.name] ELSE names
  /\ given' = IF n > 1 THEN [given EXCEPT ![p] = @ \cup {draft.root}] ELSE given

\* saveEditorSettings, saveProjectSourceRoot and saveJetBrainsProjectName: the first n
\* of them succeed.
Store(p, draft, n) ==
  /\ saves < MaxSaves /\ saves' = saves + 1
  /\ kept' = IF n > 0 THEN draft.settings ELSE kept
  /\ roots' = IF n > 1 THEN [roots EXCEPT ![p] = draft.root] ELSE roots
  /\ names' = IF n > 2 THEN [names EXCEPT ![p] = draft.name] ELSE names
  /\ given' = IF n > 1 THEN [given EXCEPT ![p] = @ \cup {draft.root}] ELSE given

FinishConfiguration ==
  /\ Configuring /\ Problem(panel.draft, Source(panel.issue).path) = "none"
  /\ \E n \in 0 .. 3 :
       /\ Store(ProjectOf[panel.issue], panel.draft, n)
       /\ panel' = IF n < 3 THEN [panel EXCEPT !.problem = "storage"]
                   ELSE [panel EXCEPT !.settings = panel.draft.settings,
                                      !.root = panel.draft.root,
                                      !.name = panel.draft.name,
                                      !.configuring = FALSE]

Draft == [settings : [preset : Preset, customTemplate : Template], root : Root, name : Name]

\* Another tab's panel, of issue i, saves.
OtherTab(i) ==
  /\ \E draft \in Draft, n \in 0 .. 3 :
       /\ Source(i) # NoSource /\ Problem(draft, Source(i).path) = "none"
       /\ Store(ProjectOf[i], draft, n)
  /\ UNCHANGED panel

EditorNext ==
  \/ Hide \/ BeginConfiguration \/ Cancel \/ RefuseConfiguration \/ FinishConfiguration
  \/ \E i \in Issue : Show(i) \/ OtherTab(i)
  \/ \E preset \in Preset : ChoosePreset(preset)
  \/ \E template \in Template : TypeTemplate(template)
  \/ \E root \in Root : TypeRoot(root)
  \/ \E name \in Name : TypeName(name)

EditorSpec == EditorInit /\ [][EditorNext]_editorVars

----------------------------------------------------------------------------
(* What the panel shows, and properties.                                   *)

FullPath(pn) == ResolveSourcePath(Source(pn.issue).path, pn.root)

\* The link of the panel, or none: then its button opens the dialog.
EditorURL(pn) ==
  IF pn.settings = None \/ FullPath(pn) = NoPath THEN NoLink
  ELSE BuildEditorURL(pn.settings, FullPath(pn), Source(pn.issue), pn.name)

Linked == Usable /\ EditorURL(panel) # NoLink

\* A link leads to the absolute path of the stack trace, or below a source root that
\* was typed for this very project, and never up from there, whatever this tab and
\* others have saved, half saved or cancelled.
LinkUnderOwnRoot ==
  Linked =>
    LET path == FullPath(panel)
    IN \/ path = Source(panel.issue).path
       \/ \E root \in given[ProjectOf[panel.issue]] :
            LET n == Len(WithoutSlash(root))
            IN /\ IsPrefix(WithoutSlash(root), path) /\ n < Len(path)
               /\ \A i \in n + 1 .. Len(path) : path[i] # ".."

\* A link is its template with every placeholder replaced once: a file, folder or
\* project with a name like a placeholder is not taken for one, in whatever order
\* they are replaced.
SubstitutedOnce ==
  Linked =>
    EditorURL(panel).body =
      Substituted(EditorTemplate(panel.settings),
                  Value(FullPath(panel), Source(panel.issue), panel.name))
=============================================================================
