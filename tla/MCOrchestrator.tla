--------------------------- MODULE MCOrchestrator ---------------------------
(* Instances of Orchestrator for TLC. *)
EXTENDS Orchestrator, TLC

File(dir, name) == [dir |-> dir, name |-> name]
Directory(dir) == File(dir, <<>>)
Entry(key, list) == [key |-> key, list |-> list]

(* Keys are matched with the name and the argName of a type. *)
SourceKeys == "json" :> "json" @@ "jsonschema" :> "jsonschema" @@
              "schema" :> "jsonschema" @@ "typescript" :> "typescript" @@
              "yaml" :> "unknown"
TargetKeys == "dart" :> "dart" @@ "js" :> "javascript" @@ "flow" :> "flow" @@
              "ts" :> "typescript" @@ "cobol" :> "unknown"

SourceExtensions == "json" :> {<<"json">>} @@ "jsonschema" :> {<<"schema", "json">>} @@
                    "typescript" :> {<<"ts">>}
TargetExtensions == "dart" :> "dart" @@ "javascript" :> "js" @@ "flow" :> "js" @@
                    "typescript" :> "ts"

(* A directory has two names, one of them a symbolic link; another is not there. *)
DirectoryNames == "models" :> "models" @@ "link" :> "models" @@ "other" :> "other" @@
                  "lib" :> "lib" @@ "web" :> "web" @@ "gone" :> "gone"
PresentDirectories == {"models", "other", "lib", "web"}

User == File("models", <<"user", "json">>)
Api == File("models", <<"api", "schema", "json">>)
Other == File("other", <<"user", "json">>)
UserTs == File("web", <<"user", "ts">>)

AllFiles ==
  {User, Api, Other} \cup
  {File("lib", n) : n \in {<<"user", "dart">>, <<"api", "schema", "dart">>, <<"user", "js">>}}
  \cup {File("web", n) : n \in {<<"user", "ts">>, <<"user", "js">>}}

AllTrees == {{User, Api}, {User, Other}, {User, UserTs}}

(* Every source type at models/, and the directories found for the targets. *)
Default == <<Entry("json", <<Directory("models")>>), Entry("typescript", <<Directory("models")>>)>>
DefaultDart == <<Entry("dart", <<Directory("lib")>>)>>

AllConfigs == {
  \* quicktype.json is missing, or does not parse, or names an unknown type.
  [sources |-> Missing, targets |-> Missing],
  [sources |-> Malformed, targets |-> Missing],
  [sources |-> <<Entry("yaml", <<>>)>>, targets |-> Missing],
  [sources |-> <<Entry("json", Malformed)>>, targets |-> Missing],
  [sources |-> Missing, targets |-> <<Entry("cobol", <<Directory("lib")>>)>>],
  \* A pattern with another type's extension.
  [sources |-> <<Entry("json", <<UserTs>>)>>, targets |-> Missing],
  \* A directory that is not there.
  [sources |-> <<Entry("json", <<Other, Directory("gone")>>)>>, targets |-> Missing],
  \* Two directories, and with some trees one target for their files.
  [sources |-> <<Entry("json", <<Directory("other"), Directory("models")>>)>>,
   targets |-> Missing],
  \* Two keys for one type, a file of two types, and of two patterns of one.
  [sources |-> <<Entry("schema", <<Directory("other")>>), Entry("json", <<Api>>),
                 Entry("jsonschema", <<Api, Directory("models")>>)>>,
   targets |-> <<Entry("dart", <<Directory("lib")>>)>>],
  \* Two languages with one extension; a target with two directories.
  [sources |-> <<Entry("json", <<Other>>)>>,
   targets |-> <<Entry("flow", <<Directory("web")>>), Entry("js", <<Directory("web")>>)>>],
  [sources |-> <<Entry("json", <<Other>>)>>,
   targets |-> <<Entry("js", <<Directory("web"), Directory("lib")>>)>>],
  \* A directory that is a target and a source.
  [sources |-> <<Entry("json", <<User>>), Entry("typescript", <<Directory("web")>>)>>,
   targets |-> <<Entry("ts", <<Directory("web")>>)>>],
  \* A file by two names.
  [sources |-> <<Entry("json", <<User, File("link", User.name)>>)>>, targets |-> Missing]}
=============================================================================
