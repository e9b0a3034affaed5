---------------------------- MODULE ConfigFiles ----------------------------
(***************************************************************************)
(* Configuration files: how a file and its imports are merged into one     *)
(* configuration (config/mod.rs, config/serde_utils.rs), and how they are  *)
(* migrated from YAML to TOML (migrate).  Where a value is inside a file   *)
(* is not told apart, so the values that migrate_toml moves stay.          *)
(*                                                                         *)
(* A file that can be parsed holds the files it imports and the values of  *)
(* some keys; the values of an array key are sequences.                    *)
(***************************************************************************)
EXTENDS Integers, Sequences, SequencesExt, FiniteSets

CONSTANTS File,       \* paths of configuration files
          Toml,       \* [File -> the path with the extension .toml]
          Primary,    \* alacritty.toml where configurations are installed
          PrimaryYaml,
          Key,        \* keys with a simple value
          ArrayKey,   \* keys whose value is an array
          NoVal,      \* the key is not in the table
          IMPORT_RECURSION_LIMIT

Absent == [kind |-> "absent"]
Broken == [kind |-> "broken"]
Content(imports, table) == [kind |-> "file", imports |-> imports, table |-> table]

EmptyTable == [k \in Key \cup ArrayKey |-> NoVal]

\* Values of `replacement`, where it has them; arrays are appended.
merge(base, replacement) ==
  [k \in Key \cup ArrayKey |->
     IF replacement[k] = NoVal THEN base[k]
     ELSE IF k \in ArrayKey /\ base[k] # NoVal THEN base[k] \o replacement[k]
     ELSE replacement[k]]

\* The imports of a file; none when the recursion limit is reached.
imports(content, limit) == IF limit = 0 THEN <<>> ELSE content.imports

\* parse_config: whether the file could be read, the files that were tried,
\* and the merged values.  A file that fails is skipped by its importer.
parse_config(disk, path) ==
  LET parse[limit \in 0..IMPORT_RECURSION_LIMIT, f \in File] ==
        IF disk[f].kind # "file" THEN [ok |-> FALSE, paths |-> <<f>>, table |-> EmptyTable]
        ELSE LET load_imports ==
                   FoldLeft(LAMBDA acc, i :
                              LET p == parse[limit - 1, i]
                              IN  [paths |-> acc.paths \o p.paths,
                                   table |-> IF p.ok THEN merge(acc.table, p.table) ELSE acc.table],
                            [paths |-> <<f>>, table |-> EmptyTable], imports(disk[f], limit))
             IN  [ok |-> TRUE, paths |-> load_imports.paths,
                  table |-> merge(load_imports.table, disk[f].table)]
  IN  parse[IMPORT_RECURSION_LIMIT, path]

installed_config(disk) == IF disk[Primary].kind # "absent" THEN Primary ELSE PrimaryYaml

(***************************************************************************)
(* Migration.                                                              *)
(***************************************************************************)
\* Mutant: the file that imports is written before its imports.
InOrder_early(imported, own) == own \o imported

InOrder(imported, own) == imported \o own

\* The imports that are migrated: a TOML file's in any case.
VisitedImports(content, yaml, skip_imports) == IF yaml /\ skip_imports THEN <<>> ELSE content.imports

\* The imports in the file that is written: only those of a YAML file follow
\* the files they name.
NewImports(content, yaml, skip_imports, migrated) ==
  IF yaml /\ ~skip_imports THEN migrated ELSE content.imports

\* migrate_config: whether it succeeds, the files it writes, in order, and the
\* path of the migrated file.  A YAML file becomes a TOML file that imports
\* the migrated files; the imports of a TOML file are migrated, and stay.
migrate_config(disk, path, skip_imports, skip_renames) ==
  LET migrate[limit \in 0..IMPORT_RECURSION_LIMIT, f \in File] ==
        IF disk[f].kind # "file" THEN [ok |-> FALSE, writes |-> <<>>, new_path |-> f]
        ELSE IF Toml[f] = f /\ skip_renames THEN [ok |-> TRUE, writes |-> <<>>, new_path |-> f]
        ELSE LET visited == VisitedImports(disk[f], Toml[f] # f, skip_imports)
                 migrate_imports ==
                   FoldLeft(LAMBDA acc, i :
                              IF disk[i].kind = "absent" THEN [acc EXCEPT !.imports = Append(@, i)]
                              ELSE LET m == migrate[limit - 1, i]
                                   IN  [ok |-> acc.ok /\ m.ok, writes |-> acc.writes \o m.writes,
                                        imports |-> Append(acc.imports, m.new_path)],
                            [ok |-> TRUE, writes |-> <<>>, imports |-> <<>>], visited)
             IN  IF visited # <<>> /\ limit = 0 THEN [ok |-> FALSE, writes |-> <<>>, new_path |-> f]
                 ELSE [ok |-> migrate_imports.ok,
                       writes |-> InOrder(migrate_imports.writes,
                                    <<[path |-> Toml[f],
                                       content |-> Content(NewImports(disk[f], Toml[f] # f, skip_imports,
                                                              migrate_imports.imports), disk[f].table)]>>),
                       new_path |-> Toml[f]]
  IN  migrate[IMPORT_RECURSION_LIMIT, path]

=============================================================================
