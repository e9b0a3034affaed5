------------------------------ MODULE FileTree ------------------------------
(***************************************************************************)
(* The file browser of the manager (main.ts): the listings it keeps in     *)
(* expandedDirs, and the commands of the backend (lib.rs) that list and    *)
(* change directories.                                                     *)
(*                                                                         *)
(* The front end is one thread.  An async function is a job: it runs up to *)
(* an `await`, its command is executed by the backend, and it goes on when *)
(* the answer is there.  Commands are executed, and answered, in the order *)
(* in which they were invoked.  Only the manager changes the files.        *)
(* A path is the sequence of names below the top directory.                *)
(***************************************************************************)
EXTENDS Naturals, Sequences, SequencesExt, FiniteSets

CONSTANTS Name,    \* names of files and directories
          Job      \* async functions that may run at the same time

Path == UNION {[1..n -> Name] : n \in 0..2}

VARIABLES
  FileOps,       \* what the user may ask for; it never changes
  fs,            \* [Path -> "none", "file" or "dir"]
  expandedDirs,  \* listings, by directory
  fileBrowserRoot,
  rightSidebarCollapsed,
  jobs,          \* the async functions
  commands,      \* jobs whose command the backend has to execute, in order
  answers        \* jobs whose answer has arrived, in order

fileVars == <<FileOps, fs, expandedDirs, fileBrowserRoot, rightSidebarCollapsed, jobs, commands, answers>>

parentDir(p) == Front(p)

Under(p, dir) == Len(p) > Len(dir) /\ IsPrefix(dir, p)

Exists(p) == fs[p] # "none"

\* What list_directory answers; loadDirectory makes a failure the empty list.
list_directory(dir) ==
  IF fs[dir] # "dir" THEN {}
  ELSE {[path |-> p, isDir |-> fs[p] = "dir"] : p \in {q \in Path : Len(q) > 0 /\ parentDir(q) = dir /\ Exists(q)}}

\* The directories and entries of the tree that is rendered.
IsShownDir(p) ==
  /\ IsPrefix(fileBrowserRoot, p)
  /\ \A n \in (Len(fileBrowserRoot) + 1)..Len(p) :
       LET q == SubSeq(p, 1, n)
       IN  /\ parentDir(q) \in DOMAIN expandedDirs
           /\ [path |-> q, isDir |-> TRUE] \in expandedDirs[parentDir(q)]

ShownEntries ==
  UNION {expandedDirs[d] : d \in {e \in DOMAIN expandedDirs : IsShownDir(e)}}

NoJob == [pc |-> "idle"]

FilesInit ==
  /\ fs \in {[p \in Path |-> CASE p = <<>> -> "dir"
                               [] p = <<n>> -> "dir"
                               [] p = <<n, m>> -> "file"
                               [] Len(p) = 1 /\ p # <<n>> -> other
                               [] OTHER -> "none"] : n \in Name, m \in Name, other \in {"none", "dir"}}
  /\ expandedDirs = [p \in {} |-> {}]
  /\ fileBrowserRoot = <<>>
  /\ rightSidebarCollapsed = TRUE
  /\ jobs = [j \in Job |-> NoJob]
  /\ commands = <<>>
  /\ answers = <<>>

(***************************************************************************)
(* Turns of the front end.                                                 *)
(***************************************************************************)
\* Job j invokes a command: an operation on the files ...
Invoke(j, op, path, dest) ==
  /\ jobs' = [jobs EXCEPT ![j] = [pc |-> "command", op |-> op, path |-> path, dest |-> dest]]
  /\ commands' = Append(commands, j)

\* ... or loadDirectory, with what is left to do after it: `then` tells how
\* the answer is used, `keys` the expanded directories to load next and
\* `roots` the directories to reload after those.
Load(j, dir, then, keys, roots) ==
  /\ jobs' = [jobs EXCEPT ![j] = [pc |-> "load", dir |-> dir, then |-> then, keys |-> keys, roots |-> roots]]
  /\ commands' = Append(commands, j)

Set(key, entries) == [p \in DOMAIN expandedDirs \cup {key} |->
                        IF p = key THEN entries ELSE expandedDirs[p]]

Without(keys) == [p \in DOMAIN expandedDirs \ keys |-> expandedDirs[p]]

\* A click on a directory; promptNewEntry expands its directory likewise.
ClickDir(j, p) ==
  /\ "expand" \in FileOps /\ ~rightSidebarCollapsed
  /\ [path |-> p, isDir |-> TRUE] \in ShownEntries
  /\ IF p \in DOMAIN expandedDirs
       THEN expandedDirs' = Without({p}) /\ UNCHANGED <<jobs, commands>>
       ELSE jobs[j] = NoJob /\ Load(j, p, "set", {}, <<>>) /\ UNCHANGED expandedDirs
  /\ UNCHANGED <<fs, fileBrowserRoot, rightSidebarCollapsed, answers>>

openRightSidebar(j) ==
  /\ rightSidebarCollapsed /\ jobs[j] = NoJob
  /\ rightSidebarCollapsed' = FALSE
  /\ IF fileBrowserRoot \in DOMAIN expandedDirs THEN UNCHANGED <<jobs, commands>>
     ELSE Load(j, fileBrowserRoot, "setRoot", {}, <<>>)
  /\ UNCHANGED <<fs, expandedDirs, fileBrowserRoot, answers>>

closeRightSidebar ==
  /\ ~rightSidebarCollapsed
  /\ rightSidebarCollapsed' = TRUE
  /\ UNCHANGED <<fs, expandedDirs, fileBrowserRoot, jobs, commands, answers>>

RootLoads == {j \in Job : jobs[j].pc \in {"load", "loaded"} /\ jobs[j].then = "setRoot"}

\* The shell reports another working directory (OSC 7).  Without "race" it
\* does so when no listing of a root is on its way.
WorkingDirectory(j, newPath) ==
  /\ "cd" \in FileOps /\ fs[newPath] = "dir" /\ newPath # fileBrowserRoot
  /\ "race" \in FileOps \/ RootLoads = {}
  /\ jobs[j] = NoJob
  /\ fileBrowserRoot' = newPath
  /\ expandedDirs' = [p \in {} |-> {}]
  /\ IF rightSidebarCollapsed THEN UNCHANGED <<jobs, commands>>
     ELSE Load(j, newPath, "setRoot", {}, <<>>)
  /\ UNCHANGED <<fs, rightSidebarCollapsed, answers>>

\* confirmAndDelete, of an entry that is shown.
confirmAndDelete(j, e) == "delete" \in FileOps /\ Invoke(j, "delete_entry", e.path, <<>>)

\* startInlineRename commits a name that differs from the old one.
startInlineRename(j, e, n) ==
  /\ "rename" \in FileOps /\ n # Last(e.path)
  /\ Invoke(j, IF e.isDir THEN "rename_dir" ELSE "rename_file", e.path, Append(parentDir(e.path), n))

\* A drop of e on the directory d, which is neither e nor below it.
DropOn(j, e, d) ==
  /\ "move" \in FileOps /\ d.isDir /\ d.path # e.path /\ ~Under(d.path, e.path)
  /\ Append(d.path, Last(e.path)) \in Path
  /\ Invoke(j, "move_entry", e.path, d.path)

\* promptNewEntry commits a name in a directory that is expanded.
promptNewEntry(j, d, n, op) ==
  /\ "create" \in FileOps /\ IsShownDir(d) /\ Append(d, n) \in Path
  /\ Invoke(j, op, Append(d, n), <<>>)

\* What the context menu and the mouse ask for.
FileAction(j) ==
  /\ jobs[j] = NoJob /\ ~rightSidebarCollapsed
  /\ \/ \E e \in ShownEntries : \/ confirmAndDelete(j, e)
                                 \/ \E n \in Name : startInlineRename(j, e, n)
                                 \/ \E d \in ShownEntries : DropOn(j, e, d)
     \/ \E d \in DOMAIN expandedDirs, n \in Name, op \in {"create_file", "create_dir"} :
          promptNewEntry(j, d, n, op)
  /\ UNCHANGED <<fs, expandedDirs, fileBrowserRoot, rightSidebarCollapsed, answers>>

(***************************************************************************)
(* The backend executes the first command.                                 *)
(***************************************************************************)
\* fs::rename: everything below src is below dst then.
Renamed(src, dst) ==
  [p \in Path |->
     IF p = dst \/ Under(p, dst)
       THEN LET q == src \o SubSeq(p, Len(dst) + 1, Len(p)) IN IF q \in Path THEN fs[q] ELSE "none"
     ELSE IF p = src \/ Under(p, src) THEN "none" ELSE fs[p]]

\* The files after an operation; the same files when it fails.
rename_entry(src, dst) == IF Exists(src) /\ ~Exists(dst) THEN Renamed(src, dst) ELSE fs

move_entry(src, dir) ==
  LET dst == Append(dir, Last(src))
  IN  IF Exists(src) /\ ~Exists(dst) /\ fs[dir] = "dir" THEN Renamed(src, dst) ELSE fs

delete_entry(path) == [p \in Path |-> IF p = path \/ Under(p, path) THEN "none" ELSE fs[p]]

create_entry(path, kind) ==
  IF Exists(path) \/ fs[parentDir(path)] # "dir" THEN fs ELSE [fs EXCEPT ![path] = kind]

Operation(c) ==
  CASE c.op \in {"rename_dir", "rename_file"} -> rename_entry(c.path, c.dest)
    [] c.op = "move_entry" -> move_entry(c.path, c.dest)
    [] c.op = "delete_entry" -> delete_entry(c.path)
    [] c.op = "create_file" -> create_entry(c.path, "file")
    [] c.op = "create_dir" -> create_entry(c.path, "dir")

Execute ==
  /\ commands # <<>>
  /\ LET j == Head(commands)
         c == jobs[j]
     IN  /\ IF c.pc = "load"
              THEN /\ jobs' = [jobs EXCEPT ![j] = [pc |-> "loaded", dir |-> c.dir, then |-> c.then, keys |-> c.keys,
                                                   roots |-> c.roots, entries |-> list_directory(c.dir)]]
                   /\ UNCHANGED fs
              ELSE /\ fs' = Operation(c)
                   /\ jobs' = [jobs EXCEPT ![j] = [pc |-> "done", op |-> c.op, path |-> c.path,
                                                   dest |-> c.dest, ok |-> fs' # fs]]
         /\ answers' = Append(answers, j)
  /\ commands' = Tail(commands)
  /\ UNCHANGED <<expandedDirs, fileBrowserRoot, rightSidebarCollapsed>>

(***************************************************************************)
(* The job of the first answer goes on.                                    *)
(***************************************************************************)
\* A renamed directory keeps its listings, and those below it, under new keys.
Remap(src, dst) ==
  LET old == {p \in DOMAIN expandedDirs : p = src \/ Under(p, src)}
      new(p) == dst \o SubSeq(p, Len(src) + 1, Len(p))
  IN  [p \in (DOMAIN expandedDirs \ old) \cup {new(q) : q \in old} |->
         IF \E q \in old : new(q) = p THEN expandedDirs[CHOOSE q \in old : new(q) = p] ELSE expandedDirs[p]]

\* What is reloaded after an operation, in order.
Reloads(c) ==
  IF c.op = "move_entry" THEN <<parentDir(c.path), c.dest>> ELSE <<parentDir(c.path)>>

Finish(j) == jobs' = [jobs EXCEPT ![j] = NoJob] /\ UNCHANGED commands

\* An operation was executed.  Its error is shown and nothing is reloaded.
Operated(j) ==
  LET c == jobs[j]
  IN  /\ c.pc = "done"
      /\ IF ~c.ok THEN Finish(j) /\ UNCHANGED expandedDirs
         ELSE /\ expandedDirs' =
                   CASE c.op = "rename_dir" -> Remap(c.path, c.dest)
                     [] c.op = "move_entry" -> Without({p \in DOMAIN expandedDirs : IsPrefix(c.path, p)})
                     [] OTHER -> expandedDirs
              /\ Load(j, Head(Reloads(c)), "reload", {}, Tail(Reloads(c)))


\* reloadSubtree goes on with the expanded directories below, in any order,
\* then with the next directory to reload.
ReloadNext(j, keys, roots) ==
  IF keys # {} THEN \E k \in keys : Load(j, k, "key", keys \ {k}, roots)
  ELSE IF roots # <<>> THEN Load(j, Head(roots), "reload", {}, Tail(roots))
  ELSE Finish(j)

\* A listing has arrived.
Listed(j) ==
  LET c == jobs[j]
  IN  /\ c.pc = "loaded"
      /\ CASE c.then = "set" -> expandedDirs' = Set(c.dir, c.entries) /\ Finish(j)
           [] c.then = "setRoot" -> expandedDirs' = Set(fileBrowserRoot, c.entries) /\ Finish(j)
           [] c.then = "reload" ->
                /\ expandedDirs' = Set(c.dir, c.entries)
                /\ ReloadNext(j, {k \in DOMAIN expandedDirs' : Under(k, c.dir)}, c.roots)
           [] c.then = "key" -> expandedDirs' = Set(c.dir, c.entries) /\ ReloadNext(j, c.keys, c.roots)

Resume ==
  /\ answers # <<>>
  /\ Operated(Head(answers)) \/ Listed(Head(answers))
  /\ answers' = Tail(answers)
  /\ UNCHANGED <<fs, fileBrowserRoot, rightSidebarCollapsed>>

FilesNext ==
  /\ \/ \E j \in Job : \/ \E p \in Path : ClickDir(j, p) \/ WorkingDirectory(j, p)
                       \/ openRightSidebar(j) \/ FileAction(j)
     \/ closeRightSidebar \/ Execute \/ Resume
  /\ UNCHANGED FileOps


=============================================================================
