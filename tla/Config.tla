------------------------------- MODULE Config -------------------------------
(***************************************************************************)
(* The running configuration: the thread that watches the files            *)
(* (config/monitor.rs), the reload of the files on the main thread and its *)
(* restart of that thread, and the overrides from the command line and     *)
(* from IPC messages (event.rs, window_context.rs, cli.rs).  The files are *)
(* changed by the user and by `alacritty migrate`, which may be killed.    *)
(***************************************************************************)
EXTENDS ConfigFiles

CONSTANTS Installed,     \* the files at the start: sets of disks, with and without a migration
          Contents,      \* [File -> what its user writes into it]
          Window, Options,
          MaxEdits,      \* bound on the changes of files
          MaxRequests,   \* bound on IPC messages and new windows
          Loads

VARIABLES
  load,      \* what happens in a behaviour; it never changes
  disk,      \* the files
  Main,      \* the primary file, as found at the start; it never changes
  latest,    \* what the files say at present
  migration, \* the writes that a migration has left to do
  monitor,   \* ConfigMonitor
  proxy,     \* ConfigReload events for the main thread
  main,      \* the main thread: idle, or between reading and restarting
  config,    \* Processor::config, without and with the CLI's overrides
  cli_options, global_ipc_options,
  windows,   \* open windows: their overrides and their configuration
  wanted,    \* the overrides an open window was given, in order
  wantedAll, \* the overrides for all windows, since the last reset
  missed,    \* changes of files that no ConfigReload will be sent for
  edits, requests

vars == <<load, Main, migration, disk, latest, monitor, proxy, main, config, cli_options, global_ipc_options, windows, wanted,
          wantedAll, missed, edits, requests>>

overrideVars == <<global_ipc_options, windows, wanted, wantedAll>>

(***************************************************************************)
(* Overrides.  An option sets one key; the value of a broken option cannot *)
(* be applied to the configuration.                                        *)
(***************************************************************************)
Apply(table, o) == [table EXCEPT ![o.key] = o.val]

\* ParsedOptions::override_config: options are applied in order; a broken one
\* is swapped with the last one and dropped.
override_config(options, table) ==
  FoldLeft(LAMBDA s, n :
             IF s.i > Len(s.options) THEN s
             ELSE IF s.options[s.i].broken
               THEN [s EXCEPT !.options = Front([s.options EXCEPT ![s.i] = Last(s.options)])]
             ELSE [s EXCEPT !.i = s.i + 1, !.table = Apply(s.table, s.options[s.i])],
           [i |-> 1, options |-> options, table |-> table], options)

\* What the options ask for: the last one for a key wins.
Asked(options, table) == FoldLeft(Apply, table, options)

Valid(options) == SelectSeq(options, LAMBDA o : ~o.broken)

\* A window's overrides, and its configuration under `table`.
Overridden(options, table) ==
  LET o == override_config(options, table) IN [options |-> o.options, config |-> o.table]

\* Mutant: a reload gives every window the plain configuration.
update_config_plain(table) == [w \in DOMAIN windows |-> [windows[w] EXCEPT !.config = table]]

update_config(table) == [w \in DOMAIN windows |-> Overridden(windows[w].options, table)]

(***************************************************************************)
(* The watching thread.                                                    *)
(***************************************************************************)
\* hash_paths does not depend on the order of the files.
hash_paths(paths) == [f \in File |-> Cardinality({i \in DOMAIN paths : paths[i] = f})]

NoMonitor == [watching |-> FALSE, hash |-> hash_paths(<<>>), paths |-> <<>>, queue |-> <<>>,
              deadline |-> FALSE, received |-> {}]

\* ConfigMonitor::new: files that are not there are left out.
NewMonitor(paths) ==
  [NoMonitor EXCEPT !.hash = hash_paths(paths),
                    !.paths = SelectSeq(paths, LAMBDA f : disk[f].kind # "absent")]

\* The new thread watches the directories of its files.
Watch ==
  /\ monitor.paths # <<>> /\ ~monitor.watching
  /\ monitor' = [monitor EXCEPT !.watching = TRUE]
  /\ UNCHANGED <<load, Main, migration, disk, latest, proxy, main, config, cli_options, missed, edits, requests>>
  /\ UNCHANGED overrideVars

\* Mutant: the first event does not start the debouncing period.
Receive_asleep ==
  /\ monitor.queue # <<>>
  /\ LET e == Head(monitor.queue)
     IN  monitor' = [monitor EXCEPT !.queue = Tail(@),
                                    !.received = IF e.kind = "modify" THEN @ \cup {e.path} ELSE @]
  /\ UNCHANGED <<load, Main, migration, disk, latest, proxy, main, config, cli_options, missed, edits, requests>>
  /\ UNCHANGED overrideVars

\* An event of the watcher: the removal of a file is ignored.
Receive ==
  /\ monitor.queue # <<>>
  /\ LET e == Head(monitor.queue)
     IN  monitor' = [monitor EXCEPT !.queue = Tail(@), !.deadline = TRUE,
                                    !.received = IF e.kind = "modify" THEN @ \cup {e.path} ELSE @]
  /\ UNCHANGED <<load, Main, migration, disk, latest, proxy, main, config, cli_options, missed, edits, requests>>
  /\ UNCHANGED overrideVars

\* The debouncing period ends.
Timeout ==
  /\ monitor.deadline /\ monitor.queue = <<>>
  /\ monitor' = [monitor EXCEPT !.deadline = FALSE, !.received = {}]
  /\ proxy' = IF monitor.received \cap ToSet(monitor.paths) # {}
                THEN Append(proxy, Head(monitor.paths)) ELSE proxy
  /\ UNCHANGED <<load, Main, migration, disk, latest, main, config, cli_options, missed, edits, requests>>
  /\ UNCHANGED overrideVars

\* A file gets another content; absent: it is removed.
Change(f, content) ==
  /\ disk' = [disk EXCEPT ![f] = content]
  /\ latest' = parse_config(disk', Main)
  /\ monitor' = IF ~monitor.watching THEN monitor
                ELSE [monitor EXCEPT !.queue = Append(@, [path |-> f,
                        kind |-> IF content = Absent THEN "remove" ELSE "modify"])]
  /\ missed' = IF monitor.watching /\ f \in ToSet(monitor.paths) /\ content # Absent
                 THEN missed ELSE missed \cup {f}
  /\ UNCHANGED <<load, Main, proxy, main, config, cli_options, requests>>
  /\ UNCHANGED overrideVars

Edit(f, content) ==
  /\ "edit" \in load /\ edits < IF "ipc" \in load THEN 1 ELSE MaxEdits
  /\ disk[f] # content
  /\ content = Absent => "remove" \in load
  /\ edits' = edits + 1
  /\ Change(f, content)
  /\ UNCHANGED migration

\* The dry run has to succeed first.
Migrate(skip_imports, skip_renames) ==
  /\ "migrate" \in load /\ edits = 0 /\ migration = <<>>
  /\ LET m == migrate_config(disk, installed_config(disk), skip_imports, skip_renames)
     IN  m.ok /\ migration' = m.writes
  /\ edits' = MaxEdits
  /\ UNCHANGED <<load, Main, disk, latest, monitor, proxy, main, config, cli_options, missed, requests>>
  /\ UNCHANGED overrideVars

\* write_results replaces a file atomically.  An error, or a kill, ends the
\* migration.
WriteResults ==
  /\ migration # <<>>
  /\ migration' = Tail(migration)
  /\ Change(Head(migration).path, Head(migration).content)
  /\ UNCHANGED edits

Interrupted ==
  /\ migration # <<>>
  /\ migration' = <<>>
  /\ UNCHANGED <<load, Main, disk, latest, monitor, proxy, main, config, cli_options, missed, edits, requests>>
  /\ UNCHANGED overrideVars

(***************************************************************************)
(* Reload, on the main thread.                                             *)
(***************************************************************************)
\* reload: the files are read and the options of the CLI applied.  With an
\* error nothing else happens.
Reload ==
  /\ main.pc = "idle" /\ proxy # <<>>
  /\ proxy' = Tail(proxy)
  /\ \E p \in {parse_config(disk, Head(proxy))}, o \in {override_config(cli_options, parse_config(disk, Head(proxy)).table)} :
       IF p.ok
         THEN /\ config' = [file |-> p.table, table |-> o.table, paths |-> p.paths]
              /\ cli_options' = o.options
              /\ main' = [pc |-> "restart"]
              /\ missed' = {}
         ELSE UNCHANGED <<config, cli_options, main, missed>>
  /\ UNCHANGED <<load, Main, migration, disk, latest, monitor, edits, requests>>
  /\ UNCHANGED overrideVars

\* needs_restart compares the hash of the files with that of the watched ones.
needs_restart(paths) == hash_paths(paths) = monitor.hash

\* The old thread is ended with what it had received, a new one started; then
\* every window gets the new configuration.
RestartMonitor ==
  /\ main.pc = "restart"
  /\ main' = [pc |-> "idle"]
  /\ IF needs_restart(config.paths)
       THEN /\ monitor' = NewMonitor(config.paths)
            /\ missed' = missed \cup monitor.received \cup {e.path : e \in ToSet(monitor.queue)}
       ELSE UNCHANGED <<monitor, missed>>
  /\ windows' = update_config(config.table)
  /\ UNCHANGED <<load, Main, migration, disk, latest, proxy, config, cli_options, global_ipc_options, wanted, wantedAll, edits, requests>>

(***************************************************************************)
(* IPC messages, on the main thread.                                       *)
(***************************************************************************)
Request ==
  /\ "ipc" \in load /\ main.pc = "idle" /\ requests < IF "edit" \in load THEN 2 ELSE MaxRequests
  /\ requests' = requests + 1
  /\ UNCHANGED <<load, Main, migration, disk, latest, monitor, proxy, main, config, cli_options, missed, edits>>

\* Overrides for the windows in ws, all windows when the message names none.
IpcConfig(ws, global, options) ==
  /\ Request
  /\ windows' = [w \in DOMAIN windows |->
       IF w \in ws THEN Overridden(windows[w].options \o options, config.table) ELSE windows[w]]
  /\ wanted' = [w \in DOMAIN windows |-> IF w \in ws THEN wanted[w] \o options ELSE wanted[w]]
  /\ global_ipc_options' = IF global THEN global_ipc_options \o options ELSE global_ipc_options
  /\ wantedAll' = IF global THEN wantedAll \o options ELSE wantedAll

IpcConfigReset(ws, global) ==
  /\ Request
  /\ windows' = [w \in DOMAIN windows |-> IF w \in ws THEN Overridden(<<>>, config.table) ELSE windows[w]]
  /\ wanted' = [w \in DOMAIN windows |-> IF w \in ws THEN <<>> ELSE wanted[w]]
  /\ global_ipc_options' = IF global THEN <<>> ELSE global_ipc_options
  /\ wantedAll' = IF global THEN <<>> ELSE wantedAll

\* A request for the global configuration drops the options that are broken.
IpcGetConfig ==
  /\ Request
  /\ global_ipc_options' = override_config(global_ipc_options, config.table).options
  /\ UNCHANGED <<windows, wanted, wantedAll>>

\* create_window: the options of the window, then the global ones.
create_window(w, options) ==
  /\ w \notin DOMAIN windows
  /\ Request
  /\ LET new == Overridden(options \o global_ipc_options, config.table)
     IN  windows' = [v \in DOMAIN windows \cup {w} |-> IF v = w THEN new ELSE windows[v]]
  /\ wanted' = [v \in DOMAIN windows \cup {w} |->
                  IF v = w THEN options \o wantedAll ELSE wanted[v]]
  /\ UNCHANGED <<global_ipc_options, wantedAll>>

OptionLists == {<<o>> : o \in Options} \cup {<<o, p>> : o \in Options, p \in Options}

\* The message names a window, or none.
Addressed(ws, global) == IF global THEN ws = DOMAIN windows ELSE Cardinality(ws) = 1

Init ==
  /\ load \in Loads
  /\ disk \in Installed["migrate" \in load] /\ Main = installed_config(disk) /\ migration = <<>>
  /\ cli_options \in {<<>>} \cup {<<o>> : o \in {p \in Options : ~p.broken}}
  /\ latest = parse_config(disk, Main)
  /\ config = [file |-> latest.table, table |-> Asked(cli_options, latest.table), paths |-> latest.paths]
  /\ monitor = [NewMonitor(latest.paths) EXCEPT !.watching = TRUE]
  /\ proxy = <<>> /\ main = [pc |-> "idle"]
  /\ global_ipc_options = <<>>
  /\ \E w \in Window : windows = [v \in {w} |-> [options |-> <<>>, config |-> config.table]]
  /\ wanted = [v \in DOMAIN windows |-> <<>>] /\ wantedAll = <<>>
  /\ missed = {} /\ edits = 0 /\ requests = 0

MonitorThread == Watch \/ Receive \/ Timeout

Next ==
  \/ \E f \in File : \E c \in Contents[f] : Edit(f, c)
  \/ \E skip_imports, skip_renames \in BOOLEAN : Migrate(skip_imports, skip_renames)
  \/ WriteResults \/ Interrupted
  \/ MonitorThread \/ Reload \/ RestartMonitor
  \/ \E ws \in SUBSET DOMAIN windows, global \in BOOLEAN :
       /\ Addressed(ws, global)
       /\ IpcConfigReset(ws, global) \/ \E options \in OptionLists : IpcConfig(ws, global, options)
  \/ IpcGetConfig
  \/ \E w \in Window, options \in OptionLists : create_window(w, options)

\* The main thread takes the next event and ends a reload: what Reload and
\* RestartMonitor, and no other action, do to `proxy` and to `main`.
TakesEvent == main.pc = "idle" /\ proxy # <<>> /\ proxy' = Tail(proxy)
EndsReload == main.pc = "restart" /\ main' = [pc |-> "idle"]

Spec ==
  /\ Init /\ [][Next]_vars
  /\ WF_vars(MonitorThread) /\ WF_proxy(TakesEvent) /\ WF_main(EndsReload)

(***************************************************************************)
(* Properties.                                                             *)
(***************************************************************************)
Stale == latest.ok /\ latest.table # config.file

\* Changes that the monitor cannot report: they fell between the reading of the
\* files and the new thread, or it started while the primary file was away.
Blind == missed # {} \/ Head(monitor.paths \o <<Main>>) # Main

\* "The monitor watches the config file for changes and reloads it": a change
\* of a watched file is loaded in the end, whatever is debounced, ignored or
\* under way when it happens.
EditsLoaded == (Stale /\ ~Blind) ~> (~Stale \/ Blind)

\* A window has, over the loaded files, what the last valid option for each
\* key asks for, through reloads, resets and windows that come later.  Among
\* options with a broken one, it is one of those asked for.
OverridesKept ==
  main.pc = "idle" =>
    \A w \in DOMAIN windows :
      LET valid == Valid(wanted[w])
      IN  IF valid = wanted[w] THEN windows[w].config = Asked(valid, config.table)
          ELSE \A k \in DOMAIN config.table :
                 LET vals == {o.val : o \in {p \in ToSet(valid) : p.key = k}}
                 IN  windows[w].config[k] \in IF vals = {} THEN {config.table[k]} ELSE vals

\* "Atomically replace the configuration file": a migration never changes what
\* a start of the program loads, whichever of its writes have been done.
MigrationKeeps ==
  [][migration # <<>> => parse_config(disk', installed_config(disk')).table
                           = parse_config(disk, installed_config(disk)).table]_disk

\* "Restart config monitor if imports changed": the files that are watched are
\* the files of the configuration.
MonitorFollows == main.pc = "idle" => hash_paths(config.paths) = monitor.hash

=============================================================================
