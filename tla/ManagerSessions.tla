-------------------------- MODULE ManagerSessions --------------------------
(***************************************************************************)
(* Terminal sessions and server profiles of the manager.                   *)
(*                                                                         *)
(* The front end (main.ts) keeps one session per profile, plus the session *)
(* "local", in `sessions`.  Opening one is an async function that closes   *)
(* the session there is, asks the backend for a PTY, registers its two     *)
(* listeners and only then enters the new session; other clicks are served *)
(* at every `await`.  The backend (lib.rs) keeps the PTYs in pty_sessions, *)
(* with a reader thread each, and the profiles in memory and in a file.    *)
(* Its commands run on one thread and are atomic, but the program may die  *)
(* while it writes the file.                                               *)
(***************************************************************************)
EXTENDS Naturals, Sequences, SequencesExt, FiniteSets

CONSTANTS Profile,     \* ids of profiles
          MaxSessions, \* bound on the sessions that are opened
          Task,        \* async functions that may run at the same time
          NoSession

VARIABLES
  sessions,      \* the front end's sessions, by key
  tasks,         \* the async functions
  listening,     \* the listeners of pty-exit, with the key each was made for
  overlapped,    \* keys that were opened again before they had been opened
  ui,            \* the profiles the front end lists
  pty_sessions,  \* the backend's PTYs
  child,         \* per session id: its process and its reader thread
  profiles,      \* the backend's list of profiles
  used,          \* the profiles with a last_used_at
  disk,          \* the file of profiles
  acked          \* profiles that were saved, as the front end was told

uiVars == <<sessions, tasks, listening, overlapped, ui>>
sessionVars == <<sessions, tasks, listening, overlapped, ui, pty_sessions, child, profiles, used, disk, acked>>

SessionId == 1..MaxSessions  \* the ids createProfileId makes, in order

Key == Profile \cup {"local"}

\* The part of SessionInfo that is not about the screen.
SessionInfo == [sessionId : SessionId, profileId : Key, exited : BOOLEAN]

ASSUME SessionsAssumption == NoSession \notin SessionInfo /\ Profile # {}

Idle == [pc |-> "idle"]

Keep(r, set) == [ids |-> r, used |-> set, torn |-> FALSE]

SessionsInit ==
  /\ sessions = [k \in Key |-> NoSession]
  /\ tasks = [t \in Task |-> Idle]
  /\ listening = {} /\ overlapped = {}
  /\ ui = <<>>
  /\ pty_sessions = {}
  /\ child = [s \in SessionId |-> "new"]
  /\ profiles = <<>> /\ used = {}
  /\ disk = Keep(<<>>, {})
  /\ acked = {}

(***************************************************************************)
(* The file of profiles.                                                   *)
(***************************************************************************)
\* An unreadable file, a torn one included, is the empty list.
read_profiles(file) == IF file.torn THEN <<>> ELSE file.ids

\* persist_profiles: the file is written, or its directory cannot be made, or
\* the write ends after the file was truncated.  ok: what it returns.
persist_profiles(ids, set, ok) ==
  \/ ok /\ disk' = Keep(ids, set)
  \/ ~ok /\ disk' \in {disk, [ids |-> <<>>, used |-> {}, torn |-> TRUE]}

\* What was acknowledged is lost with the file.
Forget(ids, ok) == acked' = IF disk'.torn THEN {} ELSE IF ok THEN acked \cup ids ELSE acked

\* The program is killed, maybe while it writes, and started again.
Restart ==
  /\ disk' \in {disk, [ids |-> <<>>, used |-> {}, torn |-> TRUE]}
  /\ profiles' = read_profiles(disk')
  /\ used' = disk'.used
  /\ acked' = IF disk'.torn THEN {} ELSE acked
  /\ sessions' = [k \in Key |-> NoSession]
  /\ tasks' = [t \in Task |-> Idle]
  /\ listening' = {} /\ overlapped' = {}
  /\ ui' = profiles'
  /\ pty_sessions' = {}
  /\ child' = [s \in SessionId |-> IF child[s] = "new" THEN "new" ELSE "gone"]

(***************************************************************************)
(* Commands on profiles.                                                   *)
(***************************************************************************)
\* Mutant: the new profile takes the place of the last one.
upsert_profile_replace(id, ok) ==
  /\ profiles' = IF id \in ToSet(profiles) THEN profiles
                 ELSE IF profiles = <<>> THEN <<id>> ELSE Append(Front(profiles), id)
  /\ persist_profiles(profiles', used \ {id}, ok)
  /\ used' = used \ {id}
  /\ Forget({id}, ok)

\* A profile with the id is replaced, else the profile is appended.  The list
\* in memory keeps it when the file could not be written.
upsert_profile(id, ok) ==
  /\ profiles' = IF id \in ToSet(profiles) THEN profiles ELSE Append(profiles, id)
  /\ persist_profiles(profiles', used \ {id}, ok)
  /\ used' = used \ {id}
  /\ Forget({id}, ok)

\* A line of at least two fields becomes the first profile, with a new id.
add_profile_from_csv(id, ok) ==
  /\ id \notin ToSet(profiles)
  /\ profiles' = <<id>> \o profiles
  /\ persist_profiles(profiles', used, ok)
  /\ Forget({id}, ok)
  /\ UNCHANGED <<used, pty_sessions, child>> /\ UNCHANGED uiVars

\* The time of use is set before alacritty is started, and saved only when it
\* could be started.
connect_profile(id, started, ok) ==
  /\ id \in ToSet(profiles)
  /\ used' = used \cup {id}
  /\ IF started THEN persist_profiles(profiles, used', ok) ELSE UNCHANGED disk
  /\ Forget({}, ok)
  /\ UNCHANGED <<profiles, pty_sessions, child>> /\ UNCHANGED uiVars

(***************************************************************************)
(* Adding a server.  The add panel sends the profile, lists the profiles   *)
(* again and shows the new list.                                           *)
(***************************************************************************)
ConfirmAdd(t, id) ==
  /\ tasks[t] = Idle /\ id \notin ToSet(profiles)
  /\ \A u \in Task : tasks[u].pc = "upserting" => tasks[u].id # id
  /\ tasks' = [tasks EXCEPT ![t] = [pc |-> "upserting", id |-> id]]
  /\ UNCHANGED <<sessions, listening, overlapped, ui, pty_sessions, child, profiles, used, disk, acked>>

\* An error ends the function: nothing is listed or selected.
Upserting(t, ok) ==
  /\ tasks[t].pc = "upserting"
  /\ upsert_profile(tasks[t].id, ok)
  /\ tasks' = [tasks EXCEPT ![t] = IF ok THEN [pc |-> "refreshing", id |-> tasks[t].id] ELSE Idle]
  /\ UNCHANGED <<sessions, listening, overlapped, ui, pty_sessions, child>>

list_profiles(t) ==
  /\ tasks[t].pc = "refreshing"
  /\ tasks' = [tasks EXCEPT ![t] = [pc |-> "listed", id |-> tasks[t].id, profiles |-> profiles]]
  /\ UNCHANGED <<sessions, listening, overlapped, ui, pty_sessions, child, profiles, used, disk, acked>>

refreshProfiles(t) ==
  /\ tasks[t].pc = "listed"
  /\ ui' = tasks[t].profiles
  /\ tasks' = [tasks EXCEPT ![t] = Idle]
  /\ UNCHANGED <<sessions, listening, overlapped, pty_sessions, child, profiles, used, disk, acked>>

(***************************************************************************)
(* Opening a session.                                                      *)
(***************************************************************************)
createProfileId(sid) == child[sid] = "new" /\ \A s \in 1..(sid - 1) : child[s] # "new"

Opening(k) == \E t \in Task : tasks[t].pc \in {"closing", "closed", "spawning", "spawned", "output", "exit"}
                              /\ tasks[t].key = k

\* Mutant: the session is deleted from the map once its PTY is closed.
closeTerminalSession_late(k) ==
  /\ listening' = listening \ {[sid |-> sessions[k].sessionId, key |-> k]}
  /\ UNCHANGED sessions

\* The part of closeTerminalSession before its await.
closeTerminalSession(k) ==
  /\ listening' = listening \ {[sid |-> sessions[k].sessionId, key |-> k]}
  /\ sessions' = [sessions EXCEPT ![k] = NoSession]

\* Mutant: the session there is stays as it is.
openTerminalSession_keep(t, k, sid) ==
  /\ tasks[t] = Idle /\ createProfileId(sid)
  /\ k = "local" \/ k \in ToSet(ui)
  /\ tasks' = [tasks EXCEPT ![t] = [pc |-> "spawning", key |-> k, sid |-> sid]]
  /\ overlapped' = IF Opening(k) THEN overlapped \cup {k} ELSE overlapped
  /\ child' = [child EXCEPT ![sid] = "named"]
  /\ UNCHANGED <<sessions, listening, ui, pty_sessions, profiles, used, disk, acked>>

\* New Terminal, a click on a terminal without session, or the start.
openTerminalSession(t, k, sid) ==
  /\ tasks[t] = Idle /\ createProfileId(sid)
  /\ k = "local" \/ k \in ToSet(ui)
  /\ IF sessions[k] = NoSession
       THEN /\ tasks' = [tasks EXCEPT ![t] = [pc |-> "spawning", key |-> k, sid |-> sid]]
            /\ UNCHANGED <<sessions, listening>>
       ELSE /\ tasks' = [tasks EXCEPT ![t] = [pc |-> "closing", key |-> k, sid |-> sid,
                                              old |-> sessions[k].sessionId]]
            /\ closeTerminalSession(k)
  /\ overlapped' = IF Opening(k) THEN overlapped \cup {k} ELSE overlapped
  /\ child' = [child EXCEPT ![sid] = "named"]
  /\ UNCHANGED <<ui, pty_sessions, profiles, used, disk, acked>>

\* The PTY is dropped, which hangs up its process.
close_pty(t) ==
  /\ tasks[t].pc = "closing"
  /\ pty_sessions' = pty_sessions \ {tasks[t].old}
  /\ tasks' = [tasks EXCEPT ![t] = [pc |-> "closed", key |-> tasks[t].key, sid |-> tasks[t].sid]]
  /\ UNCHANGED <<sessions, listening, overlapped, ui, child, profiles, used, disk, acked>>

Closed(t) ==
  /\ tasks[t].pc = "closed"
  /\ tasks' = [tasks EXCEPT ![t] = [pc |-> "spawning", key |-> tasks[t].key, sid |-> tasks[t].sid]]
  /\ UNCHANGED <<sessions, listening, overlapped, ui, pty_sessions, child, profiles, used, disk, acked>>

\* The profile is marked as used and the profiles are saved, whatever comes
\* of it, before the PTY is opened; then opening it may fail.
spawn_pty(t, spawned, saved) ==
  /\ tasks[t].pc = "spawning"
  /\ LET k == tasks[t].key
         s == tasks[t].sid
     IN  /\ spawned => k \in ToSet(profiles) \cup {"local"}
         /\ IF k \in ToSet(profiles)
              THEN used' = used \cup {k} /\ persist_profiles(profiles, used', saved) /\ Forget({}, saved)
              ELSE UNCHANGED <<used, disk, acked>>
         /\ IF spawned
              THEN /\ pty_sessions' = pty_sessions \cup {s}
                   /\ child' = [child EXCEPT ![s] = "running"]
                   /\ tasks' = [tasks EXCEPT ![t].pc = "spawned"]
              ELSE /\ tasks' = [tasks EXCEPT ![t] = Idle]
                   /\ child' = [child EXCEPT ![s] = "gone"]
                   /\ UNCHANGED pty_sessions
  /\ UNCHANGED <<sessions, listening, overlapped, ui, profiles>>

\* The listeners of pty-output and pty-exit are registered one by one.
Listen(t) ==
  /\ tasks[t].pc \in {"spawned", "output"}
  /\ tasks' = [tasks EXCEPT ![t].pc = IF @ = "spawned" THEN "output" ELSE "exit"]
  /\ listening' = IF tasks[t].pc = "output" THEN listening \cup {[sid |-> tasks[t].sid, key |-> tasks[t].key]}
                  ELSE listening
  /\ UNCHANGED <<sessions, overlapped, ui, pty_sessions, child, profiles, used, disk, acked>>

Opened(t) ==
  /\ tasks[t].pc = "exit"
  /\ sessions' = [sessions EXCEPT ![tasks[t].key] =
                    [sessionId |-> tasks[t].sid, profileId |-> tasks[t].key, exited |-> FALSE]]
  /\ tasks' = [tasks EXCEPT ![t] = Idle]
  /\ UNCHANGED <<listening, overlapped, ui, pty_sessions, child, profiles, used, disk, acked>>

(***************************************************************************)
(* Processes and reader threads.                                           *)
(***************************************************************************)
ChildExit(s) ==
  /\ child[s] = "running"
  /\ child' = [child EXCEPT ![s] = "exited"]
  /\ UNCHANGED <<sessions, tasks, listening, overlapped, ui, pty_sessions, profiles, used, disk, acked>>

\* Mutant: the listener does not compare the id of the session.
OnExit_any(s, k) ==
  sessions' = IF sessions[k] = NoSession THEN sessions ELSE [sessions EXCEPT ![k].exited = TRUE]

\* The listener of pty-exit.
OnExit(s, k) ==
  sessions' = IF sessions[k] = NoSession \/ sessions[k].sessionId # s THEN sessions
              ELSE [sessions EXCEPT ![k].exited = TRUE]

\* The reader thread meets the end of the output and emits pty-exit, which is
\* lost without a listener.
ReaderEnds(s) ==
  /\ child[s] = "exited" \/ (child[s] = "running" /\ s \notin pty_sessions)
  /\ child' = [child EXCEPT ![s] = "gone"]
  /\ \/ \E k \in Key : [sid |-> s, key |-> k] \in listening /\ OnExit(s, k)
     \/ (\A k \in Key : [sid |-> s, key |-> k] \notin listening) /\ UNCHANGED sessions
  /\ UNCHANGED <<tasks, listening, overlapped, ui, pty_sessions, profiles, used, disk, acked>>

\* write_pty and resize_pty: the session has to be there.
write_pty(s) == s \in pty_sessions

(***************************************************************************)
(* Properties.                                                             *)
(***************************************************************************)
\* A terminal that is on screen has its PTY: what is typed into it, and its
\* size, never meet "Session not found".  Clicks overlap with every await.
SessionsBacked == \A k \in Key : sessions[k] # NoSession => write_pty(sessions[k].sessionId)

\* "Close existing session for this profile if any": a PTY of the backend is
\* one of a session, or of a session that is being opened or closed.  Only
\* opening a session while it is being opened leaves a PTY without a session.
PtysOwned ==
  overlapped = {} =>
    \A s \in pty_sessions :
      \/ \E k \in Key : sessions[k] # NoSession /\ sessions[k].sessionId = s
      \/ \E t \in Task : \/ tasks[t].pc = "closing" /\ tasks[t].old = s
                         \/ tasks[t].pc \in {"spawned", "output", "exit"} /\ tasks[t].sid = s

\* A session shows "Process exited" only when its own process has ended, not
\* that of a session it has replaced.
ExitIsOwn == \A k \in Key : sessions[k] # NoSession /\ sessions[k].exited
                              => child[sessions[k].sessionId] = "gone"

\* A profile that was saved, as the front end was told, is on disk for the
\* next start, as long as no write was cut short, and it is listed.
SavedKept == acked \subseteq ToSet(disk.ids) /\ acked \subseteq ToSet(profiles)

=============================================================================
