------------------------------ MODULE Manager ------------------------------
(***************************************************************************)
(* The manager (manager-tauri): its sessions and profiles with its file    *)
(* browser.  The browser follows the working directory that the shell of   *)
(* an open session reports.                                                *)
(***************************************************************************)
EXTENDS ManagerSessions, FileTree

CONSTANT Loads  \* what the user does in a behaviour

VARIABLE load   \* the member of Loads of this behaviour; it never changes

vars == <<load, sessionVars, fileVars>>

Init ==
  /\ load \in Loads
  /\ FileOps = load
  /\ SessionsInit
  /\ FilesInit

\* Bound: one profile when sessions are opened as well.
Addable == IF "sessions" \in load THEN {CHOOSE p \in Profile : TRUE} ELSE Profile

ProfileStep ==
  \/ \E id \in Addable, ok \in BOOLEAN :
       \/ add_profile_from_csv(id, ok)
       \/ \E started \in BOOLEAN : connect_profile(id, started, ok)
  \/ \E t \in Task, ok \in BOOLEAN :
       \/ \E id \in Addable : ConfirmAdd(t, id)
       \/ Upserting(t, ok)
       \/ list_profiles(t) \/ refreshProfiles(t)

\* Bound: one session less when the load is not about sessions alone.
Openable == IF load = {"sessions"} THEN SessionId ELSE SessionId \ {MaxSessions}

SessionStep ==
  \/ \E t \in Task :
       \/ \E k \in Key, s \in Openable : openTerminalSession(t, k, s)
       \/ close_pty(t) \/ Closed(t) \/ Listen(t) \/ Opened(t)
       \/ \E spawned \in BOOLEAN, saved \in BOOLEAN : spawn_pty(t, spawned, saved)
  \/ \E s \in SessionId : ChildExit(s) \/ ReaderEnds(s)

\* A shell reports its directory in the session it runs in.
Reported == \E k \in Key : sessions[k] # NoSession

FileStep == FilesNext /\ (fileBrowserRoot' # fileBrowserRoot => Reported)

Next ==
  /\ \/ /\ "profiles" \in load /\ (ProfileStep \/ Restart)
        /\ UNCHANGED fileVars
     \/ /\ "sessions" \in load /\ SessionStep
        /\ UNCHANGED fileVars
     \/ /\ "files" \in load /\ FileStep
        /\ UNCHANGED sessionVars
  /\ UNCHANGED load

Spec == Init /\ [][Next]_vars

=============================================================================
