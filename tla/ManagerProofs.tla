--------------------------- MODULE ManagerProofs ----------------------------
(***************************************************************************)
(* The sessions and the profiles of the manager, for any number of         *)
(* profiles, of sessions and of clicks that overlap.                       *)
(*                                                                         *)
(* An id of a session belongs to one owner at a time: to the function that *)
(* opens the session, to the entry of `sessions`, or to the function that  *)
(* closes the session it replaces.  A PTY is dropped by the last of these  *)
(* alone, so a session that is on screen keeps its PTY.                    *)
(***************************************************************************)
EXTENDS Manager, TLAPS

OpeningPcs == {"closing", "closed", "spawning", "spawned", "output", "exit"}

TaskType ==
  {Idle}
    \cup [pc : {"upserting", "refreshing"}, id : Profile]
    \cup [pc : {"listed"}, id : Profile, profiles : Seq(Profile)]
    \cup [pc : {"closing"}, key : Key, sid : SessionId, old : SessionId]
    \cup [pc : OpeningPcs \ {"closing"}, key : Key, sid : SessionId]

TypeOKSessions ==
  /\ sessions \in [Key -> SessionInfo \cup {NoSession}]
  /\ tasks \in [Task -> TaskType]
  /\ child \in [SessionId -> {"new", "named", "running", "exited", "gone"}]
  /\ pty_sessions \subseteq SessionId

\* The id of a session on screen is in use, it has its PTY and it is of that session alone.
SessionIds ==
  \A k \in Key : sessions[k] # NoSession =>
    /\ child[sessions[k].sessionId] # "new"
    /\ sessions[k].sessionId \in pty_sessions
    /\ \A m \in Key \ {k} :
         sessions[m] # NoSession => sessions[m].sessionId # sessions[k].sessionId

\* So is the id of a session that is being opened.
OpeningIds ==
  \A t \in Task : tasks[t].pc \in OpeningPcs =>
    /\ child[tasks[t].sid] # "new"
    /\ tasks[t].pc \in {"spawned", "output", "exit"} => tasks[t].sid \in pty_sessions
    /\ \A k \in Key : sessions[k] # NoSession => sessions[k].sessionId # tasks[t].sid
    /\ \A u \in Task \ {t} : tasks[u].pc \in OpeningPcs => tasks[u].sid # tasks[t].sid

\* The PTY that is being closed is nobody else's any more.
ClosingIds ==
  \A t \in Task : tasks[t].pc = "closing" =>
    /\ child[tasks[t].old] # "new"
    /\ \A k \in Key : sessions[k] # NoSession => sessions[k].sessionId # tasks[t].old
    /\ \A u \in Task : tasks[u].pc \in OpeningPcs => tasks[u].sid # tasks[t].old

\* Unless a session was opened while it was being opened, there is one at a time.
OneAtATime ==
  overlapped = {} =>
    \A t \in Task : tasks[t].pc \in OpeningPcs =>
      /\ sessions[tasks[t].key] = NoSession
      /\ \A u \in Task \ {t} : tasks[u].pc \in OpeningPcs => tasks[u].key # tasks[t].key

SessionsInv ==
  /\ TypeOKSessions /\ SessionIds /\ OpeningIds /\ ClosingIds
  /\ OneAtATime /\ PtysOwned /\ ExitIsOwn

\* The profiles in memory and on disk.
ProfilesInv == profiles \in Seq(Profile) /\ disk.ids \in Seq(Profile) /\ SavedKept

\* Nothing is open at the start.
LEMMA SessionsInvInit == SessionsInit => SessionsInv
  <1> SUFFICES ASSUME SessionsInit PROVE SessionsInv
    OBVIOUS
  <1>1. \A k \in Key : sessions[k] = NoSession
    BY DEF SessionsInit
  <1>2. \A t \in Task : tasks[t] = Idle
    BY DEF SessionsInit
  <1>3. TypeOKSessions
    BY DEF SessionsInit, TypeOKSessions, TaskType
  <1> QED
    BY <1>1, <1>2, <1>3 DEF SessionsInit, SessionsInv, SessionIds, OpeningIds,
       ClosingIds, OneAtATime, PtysOwned, ExitIsOwn, Idle, OpeningPcs


\* A new id belongs to the function that opens the session, the id of the session there
\* is to its closing.
LEMMA OpenKeeps ==
  ASSUME SessionsInv, NEW t \in Task, NEW k \in Key, NEW sid \in SessionId,
         openTerminalSession(t, k, sid)
  PROVE  SessionsInv'
  <1> USE DEF SessionsInv, TypeOKSessions, openTerminalSession, createProfileId,
      closeTerminalSession, TaskType, OpeningPcs
  <1>1. TypeOKSessions'
    BY DEF Idle, SessionInfo
  <1>2. SessionIds'
    BY DEF SessionIds, SessionInfo
  <1>3. OpeningIds'
    BY DEF OpeningIds, SessionIds, Idle, SessionInfo
  <1>4. ClosingIds'
    BY DEF ClosingIds, SessionIds, OpeningIds, Idle, SessionInfo
  <1>5. OneAtATime'
    <2> SUFFICES ASSUME overlapped' = {}
                 PROVE  \A u \in Task : tasks'[u].pc \in OpeningPcs =>
                          /\ sessions'[tasks'[u].key] = NoSession
                          /\ \A v \in Task \ {u} : tasks'[v].pc \in OpeningPcs
                               => tasks'[v].key # tasks'[u].key
      BY DEF OneAtATime
    <2>1. overlapped = {} /\ ~Opening(k)
      OBVIOUS
    <2>2. \A u \in Task \ {t} : tasks'[u] = tasks[u]
      OBVIOUS
    <2>3. tasks'[t].key = k /\ sessions'[k] = NoSession
      OBVIOUS
    <2>4. \A m \in Key : sessions[m] = NoSession => sessions'[m] = NoSession
      OBVIOUS
    <2>5. \A u \in Task : tasks[u].pc \in OpeningPcs => tasks[u].key \in Key \ {k}
      BY <2>1 DEF Opening, Idle
    <2> QED
      BY <2>1, <2>2, <2>3, <2>4, <2>5 DEF OneAtATime
  <1>6. PtysOwned'
    BY DEF PtysOwned, Idle, SessionInfo
  <1>7. ExitIsOwn'
    BY DEF ExitIsOwn, SessionIds, SessionInfo
  <1> QED
    BY <1>1, <1>2, <1>3, <1>4, <1>5, <1>6, <1>7

\* Dropping a PTY takes it from nobody.
LEMMA ClosePtyKeeps ==
  ASSUME SessionsInv, NEW t \in Task, close_pty(t)
  PROVE  SessionsInv'
  <1> USE DEF SessionsInv, TypeOKSessions, close_pty, TaskType, OpeningPcs
  <1>1. TypeOKSessions'
    BY DEF Idle, SessionInfo
  <1>2. SessionIds'
    BY DEF SessionIds, ClosingIds
  <1>3. OpeningIds'
    BY DEF OpeningIds, ClosingIds
  <1>4. ClosingIds'
    BY DEF ClosingIds
  <1>5. OneAtATime'
    BY DEF OneAtATime
  <1>6. PtysOwned'
    BY DEF PtysOwned
  <1>7. ExitIsOwn'
    BY DEF ExitIsOwn
  <1> QED
    BY <1>1, <1>2, <1>3, <1>4, <1>5, <1>6, <1>7

\* On to the new session.
LEMMA ClosedKeeps ==
  ASSUME SessionsInv, NEW t \in Task, Closed(t)
  PROVE  SessionsInv'
  <1> USE DEF SessionsInv, TypeOKSessions, Closed, TaskType, OpeningPcs
  <1>1. TypeOKSessions'
    BY DEF Idle, SessionInfo
  <1>2. SessionIds'
    BY DEF SessionIds
  <1>3. OpeningIds'
    BY DEF OpeningIds
  <1>4. ClosingIds'
    BY DEF ClosingIds
  <1>5. OneAtATime'
    BY DEF OneAtATime
  <1>6. PtysOwned'
    BY DEF PtysOwned
  <1>7. ExitIsOwn'
    BY DEF ExitIsOwn
  <1> QED
    BY <1>1, <1>2, <1>3, <1>4, <1>5, <1>6, <1>7

\* A new PTY belongs to the function that opens its session.
LEMMA SpawnKeeps ==
  ASSUME SessionsInv, NEW t \in Task, NEW spawned \in BOOLEAN,
         NEW saved \in BOOLEAN, spawn_pty(t, spawned, saved)
  PROVE  SessionsInv'
  <1> USE DEF SessionsInv, TypeOKSessions, spawn_pty, TaskType, OpeningPcs
  <1>1. TypeOKSessions'
    BY DEF Idle, SessionInfo
  <1>2. SessionIds'
    BY DEF SessionIds, OpeningIds, SessionInfo
  <1>3. OpeningIds'
    BY DEF OpeningIds, Idle
  <1>4. ClosingIds'
    BY DEF ClosingIds, Idle
  <1>5. OneAtATime'
    BY DEF OneAtATime, Idle
  <1>6. PtysOwned'
    BY DEF PtysOwned, Idle
  <1>7. ExitIsOwn'
    BY DEF ExitIsOwn, OpeningIds, SessionInfo
  <1> QED
    BY <1>1, <1>2, <1>3, <1>4, <1>5, <1>6, <1>7

\* Registering a listener moves no id.
LEMMA ListenKeeps ==
  ASSUME SessionsInv, NEW t \in Task, Listen(t)
  PROVE  SessionsInv'
  <1> USE DEF SessionsInv, TypeOKSessions, Listen, TaskType, OpeningPcs
  <1>1. TypeOKSessions'
    BY DEF Idle, SessionInfo
  <1>2. SessionIds'
    BY DEF SessionIds
  <1>3. OpeningIds'
    BY DEF OpeningIds
  <1>4. ClosingIds'
    BY DEF ClosingIds
  <1>5. OneAtATime'
    BY DEF OneAtATime
  <1>6. PtysOwned'
    BY DEF PtysOwned
  <1>7. ExitIsOwn'
    BY DEF ExitIsOwn
  <1> QED
    BY <1>1, <1>2, <1>3, <1>4, <1>5, <1>6, <1>7

\* The session that is entered takes its id from the function that opened it.
LEMMA OpenedKeeps ==
  ASSUME SessionsInv, NEW t \in Task, Opened(t)
  PROVE  SessionsInv'
  <1> USE SessionsAssumption DEF SessionsInv, TypeOKSessions, Opened, Idle, SessionInfo, TaskType, OpeningPcs
  <1>1. TypeOKSessions'
    OBVIOUS
  <1>2. SessionIds'
    BY DEF SessionIds, OpeningIds
  <1>3. OpeningIds'
    BY DEF OpeningIds
  <1>4. ClosingIds'
    BY DEF ClosingIds, OpeningIds
  <1>5. OneAtATime'
    BY DEF OneAtATime
  <1>6. PtysOwned'
    <2> SUFFICES ASSUME overlapped = {}, NEW s \in pty_sessions
                 PROVE  \/ \E k \in Key : sessions'[k] # NoSession /\ sessions'[k].sessionId = s
                        \/ \E u \in Task :
                             \/ tasks'[u].pc = "closing" /\ tasks'[u].old = s
                             \/ tasks'[u].pc \in {"spawned", "output", "exit"} /\ tasks'[u].sid = s
      BY DEF PtysOwned
    <2>1. sessions[tasks[t].key] = NoSession
      BY DEF OneAtATime
    <2>2. \A k \in Key : sessions[k] # NoSession => sessions'[k] = sessions[k]
      BY <2>1
    <2>3. \A u \in Task \ {t} : tasks'[u] = tasks[u]
      OBVIOUS
    <2>4. tasks[t].key \in Key /\ sessions'[tasks[t].key] # NoSession
      <3>1. tasks[t].key \in Key /\ tasks[t].sid \in SessionId
        OBVIOUS
      <3>2. sessions'[tasks[t].key] \in SessionInfo
        BY <3>1
      <3> QED
        BY <3>1, <3>2, SessionsAssumption
    <2>5. sessions'[tasks[t].key].sessionId = tasks[t].sid
      OBVIOUS
    <2> QED
      BY <2>2, <2>3, <2>4, <2>5 DEF PtysOwned
  <1>7. ExitIsOwn'
    BY DEF ExitIsOwn
  <1> QED
    BY <1>1, <1>2, <1>3, <1>4, <1>5, <1>6, <1>7

\* The end of a process leaves its PTY.
LEMMA ChildExitKeeps ==
  ASSUME SessionsInv, NEW s \in SessionId, ChildExit(s)
  PROVE  SessionsInv'
  <1> USE DEF SessionsInv, TypeOKSessions, ChildExit, TaskType, OpeningPcs
  <1>1. TypeOKSessions'
    BY DEF Idle, SessionInfo
  <1>2. SessionIds'
    BY DEF SessionIds, SessionInfo
  <1>3. OpeningIds'
    BY DEF OpeningIds
  <1>4. ClosingIds'
    BY DEF ClosingIds
  <1>5. OneAtATime'
    BY DEF OneAtATime
  <1>6. PtysOwned'
    BY DEF PtysOwned
  <1>7. ExitIsOwn'
    BY DEF ExitIsOwn, SessionInfo
  <1> QED
    BY <1>1, <1>2, <1>3, <1>4, <1>5, <1>6, <1>7

\* The end of a reader is shown by the session of its own process.
LEMMA ReaderEndsKeeps ==
  ASSUME SessionsInv, NEW s \in SessionId, ReaderEnds(s)
  PROVE  SessionsInv'
  <1>1. /\ UNCHANGED <<tasks, overlapped, pty_sessions>>
        /\ child' = [child EXCEPT ![s] = "gone"]
    BY DEF ReaderEnds
  <1>2. /\ sessions' \in [Key -> SessionInfo \cup {NoSession}]
        /\ \A k \in Key : /\ sessions'[k] = NoSession <=> sessions[k] = NoSession
                          /\ sessions[k] # NoSession =>
                               /\ sessions'[k].sessionId = sessions[k].sessionId
                               /\ sessions'[k].exited => sessions[k].exited \/ sessions[k].sessionId = s
    <2>1. CASE UNCHANGED sessions
      BY <2>1 DEF SessionsInv, TypeOKSessions
    <2>2. ASSUME NEW m \in Key, sessions[m] # NoSession, sessions[m].sessionId = s,
                 sessions' = [sessions EXCEPT ![m].exited = TRUE]
          PROVE  <1>2!:
      BY <2>2, SessionsAssumption DEF SessionsInv, TypeOKSessions, SessionInfo
    <2> QED
      BY <2>1, <2>2 DEF ReaderEnds, OnExit
  <1>3. TypeOKSessions'
    BY <1>1, <1>2 DEF SessionsInv, TypeOKSessions
  <1>4. \A k \in Key : sessions[k] # NoSession => sessions[k].sessionId \in SessionId
    BY DEF SessionsInv, TypeOKSessions, SessionInfo
  <1> USE DEF SessionsInv, TypeOKSessions, TaskType, OpeningPcs
  <1>5. SessionIds'
    BY <1>1, <1>2, <1>4 DEF SessionIds
  <1>6. OpeningIds'
    BY <1>1, <1>2, <1>4 DEF OpeningIds
  <1>7. ClosingIds'
    BY <1>1, <1>2, <1>4 DEF ClosingIds
  <1>8. OneAtATime'
    <2>1. \A t \in Task : tasks[t].pc \in OpeningPcs => tasks[t].key \in Key
      BY DEF Idle
    <2> QED
      BY <1>1, <1>2, <2>1 DEF OneAtATime
  <1>9. PtysOwned'
    BY <1>1, <1>2 DEF PtysOwned
  <1>10. ExitIsOwn'
    BY <1>1, <1>2, <1>4 DEF ExitIsOwn
  <1> QED
    BY <1>3, <1>5, <1>6, <1>7, <1>8, <1>9, <1>10

\* A restart closes everything.
LEMMA RestartKeeps ==
  ASSUME SessionsInv, Restart
  PROVE  SessionsInv'
  <1>1. \A k \in Key : sessions'[k] = NoSession
    BY DEF Restart
  <1>2. \A t \in Task : tasks'[t] = Idle
    BY DEF Restart
  <1>3. TypeOKSessions'
    BY DEF Restart, SessionsInv, TypeOKSessions, TaskType
  <1>4. pty_sessions' = {}
    BY DEF Restart
  <1> QED
    BY <1>1, <1>2, <1>3, <1>4 DEF SessionsInv, SessionIds, OpeningIds, ClosingIds,
       OneAtATime, PtysOwned, ExitIsOwn, Idle, OpeningPcs

\* A function that opens no session owns no id.
LEMMA OtherTaskKeeps ==
  ASSUME SessionsInv, NEW t \in Task, tasks[t].pc \notin OpeningPcs,
         NEW r \in TaskType, r.pc \notin OpeningPcs, tasks' = [tasks EXCEPT ![t] = r],
         UNCHANGED <<sessions, overlapped, pty_sessions, child>>
  PROVE  SessionsInv'
  <1>1. \A u \in Task : tasks'[u].pc \in OpeningPcs => tasks'[u] = tasks[u]
    BY DEF SessionsInv, TypeOKSessions
  <1>2. \A u \in Task : tasks[u].pc \in OpeningPcs => tasks'[u] = tasks[u]
    BY DEF SessionsInv, TypeOKSessions
  <1>3. TypeOKSessions'
    BY DEF SessionsInv, TypeOKSessions
  <1>4. SessionIds' /\ ExitIsOwn'
    BY DEF SessionsInv, SessionIds, ExitIsOwn
  <1>5. OpeningIds'
    BY <1>1 DEF SessionsInv, OpeningIds, OpeningPcs
  <1>6. ClosingIds'
    BY <1>1 DEF SessionsInv, ClosingIds, OpeningPcs
  <1>7. OneAtATime'
    BY <1>1 DEF SessionsInv, OneAtATime
  <1>8. PtysOwned'
    BY <1>2 DEF SessionsInv, PtysOwned, OpeningPcs
  <1> QED
    BY <1>3, <1>4, <1>5, <1>6, <1>7, <1>8 DEF SessionsInv

-----------------------------------------------------------------------------
(* The profiles.                                                           *)

\* What is written holds everything that was acknowledged; what could not be written is
\* forgotten with the file, or the file is as it was.
LEMMA PersistKeeps ==
  ASSUME ProfilesInv, NEW ids \in SUBSET Profile, NEW set, NEW ok \in BOOLEAN,
         profiles' \in Seq(Profile), ToSet(profiles) \cup ids \subseteq ToSet(profiles'),
         persist_profiles(profiles', set, ok), Forget(ids, ok)
  PROVE  ProfilesInv'
  <1>1. disk'.ids \in Seq(Profile)
    <2>1. CASE disk' = Keep(profiles', set)
      BY <2>1 DEF Keep
    <2>2. CASE disk' = disk
      BY <2>2 DEF ProfilesInv
    <2>3. CASE disk' = [ids |-> <<>>, used |-> {}, torn |-> TRUE]
      BY <2>3
    <2> QED
      BY <2>1, <2>2, <2>3 DEF persist_profiles
  <1>2. acked' \subseteq ToSet(profiles')
    BY DEF Forget, ProfilesInv, SavedKept
  <1>3. acked' \subseteq ToSet(disk'.ids)
    <2>1. CASE ok
      BY <2>1, <1>2 DEF persist_profiles, Keep
    <2>2. CASE ~ok
      BY <2>2 DEF persist_profiles, Forget, ProfilesInv, SavedKept
    <2> QED
      BY <2>1, <2>2
  <1> QED
    BY <1>1, <1>2, <1>3 DEF ProfilesInv, SavedKept

\* The members of a list with one more profile.
LEMMA OneMore ==
  ASSUME NEW q \in Seq(Profile), NEW id \in Profile
  PROVE  /\ Append(q, id) \in Seq(Profile) /\ <<id>> \o q \in Seq(Profile)
         /\ ToSet(q) \cup {id} \subseteq ToSet(Append(q, id))
         /\ ToSet(q) \cup {id} \subseteq ToSet(<<id>> \o q)
  <1>1. ASSUME NEW k \in DOMAIN q
        PROVE  /\ k \in DOMAIN Append(q, id) /\ Append(q, id)[k] = q[k]
               /\ k + 1 \in DOMAIN (<<id>> \o q) /\ (<<id>> \o q)[k + 1] = q[k]
    OBVIOUS
  <1>2. /\ Len(q) + 1 \in DOMAIN Append(q, id) /\ Append(q, id)[Len(q) + 1] = id
        /\ 1 \in DOMAIN (<<id>> \o q) /\ (<<id>> \o q)[1] = id
    OBVIOUS
  <1>3. ToSet(q) \cup {id} \subseteq ToSet(Append(q, id))
    BY <1>1, <1>2 DEF ToSet
  <1>4. ToSet(q) \cup {id} \subseteq ToSet(<<id>> \o q)
    <2> DEFINE longer == <<id>> \o q
    <2>1. \A k \in DOMAIN q : \E m \in DOMAIN longer : longer[m] = q[k]
      BY <1>1
    <2>2. \E m \in DOMAIN longer : longer[m] = id
      BY <1>2
    <2> HIDE DEF longer
    <2>3. ToSet(q) \cup {id} \subseteq ToSet(longer)
      BY <2>1, <2>2 DEF ToSet
    <2> QED
      BY <2>3 DEF longer
  <1> QED
    BY <1>3, <1>4

\* A profile that is saved again, or for the first time.
LEMMA UpsertKeeps ==
  ASSUME ProfilesInv, NEW id \in Profile, NEW ok \in BOOLEAN, upsert_profile(id, ok)
  PROVE  ProfilesInv'
  <1>1. profiles' \in Seq(Profile) /\ ToSet(profiles) \cup {id} \subseteq ToSet(profiles')
    BY OneMore DEF upsert_profile, ProfilesInv
  <1> QED
    BY <1>1, PersistKeeps DEF upsert_profile

\* A profile from a line of text comes first.
LEMMA CsvKeeps ==
  ASSUME ProfilesInv, NEW id \in Profile, NEW ok \in BOOLEAN, add_profile_from_csv(id, ok)
  PROVE  ProfilesInv'
  <1>1. profiles' \in Seq(Profile) /\ ToSet(profiles) \cup {id} \subseteq ToSet(profiles')
    BY OneMore DEF add_profile_from_csv, ProfilesInv
  <1> QED
    BY <1>1, PersistKeeps DEF add_profile_from_csv

\* Connecting saves the list as it is, or nothing.
LEMMA ConnectKeeps ==
  ASSUME ProfilesInv, NEW id \in Profile, NEW started \in BOOLEAN, NEW ok \in BOOLEAN,
         connect_profile(id, started, ok)
  PROVE  ProfilesInv'
  <1>1. profiles' = profiles /\ profiles' \in Seq(Profile) /\ Forget({}, ok)
    BY DEF connect_profile, ProfilesInv
  <1>2. CASE started
    <2>1. persist_profiles(profiles', used', ok)
      BY <1>1, <1>2 DEF connect_profile
    <2> QED
      BY <1>1, <2>1, PersistKeeps
  <1>3. CASE ~started
    BY <1>1, <1>3 DEF connect_profile, ProfilesInv, SavedKept, Forget
  <1> QED
    BY <1>2, <1>3

\* So does opening a session.
LEMMA SpawnSaves ==
  ASSUME ProfilesInv, NEW t \in Task, NEW spawned \in BOOLEAN, NEW saved \in BOOLEAN,
         spawn_pty(t, spawned, saved)
  PROVE  ProfilesInv'
  <1>1. profiles' = profiles /\ profiles' \in Seq(Profile)
    BY DEF spawn_pty, ProfilesInv
  <1>2. CASE tasks[t].key \in ToSet(profiles)
    <2>1. persist_profiles(profiles', used', saved) /\ Forget({}, saved)
      BY <1>1, <1>2 DEF spawn_pty
    <2> QED
      BY <1>1, <2>1, PersistKeeps
  <1>3. CASE tasks[t].key \notin ToSet(profiles)
    BY <1>1, <1>3 DEF spawn_pty, ProfilesInv, SavedKept
  <1> QED
    BY <1>2, <1>3

\* A restart reads what was acknowledged, unless the file was torn.
LEMMA RestartSaves ==
  ASSUME ProfilesInv, Restart
  PROVE  ProfilesInv'
  <1>1. CASE disk' = disk
    BY <1>1 DEF Restart, ProfilesInv, SavedKept, read_profiles, ToSet
  <1>2. CASE disk' = [ids |-> <<>>, used |-> {}, torn |-> TRUE]
    BY <1>2 DEF Restart, ProfilesInv, SavedKept, read_profiles, ToSet
  <1> QED
    BY <1>1, <1>2 DEF Restart

-----------------------------------------------------------------------------
(* The manager.                                                            *)

ManagerInv == SessionsInv /\ ProfilesInv

\* At the start there is neither a session nor a profile.
LEMMA ManagerInvInit == Init => ManagerInv
  <1> SUFFICES ASSUME Init PROVE ManagerInv
    OBVIOUS
  <1>1. SessionsInv
    BY SessionsInvInit DEF Init
  <1>2. ProfilesInv
    BY DEF Init, SessionsInit, Keep, ProfilesInv, SavedKept
  <1> QED
    BY <1>1, <1>2 DEF ManagerInv

\* The commands on profiles and the function that adds one.
LEMMA ProfileStepKeeps ==
  ASSUME ManagerInv, ProfileStep
  PROVE  ManagerInv'
  <1> USE DEF ManagerInv
  <1>1. Addable \subseteq Profile
    BY SessionsAssumption DEF Addable
  <1>2. ASSUME UNCHANGED <<sessions, tasks, overlapped, pty_sessions, child>>
        PROVE  SessionsInv'
    BY <1>2 DEF SessionsInv, TypeOKSessions, SessionIds, OpeningIds, ClosingIds,
                OneAtATime, PtysOwned, ExitIsOwn
  <1>3. ASSUME UNCHANGED <<profiles, disk, acked>>
        PROVE  ProfilesInv'
    BY <1>3 DEF ProfilesInv, SavedKept
  <1>4. ASSUME NEW id \in Addable, NEW ok \in BOOLEAN, add_profile_from_csv(id, ok)
        PROVE  ManagerInv'
    BY <1>1, <1>2, <1>4, CsvKeeps DEF add_profile_from_csv, uiVars
  <1>5. ASSUME NEW id \in Addable, NEW started \in BOOLEAN, NEW ok \in BOOLEAN,
               connect_profile(id, started, ok)
        PROVE  ManagerInv'
    BY <1>1, <1>2, <1>5, ConnectKeeps DEF connect_profile, uiVars
  <1>6. ASSUME NEW t \in Task, NEW id \in Addable, ConfirmAdd(t, id)
        PROVE  ManagerInv'
    <2> DEFINE r == [pc |-> "upserting", id |-> id]
    <2>1. r \in TaskType /\ r.pc \notin OpeningPcs /\ tasks[t].pc \notin OpeningPcs
      BY <1>1, <1>6 DEF ConfirmAdd, TaskType, OpeningPcs, Idle
    <2>2. tasks' = [tasks EXCEPT ![t] = r]
      BY <1>6 DEF ConfirmAdd
    <2> HIDE DEF r
    <2>3. SessionsInv'
      BY <1>6, <2>1, <2>2, OtherTaskKeeps DEF ConfirmAdd
    <2> QED
      BY <1>3, <1>6, <2>3 DEF ConfirmAdd
  <1>7. ASSUME NEW t \in Task, NEW ok \in BOOLEAN, Upserting(t, ok)
        PROVE  ManagerInv'
    <2> DEFINE r == IF ok THEN [pc |-> "refreshing", id |-> tasks[t].id] ELSE Idle
    <2>1. tasks[t] \in TaskType /\ tasks[t].pc = "upserting"
      BY <1>7 DEF Upserting, SessionsInv, TypeOKSessions
    <2>2. tasks[t].id \in Profile
      BY <2>1 DEF TaskType, OpeningPcs, Idle
    <2>3. r \in TaskType /\ r.pc \notin OpeningPcs /\ tasks[t].pc \notin OpeningPcs
      BY <2>1, <2>2 DEF TaskType, OpeningPcs, Idle
    <2>4. tasks' = [tasks EXCEPT ![t] = r]
      BY <1>7 DEF Upserting
    <2> HIDE DEF r
    <2>5. SessionsInv'
      BY <1>7, <2>3, <2>4, OtherTaskKeeps DEF Upserting
    <2>6. ProfilesInv'
      BY <1>7, <2>2, UpsertKeeps DEF Upserting
    <2> QED
      BY <2>5, <2>6
  <1>8. ASSUME NEW t \in Task, list_profiles(t)
        PROVE  ManagerInv'
    <2> DEFINE r == [pc |-> "listed", id |-> tasks[t].id, profiles |-> profiles]
    <2>1. tasks[t] \in TaskType /\ tasks[t].pc = "refreshing" /\ profiles \in Seq(Profile)
      BY <1>8 DEF list_profiles, SessionsInv, TypeOKSessions, ProfilesInv
    <2>2. tasks[t].id \in Profile
      BY <2>1 DEF TaskType, OpeningPcs, Idle
    <2>3. r \in TaskType /\ r.pc \notin OpeningPcs /\ tasks[t].pc \notin OpeningPcs
      BY <2>1, <2>2 DEF TaskType, OpeningPcs
    <2>4. tasks' = [tasks EXCEPT ![t] = r]
      BY <1>8 DEF list_profiles
    <2> HIDE DEF r
    <2>5. SessionsInv'
      BY <1>8, <2>3, <2>4, OtherTaskKeeps DEF list_profiles
    <2> QED
      BY <1>3, <1>8, <2>5 DEF list_profiles
  <1>9. ASSUME NEW t \in Task, refreshProfiles(t)
        PROVE  ManagerInv'
    <2>1. Idle \in TaskType /\ Idle.pc \notin OpeningPcs /\ tasks[t].pc \notin OpeningPcs
      BY <1>9 DEF refreshProfiles, TaskType, OpeningPcs, Idle
    <2>2. SessionsInv'
      BY <1>9, <2>1, OtherTaskKeeps DEF refreshProfiles
    <2> QED
      BY <1>3, <1>9, <2>2 DEF refreshProfiles
  <1> QED
    BY <1>4, <1>5, <1>6, <1>7, <1>8, <1>9 DEF ProfileStep

\* Opening and closing sessions, and the ends of processes.
LEMMA SessionStepKeeps ==
  ASSUME ManagerInv, SessionStep
  PROVE  ManagerInv'
  <1> USE DEF ManagerInv
  <1>1. Openable \subseteq SessionId
    BY DEF Openable
  <1>2. ASSUME UNCHANGED <<profiles, disk, acked>>
        PROVE  ProfilesInv'
    BY <1>2 DEF ProfilesInv, SavedKept
  <1>3. ASSUME NEW t \in Task, NEW k \in Key, NEW s \in Openable, openTerminalSession(t, k, s)
        PROVE  ManagerInv'
    <2>1. SessionsInv'
      BY <1>1, <1>3, OpenKeeps
    <2> QED
      BY <1>2, <1>3, <2>1 DEF openTerminalSession
  <1>4. ASSUME NEW t \in Task, close_pty(t)
        PROVE  ManagerInv'
    BY <1>2, <1>4, ClosePtyKeeps DEF close_pty
  <1>5. ASSUME NEW t \in Task, Closed(t)
        PROVE  ManagerInv'
    BY <1>2, <1>5, ClosedKeeps DEF Closed
  <1>6. ASSUME NEW t \in Task, Listen(t)
        PROVE  ManagerInv'
    BY <1>2, <1>6, ListenKeeps DEF Listen
  <1>7. ASSUME NEW t \in Task, Opened(t)
        PROVE  ManagerInv'
    BY <1>2, <1>7, OpenedKeeps DEF Opened
  <1>8. ASSUME NEW t \in Task, NEW spawned \in BOOLEAN, NEW saved \in BOOLEAN,
               spawn_pty(t, spawned, saved)
        PROVE  ManagerInv'
    BY <1>8, SpawnKeeps, SpawnSaves
  <1>9. ASSUME NEW s \in SessionId, ChildExit(s)
        PROVE  ManagerInv'
    BY <1>2, <1>9, ChildExitKeeps DEF ChildExit
  <1>10. ASSUME NEW s \in SessionId, ReaderEnds(s)
         PROVE  ManagerInv'
    BY <1>2, <1>10, ReaderEndsKeeps DEF ReaderEnds
  <1> QED
    BY <1>3, <1>4, <1>5, <1>6, <1>7, <1>8, <1>9, <1>10 DEF SessionStep

\* Every step of the manager; the file browser touches neither.
LEMMA ManagerInvStep == ManagerInv /\ [Next]_vars => ManagerInv'
  <1> SUFFICES ASSUME ManagerInv, [Next]_vars PROVE ManagerInv'
    OBVIOUS
  <1>1. CASE ProfileStep
    BY <1>1, ProfileStepKeeps
  <1>2. CASE SessionStep
    BY <1>2, SessionStepKeeps
  <1>3. CASE Restart
    BY <1>3, RestartKeeps, RestartSaves DEF ManagerInv
  <1>4. CASE UNCHANGED sessionVars
    <2> USE <1>4 DEF sessionVars, ManagerInv, SessionsInv
    <2>1. TypeOKSessions'
      BY DEF TypeOKSessions
    <2>2. SessionIds' /\ ExitIsOwn'
      BY DEF SessionIds, ExitIsOwn
    <2>3. OpeningIds' /\ ClosingIds'
      BY DEF OpeningIds, ClosingIds
    <2>4. OneAtATime' /\ PtysOwned'
      BY DEF OneAtATime, PtysOwned
    <2>5. ProfilesInv'
      BY DEF ProfilesInv, SavedKept
    <2> QED
      BY <2>1, <2>2, <2>3, <2>4, <2>5
  <1> QED
    BY <1>1, <1>2, <1>3, <1>4 DEF Next, vars

\* The invariant holds in every state.
LEMMA ManagerInvAlways == Spec => []ManagerInv
  BY ManagerInvInit, ManagerInvStep, PTL DEF Spec

\* A terminal on screen has its PTY, however openings, closings and restarts overlap: what
\* write_pty and resize_pty are asked for is there.
THEOREM SessionsAlwaysBacked == Spec => []SessionsBacked
  <1>1. ManagerInv => SessionsBacked
    BY DEF ManagerInv, SessionsInv, SessionIds, SessionsBacked, write_pty
  <1> QED
    BY <1>1, ManagerInvAlways, PTL

\* close_pty takes the PTY of the session that is replaced and of no other, so every PTY
\* of pty_sessions has a session or a function that works on it.
THEOREM PtysAlwaysOwned == Spec => []PtysOwned
  <1>1. ManagerInv => PtysOwned
    BY DEF ManagerInv, SessionsInv
  <1> QED
    BY <1>1, ManagerInvAlways, PTL

\* The listener of pty-exit marks a session whose own process has ended.
THEOREM ExitAlwaysOwn == Spec => []ExitIsOwn
  <1>1. ManagerInv => ExitIsOwn
    BY DEF ManagerInv, SessionsInv
  <1> QED
    BY <1>1, ManagerInvAlways, PTL

\* A profile whose saving was acknowledged is in the list and in the file that the next
\* start reads, as long as no write was cut short.
THEOREM SavedAlwaysKept == Spec => []SavedKept
  <1>1. ManagerInv => SavedKept
    BY DEF ManagerInv, ProfilesInv
  <1> QED
    BY <1>1, ManagerInvAlways, PTL
=============================================================================
