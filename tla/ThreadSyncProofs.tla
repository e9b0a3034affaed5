-------------------------- MODULE ThreadSyncProofs --------------------------
(***************************************************************************)
(* What the threads of a window wait on, for any number of threads, every  *)
(* capacity of the pipes, every limit of pty_read and any number of items. *)
(*                                                                         *)
(* The mutex: GuardsHold with the type invariant is inductive; the two     *)
(* action properties follow from it, since every way to the data goes      *)
(* through `next`.                                                         *)
(*                                                                         *)
(* The pipes: NoLostWakeup is about a loop that waits.  The invariant      *)
(* follows a wake-up through the loop: there is always a waker in the      *)
(* pipe, a thread that is about to post, a packet that is posted or being  *)
(* handled, or the registration that is to post it.                        *)
(***************************************************************************)
EXTENDS ThreadSync, TLAPS

-----------------------------------------------------------------------------
(* The lock around the terminal.                                           *)

MutexInv == TypeOKMutex /\ GuardsHold

\* Initially nobody holds anything.
LEMMA MutexInvInit == InitMutex => MutexInv
  BY ThreadsAssumption
  DEF InitMutex, MutexInv, TypeOKMutex, GuardsHold, LockStates

\* A thread moves through its states and keeps its guards in step with them.
LEMMA MutexInvStep == MutexInv /\ [NextMutex]_mutexVars => MutexInv'
  <1> SUFFICES ASSUME MutexInv, [NextMutex]_mutexVars PROVE MutexInv'
    OBVIOUS
  <1> USE ThreadsAssumption
      DEF MutexInv, TypeOKMutex, GuardsHold, LockStates, Move
  <1>1. ASSUME NEW t \in Threads, lock(t) PROVE MutexInv'
    BY <1>1 DEF lock
  <1>2. ASSUME NEW t \in Threads, lease(t) PROVE MutexInv'
    BY <1>2 DEF lease
  <1>3. ASSUME NEW t \in Threads, LockNext(t) PROVE MutexInv'
    BY <1>3 DEF LockNext
  <1>4. ASSUME NEW t \in Threads, LockData(t) PROVE MutexInv'
    BY <1>4 DEF LockData
  <1>5. ASSUME NEW t \in Threads, LockReturn(t) PROVE MutexInv'
    BY <1>5 DEF LockReturn
  <1>6. ASSUME NEW t \in Threads, Unlock(t) PROVE MutexInv'
    BY <1>6 DEF Unlock
  <1>7. ASSUME NEW t \in Threads, LeaseNext(t) PROVE MutexInv'
    BY <1>7 DEF LeaseNext
  <1>8. ASSUME NEW t \in Threads, NeedData(t) PROVE MutexInv'
    BY <1>8 DEF NeedData
  <1>9. ASSUME NEW t \in Threads, try_lock_unfair(t) PROVE MutexInv'
    BY <1>9 DEF try_lock_unfair
  <1>10. ASSUME NEW t \in Threads, lock_unfair(t) PROVE MutexInv'
    BY <1>10 DEF lock_unfair
  <1>11. ASSUME NEW t \in Threads, LockUnfairData(t) PROVE MutexInv'
    BY <1>11 DEF LockUnfairData
  <1>12. ASSUME NEW t \in Threads, DropGuard(t) PROVE MutexInv'
    BY <1>12 DEF DropGuard
  <1>13. ASSUME NEW t \in Threads, DropLease(t) PROVE MutexInv'
    BY <1>13 DEF DropLease
  <1>14. CASE UNCHANGED mutexVars
    BY <1>14 DEF mutexVars
  <1> QED
    BY <1>1, <1>2, <1>3, <1>4, <1>5, <1>6, <1>7, <1>8, <1>9, <1>10, <1>11,
       <1>12, <1>13, <1>14 DEF NextMutex, Proceed

\* Whoever takes the data holds `next` at that moment.
LEMMA OnlyNextTakesData ==
  ASSUME MutexInv, NextMutex, data' # data
  PROVE  data' = NoThread \/ (data' \in Threads /\ next = data')
  BY DEF MutexInv, GuardsHold, NextMutex, Proceed, Move, lock, lease, LockNext,
         LockData, LockReturn, Unlock, LeaseNext, NeedData, try_lock_unfair,
         lock_unfair, LockUnfairData, DropGuard, DropLease

\* For any number of threads: a guard of the terminal is exclusive, and so is the
\* right to be next.
THEOREM GuardsAlwaysHold == SpecMutex => []GuardsHold
  <1>1. MutexInv => GuardsHold
    BY DEF MutexInv
  <1> QED
    BY <1>1, MutexInvInit, MutexInvStep, PTL DEF SpecMutex

\* For any number of threads: nobody takes the data while another thread waits
\* for it in lock().
THEOREM NeverBypassed == SpecMutex => NoBypass
  <1>1. MutexInv /\ [NextMutex]_mutexVars =>
          [\A t \in Threads :
             at[t] = "want_data" /\ data' # data => data' \in {NoThread, t}]_mutexVars
    <2> SUFFICES ASSUME MutexInv, [NextMutex]_mutexVars, NEW t \in Threads,
                        at[t] = "want_data", data' # data
                 PROVE  data' \in {NoThread, t}
      OBVIOUS
    <2>1. NextMutex
      BY DEF mutexVars
    <2>2. next = t
      BY DEF MutexInv, GuardsHold
    <2> QED
      BY <2>1, <2>2, OnlyNextTakesData
  <1> QED
    BY <1>1, MutexInvInit, MutexInvStep, PTL DEF SpecMutex, NoBypass

\* For any number of threads: a lease keeps everybody else from the data.
THEOREM LeaseAlwaysExcludes == SpecMutex => LeaseExcludes
  <1>1. MutexInv /\ [NextMutex]_mutexVars =>
          [\A t \in Threads :
             /\ at[t] \in {"leased", "trying", "want_unfair", "leased_locked"}
             /\ data' # data
             => data' \in {NoThread, t}]_mutexVars
    <2> SUFFICES ASSUME MutexInv, [NextMutex]_mutexVars, NEW t \in Threads,
                        at[t] \in {"leased", "trying", "want_unfair", "leased_locked"},
                        data' # data
                 PROVE  data' \in {NoThread, t}
      OBVIOUS
    <2>1. NextMutex
      BY DEF mutexVars
    <2>2. next = t
      BY DEF MutexInv, GuardsHold
    <2> QED
      BY <2>1, <2>2, OnlyNextTakesData
  <1> QED
    BY <1>1, MutexInvInit, MutexInvStep, PTL DEF SpecMutex, LeaseExcludes

-----------------------------------------------------------------------------
(* The pipes of the pseudoconsole.                                         *)

Places == {"register_conin", "register_conout", "register_child", "wait", "drain",
           "events", "read", "write", "exited"}

TypeOKPipes ==
  /\ pipe \in [Ends -> Nat]
  /\ thread \in [Ends -> {"run", "park", "wake"}]
  /\ token \in [Ends -> BOOLEAN]
  /\ threadWaker \in [Ends -> BOOLEAN]
  /\ waker \in [Ends -> BOOLEAN]
  /\ reg \in [Ends \cup {"child"} -> {"none", "read", "write"}]
  /\ first \in BOOLEAN
  /\ posted \in [Packets -> Nat]
  /\ place \in Places
  /\ batch \in [Packets -> Nat]
  /\ event \in {"none", "read", "write"}
  /\ writable \in BOOLEAN
  /\ processed \in Nat
  /\ missed \in [Ends \cup {"child"} -> BOOLEAN]
  /\ input \in Nat
  /\ queued \in Nat
  /\ notifiedLoop \in BOOLEAN
  /\ exit \in {"running", "exited", "reported"}

\* The batch is handled before the loop goes on, and interests follow the write list.
LoopInv ==
  /\ place \in {"register_conin", "register_conout", "register_child", "wait"}
       => Quiet(batch)
  /\ place \in {"register_conin", "register_conout", "register_child", "wait", "drain"}
       => (writable <=> queued # 0)
  /\ first => place \in {"register_conin", "register_conout"}
  /\ first \/ place = "exited" \/ reg["conout"] # "none"
  /\ writable /\ place \notin {"register_conin", "exited"} => reg["conin"] = "write"

\* Output in the pipe is on its way to be read.
OutInv ==
  /\ waker["conout"] => pipe["conout"] = 0
  /\ \/ waker["conout"] \/ missed["conout"] \/ thread["conout"] = "wake"
     \/ first \/ place \in {"read", "exited"}
     \/ \E k \in {"read", "write"} : posted[k] # 0 \/ batch[k] # 0

\* Input that waits is on its way to be written.
InInv ==
  /\ waker["conin"] => pipe["conin"] = PIPE_CAPACITY
  /\ writable /\ queued # 0 =>
       \/ waker["conin"] \/ missed["conin"] \/ thread["conin"] = "wake"
       \/ place \in {"register_conin", "write", "exited"}
       \/ place = "read" /\ event = "write"
       \/ posted["write"] # 0 \/ batch["write"] # 0

\* The exit of the program is on its way to be taken.
ExitInv ==
  exit = "reported" =>
    missed["child"] \/ place = "exited" \/ posted["child"] # 0 \/ batch["child"] # 0

\* A thread that is parked for good has left its waker in the pipe.
ParkInv ==
  \A e \in Ends : /\ thread[e] = "park" /\ ~token[e] => threadWaker[e]
                  /\ threadWaker[e] => Blocked(e)

PipesInv == TypeOKPipes /\ LoopInv /\ OutInv /\ InInv /\ ExitInv /\ ParkInv

\* The loop starts before it registered anything, with empty pipes.
LEMMA PipesInvInit == InitPipes => PipesInv
  <1> SUFFICES ASSUME InitPipes PROVE PipesInv
    OBVIOUS
  <1> USE PipesAssumption DEF InitPipes, Ends, Packets
  <1>1. TypeOKPipes BY DEF TypeOKPipes, Places
  <1>2. LoopInv BY DEF LoopInv, Quiet
  <1>3. OutInv /\ InInv BY DEF OutInv, InInv
  <1>4. ExitInv /\ ParkInv BY DEF ExitInv, ParkInv
  <1> QED BY <1>1, <1>2, <1>3, <1>4 DEF PipesInv

\* Every step of a thread, of the loop, of the interface and of the program keeps the
\* wake-ups that are under way.
LEMMA PipesInvStep == PipesInv /\ [NextPipes]_pipeVars => PipesInv'
  <1> SUFFICES ASSUME PipesInv, [NextPipes]_pipeVars PROVE PipesInv'
    OBVIOUS
  <1> USE PipesAssumption
      DEF PipesInv, Ends, Packets, Places, Quiet, Blocked, pipeVars, threadVars,
          loopState, inputVars, restOfThreads
  <1>1. ASSUME NEW e \in Ends, ThreadPending(e) PROVE PipesInv'
    <2>1. TypeOKPipes' BY <1>1 DEF ThreadPending, TypeOKPipes
    <2>2. LoopInv' BY <1>1 DEF ThreadPending, TypeOKPipes, LoopInv
    <2>3. OutInv' BY <1>1 DEF ThreadPending, TypeOKPipes, OutInv, LoopInv
    <2>4. InInv' BY <1>1 DEF ThreadPending, TypeOKPipes, InInv, LoopInv
    <2>5. ExitInv' BY <1>1 DEF ThreadPending, TypeOKPipes, ExitInv, LoopInv
    <2>6. ParkInv' BY <1>1 DEF ThreadPending, TypeOKPipes, ParkInv
    <2> QED BY <2>1, <2>2, <2>3, <2>4, <2>5, <2>6
  <1>2. ASSUME NEW e \in Ends, ThreadUnparked(e) PROVE PipesInv'
    <2>1. TypeOKPipes' BY <1>2 DEF ThreadUnparked, TypeOKPipes
    <2>2. LoopInv' BY <1>2 DEF ThreadUnparked, TypeOKPipes, LoopInv
    <2>3. OutInv' BY <1>2 DEF ThreadUnparked, TypeOKPipes, OutInv, LoopInv
    <2>4. InInv' BY <1>2 DEF ThreadUnparked, TypeOKPipes, InInv, LoopInv
    <2>5. ExitInv' BY <1>2 DEF ThreadUnparked, TypeOKPipes, ExitInv, LoopInv
    <2>6. ParkInv' BY <1>2 DEF ThreadUnparked, TypeOKPipes, ParkInv
    <2> QED BY <2>1, <2>2, <2>3, <2>4, <2>5, <2>6
  <1>3. ASSUME NEW e \in Ends, ThreadMoves(e) PROVE PipesInv'
    <2>1. TypeOKPipes' BY <1>3 DEF ThreadMoves, TypeOKPipes
    <2>2. LoopInv' BY <1>3 DEF ThreadMoves, TypeOKPipes, LoopInv
    <2>3. OutInv' BY <1>3 DEF ThreadMoves, TypeOKPipes, OutInv, LoopInv
    <2>4. InInv' BY <1>3 DEF ThreadMoves, TypeOKPipes, InInv, LoopInv
    <2>5. ExitInv' BY <1>3 DEF ThreadMoves, TypeOKPipes, ExitInv, LoopInv
    <2>6. ParkInv' BY <1>3 DEF ThreadMoves, TypeOKPipes, ParkInv
    <2> QED BY <2>1, <2>2, <2>3, <2>4, <2>5, <2>6
  <1>4. ASSUME NEW e \in Ends, ThreadWakes(e) PROVE PipesInv'
    <2>1. TypeOKPipes' BY <1>4 DEF ThreadWakes, Post, TypeOKPipes
    <2>2. LoopInv' BY <1>4 DEF ThreadWakes, Post, TypeOKPipes, LoopInv
    <2>3. OutInv' BY <1>4 DEF ThreadWakes, Post, TypeOKPipes, OutInv, LoopInv
    <2>4. InInv' BY <1>4 DEF ThreadWakes, Post, TypeOKPipes, InInv, LoopInv
    <2>5. ExitInv' BY <1>4 DEF ThreadWakes, Post, TypeOKPipes, ExitInv, LoopInv
    <2>6. ParkInv' BY <1>4 DEF ThreadWakes, Post, TypeOKPipes, ParkInv
    <2> QED BY <2>1, <2>2, <2>3, <2>4, <2>5, <2>6
  <1>5. CASE RegisterConin
    <2>1. TypeOKPipes' BY <1>5 DEF RegisterConin, Interest, Post, TypeOKPipes
    <2>2. LoopInv' BY <1>5 DEF RegisterConin, Interest, Post, TypeOKPipes, LoopInv
    <2>3. OutInv'
      BY <1>5 DEF RegisterConin, Interest, Post, TypeOKPipes, OutInv, LoopInv
    <2>4. InInv' BY <1>5 DEF RegisterConin, Interest, Post, TypeOKPipes, InInv, LoopInv
    <2>5. ExitInv'
      BY <1>5 DEF RegisterConin, Interest, Post, TypeOKPipes, ExitInv, LoopInv
    <2>6. ParkInv' BY <1>5 DEF RegisterConin, Interest, Post, TypeOKPipes, ParkInv
    <2> QED BY <2>1, <2>2, <2>3, <2>4, <2>5, <2>6
  <1>6. CASE RegisterConout
    <2>0. Interest \in {"read", "write"} BY DEF Interest
    <2>1. TypeOKPipes'
      <3>1. posted' \in [Packets -> Nat] BY <1>6, <2>0 DEF RegisterConout, Post, TypeOKPipes
      <3> QED BY <1>6, <2>0, <3>1 DEF RegisterConout, TypeOKPipes
    <2>2. LoopInv' BY <1>6 DEF RegisterConout, Interest, Post, TypeOKPipes, LoopInv
    <2>3. OutInv'
      BY <1>6 DEF RegisterConout, Interest, Post, TypeOKPipes, OutInv, LoopInv
    <2>4. InInv' BY <1>6 DEF RegisterConout, Interest, Post, TypeOKPipes, InInv, LoopInv
    <2>5. ExitInv'
      BY <1>6 DEF RegisterConout, Interest, Post, TypeOKPipes, ExitInv, LoopInv
    <2>6. ParkInv' BY <1>6 DEF RegisterConout, Interest, Post, TypeOKPipes, ParkInv
    <2> QED BY <2>1, <2>2, <2>3, <2>4, <2>5, <2>6
  <1>7. CASE RegisterChild
    <2>1. TypeOKPipes' BY <1>7 DEF RegisterChild, Interest, TypeOKPipes
    <2>2. LoopInv' BY <1>7 DEF RegisterChild, Interest, TypeOKPipes, LoopInv
    <2>3. OutInv' BY <1>7 DEF RegisterChild, Interest, TypeOKPipes, OutInv, LoopInv
    <2>4. InInv' BY <1>7 DEF RegisterChild, Interest, TypeOKPipes, InInv, LoopInv
    <2>5. ExitInv' BY <1>7 DEF RegisterChild, Interest, TypeOKPipes, ExitInv, LoopInv
    <2>6. ParkInv' BY <1>7 DEF RegisterChild, Interest, TypeOKPipes, ParkInv
    <2> QED BY <2>1, <2>2, <2>3, <2>4, <2>5, <2>6
  <1>8. CASE Wait
    <2>1. TypeOKPipes' BY <1>8 DEF Wait, TypeOKPipes
    <2>2. LoopInv' BY <1>8 DEF Wait, TypeOKPipes, LoopInv
    <2>3. OutInv' BY <1>8 DEF Wait, TypeOKPipes, OutInv, LoopInv
    <2>4. InInv' BY <1>8 DEF Wait, TypeOKPipes, InInv, LoopInv
    <2>5. ExitInv' BY <1>8 DEF Wait, TypeOKPipes, ExitInv, LoopInv
    <2>6. ParkInv' BY <1>8 DEF Wait, TypeOKPipes, ParkInv
    <2> QED BY <2>1, <2>2, <2>3, <2>4, <2>5, <2>6
  <1>9. CASE DrainChannel
    <2>1. TypeOKPipes' BY <1>9 DEF DrainChannel, TypeOKPipes
    <2>2. LoopInv' BY <1>9 DEF DrainChannel, TypeOKPipes, LoopInv
    <2>3. OutInv' BY <1>9 DEF DrainChannel, TypeOKPipes, OutInv, LoopInv
    <2>4. InInv' BY <1>9 DEF DrainChannel, TypeOKPipes, InInv, LoopInv
    <2>5. ExitInv' BY <1>9 DEF DrainChannel, TypeOKPipes, ExitInv, LoopInv
    <2>6. ParkInv' BY <1>9 DEF DrainChannel, TypeOKPipes, ParkInv
    <2> QED BY <2>1, <2>2, <2>3, <2>4, <2>5, <2>6
  <1>10. ASSUME NEW k \in Packets, TakeEvent(k) PROVE PipesInv'
    <2>1. TypeOKPipes' BY <1>10 DEF TakeEvent, TypeOKPipes
    <2>2. LoopInv' BY <1>10 DEF TakeEvent, TypeOKPipes, LoopInv
    <2>3. OutInv' BY <1>10 DEF TakeEvent, TypeOKPipes, OutInv, LoopInv
    <2>4. InInv' BY <1>10 DEF TakeEvent, TypeOKPipes, InInv, LoopInv
    <2>5. ExitInv' BY <1>10 DEF TakeEvent, TypeOKPipes, ExitInv, LoopInv
    <2>6. ParkInv' BY <1>10 DEF TakeEvent, TypeOKPipes, ParkInv
    <2> QED BY <2>1, <2>2, <2>3, <2>4, <2>5, <2>6
  <1>11. CASE ReadItems
    <2>1. TypeOKPipes' BY <1>11 DEF ReadItems, ReadEnds, Unpark, TypeOKPipes
    <2>2. LoopInv' BY <1>11 DEF ReadItems, ReadEnds, Unpark, TypeOKPipes, LoopInv
    <2>3. OutInv' BY <1>11 DEF ReadItems, ReadEnds, Unpark, TypeOKPipes, OutInv, LoopInv
    <2>4. InInv' BY <1>11 DEF ReadItems, ReadEnds, Unpark, TypeOKPipes, InInv, LoopInv
    <2>5. ExitInv'
      BY <1>11 DEF ReadItems, ReadEnds, Unpark, TypeOKPipes, ExitInv, LoopInv
    <2>6. ParkInv' BY <1>11 DEF ReadItems, ReadEnds, Unpark, TypeOKPipes, ParkInv
    <2> QED BY <2>1, <2>2, <2>3, <2>4, <2>5, <2>6
  <1>12. CASE ReadNothing
    <2>1. TypeOKPipes' BY <1>12 DEF ReadNothing, ReadEnds, TypeOKPipes
    <2>2. LoopInv' BY <1>12 DEF ReadNothing, ReadEnds, TypeOKPipes, LoopInv
    <2>3. OutInv' BY <1>12 DEF ReadNothing, ReadEnds, TypeOKPipes, OutInv, LoopInv
    <2>4. InInv' BY <1>12 DEF ReadNothing, ReadEnds, TypeOKPipes, InInv, LoopInv
    <2>5. ExitInv' BY <1>12 DEF ReadNothing, ReadEnds, TypeOKPipes, ExitInv, LoopInv
    <2>6. ParkInv' BY <1>12 DEF ReadNothing, ReadEnds, TypeOKPipes, ParkInv
    <2> QED BY <2>1, <2>2, <2>3, <2>4, <2>5, <2>6
  <1>13. CASE WriteItems
    <2>1. TypeOKPipes' BY <1>13 DEF WriteItems, Unpark, TypeOKPipes
    <2>2. LoopInv' BY <1>13 DEF WriteItems, Unpark, TypeOKPipes, LoopInv
    <2>3. OutInv' BY <1>13 DEF WriteItems, Unpark, TypeOKPipes, OutInv, LoopInv
    <2>4. InInv' BY <1>13 DEF WriteItems, Unpark, TypeOKPipes, InInv, LoopInv
    <2>5. ExitInv' BY <1>13 DEF WriteItems, Unpark, TypeOKPipes, ExitInv, LoopInv
    <2>6. ParkInv' BY <1>13 DEF WriteItems, Unpark, TypeOKPipes, ParkInv
    <2> QED BY <2>1, <2>2, <2>3, <2>4, <2>5, <2>6
  <1>14. CASE WriteNothing
    <2>1. TypeOKPipes' BY <1>14 DEF WriteNothing, TypeOKPipes
    <2>2. LoopInv' BY <1>14 DEF WriteNothing, TypeOKPipes, LoopInv
    <2>3. OutInv' BY <1>14 DEF WriteNothing, TypeOKPipes, OutInv, LoopInv
    <2>4. InInv' BY <1>14 DEF WriteNothing, TypeOKPipes, InInv, LoopInv
    <2>5. ExitInv' BY <1>14 DEF WriteNothing, TypeOKPipes, ExitInv, LoopInv
    <2>6. ParkInv' BY <1>14 DEF WriteNothing, TypeOKPipes, ParkInv
    <2> QED BY <2>1, <2>2, <2>3, <2>4, <2>5, <2>6
  <1>15. CASE RegisterAgain
    <2>1. TypeOKPipes' BY <1>15 DEF RegisterAgain, TypeOKPipes
    <2>2. LoopInv' BY <1>15 DEF RegisterAgain, TypeOKPipes, LoopInv
    <2>3. OutInv' BY <1>15 DEF RegisterAgain, TypeOKPipes, OutInv, LoopInv
    <2>4. InInv' BY <1>15 DEF RegisterAgain, TypeOKPipes, InInv, LoopInv
    <2>5. ExitInv' BY <1>15 DEF RegisterAgain, TypeOKPipes, ExitInv, LoopInv
    <2>6. ParkInv' BY <1>15 DEF RegisterAgain, TypeOKPipes, ParkInv
    <2> QED BY <2>1, <2>2, <2>3, <2>4, <2>5, <2>6
  <1>16. CASE Send
    <2>1. TypeOKPipes' BY <1>16 DEF Send, TypeOKPipes
    <2>2. LoopInv' BY <1>16 DEF Send, TypeOKPipes, LoopInv
    <2>3. OutInv' BY <1>16 DEF Send, TypeOKPipes, OutInv, LoopInv
    <2>4. InInv' BY <1>16 DEF Send, TypeOKPipes, InInv, LoopInv
    <2>5. ExitInv' BY <1>16 DEF Send, TypeOKPipes, ExitInv, LoopInv
    <2>6. ParkInv' BY <1>16 DEF Send, TypeOKPipes, ParkInv
    <2> QED BY <2>1, <2>2, <2>3, <2>4, <2>5, <2>6
  <1>17. CASE ProgramExits
    <2>1. TypeOKPipes' BY <1>17 DEF ProgramExits, TypeOKPipes
    <2>2. LoopInv' BY <1>17 DEF ProgramExits, TypeOKPipes, LoopInv
    <2>3. OutInv' BY <1>17 DEF ProgramExits, TypeOKPipes, OutInv, LoopInv
    <2>4. InInv' BY <1>17 DEF ProgramExits, TypeOKPipes, InInv, LoopInv
    <2>5. ExitInv' BY <1>17 DEF ProgramExits, TypeOKPipes, ExitInv, LoopInv
    <2>6. ParkInv' BY <1>17 DEF ProgramExits, TypeOKPipes, ParkInv
    <2> QED BY <2>1, <2>2, <2>3, <2>4, <2>5, <2>6
  <1>18. CASE child_exit_callback
    <2>1. TypeOKPipes' BY <1>18 DEF child_exit_callback, Post, TypeOKPipes
    <2>2. LoopInv' BY <1>18 DEF child_exit_callback, Post, TypeOKPipes, LoopInv
    <2>3. OutInv' BY <1>18 DEF child_exit_callback, Post, TypeOKPipes, OutInv, LoopInv
    <2>4. InInv' BY <1>18 DEF child_exit_callback, Post, TypeOKPipes, InInv, LoopInv
    <2>5. ExitInv'
      <3>1. CASE reg["child"] = "none"
        BY <1>18, <3>1 DEF child_exit_callback, TypeOKPipes, ExitInv
      <3>2. CASE reg["child"] # "none"
        <4>1. posted'["child"] # 0
          BY <1>18, <3>2 DEF child_exit_callback, Post, TypeOKPipes
        <4> QED BY <4>1 DEF ExitInv
      <3> QED BY <3>1, <3>2
    <2>6. ParkInv' BY <1>18 DEF child_exit_callback, Post, TypeOKPipes, ParkInv
    <2> QED BY <2>1, <2>2, <2>3, <2>4, <2>5, <2>6
  <1>19. CASE UNCHANGED pipeVars
    BY <1>19 DEF TypeOKPipes, LoopInv, OutInv, InInv, ExitInv, ParkInv
  <1> QED
    BY <1>1, <1>2, <1>3, <1>4, <1>5, <1>6, <1>7, <1>8, <1>9, <1>10, <1>11, <1>12, <1>13, <1>14, <1>15, <1>16, <1>17, <1>18, <1>19
    DEF NextPipes, ThreadStep, LoopStep

\* A loop that waits has handled its batch and has registered, so a wake-up that is
\* under way is a waker in the pipe or a thread that is about to post.
LEMMA PipesInvImplies == PipesInv => NoLostWakeup
  BY PipesAssumption
  DEF PipesInv, TypeOKPipes, LoopInv, OutInv, InInv, ExitInv, ParkInv, NoLostWakeup, Idle,
      Quiet, Packets, Ends

\* The PTY thread never waits over output it was not told of, over input that has room,
\* or over an exit, and no thread of a pipe stays parked over work, but for the cases of
\* `missed`: for every capacity and limit.
THEOREM WakeupsNeverLost == SpecPipes => []NoLostWakeup
  <1>1. SpecPipes => []PipesInv
    BY PipesInvInit, PipesInvStep, PTL DEF SpecPipes
  <1> QED
    BY <1>1, PipesInvImplies, PTL

-----------------------------------------------------------------------------
(* Both together.                                                          *)

\* A step of the pipes leaves the lock alone.
LEMMA SyncIsMutex == SpecSync => SpecMutex
  <1>1. InitSync => InitMutex
    BY DEF InitSync
  <1>2. [NextSync]_syncVars => [NextMutex]_mutexVars
    BY DEF NextSync, syncVars
  <1> QED
    BY <1>1, <1>2, PTL DEF SpecSync, SpecMutex

\* A step of the lock leaves the pipes alone.
LEMMA SyncIsPipes == SpecSync => SpecPipes
  <1>1. InitSync => InitPipes
    BY DEF InitSync
  <1>2. [NextSync]_syncVars => [NextPipes]_pipeVars
    BY DEF NextSync, syncVars
  <1> QED
    BY <1>1, <1>2, PTL DEF SpecSync, SpecPipes

\* The threads of a window: nobody passes a thread that waits in lock(), a lease keeps
\* the others from the terminal, and the PTY thread misses no wake-up of the pipes.
THEOREM ThreadsAlwaysInStep ==
  SpecSync => NoBypass /\ LeaseExcludes /\ []NoLostWakeup
  BY SyncIsMutex, SyncIsPipes, NeverBypassed, LeaseAlwaysExcludes, WakeupsNeverLost, PTL
=============================================================================
