----------------------------- MODULE FairMutex ------------------------------
(***************************************************************************)
(* The lock around the terminal (sync.rs): a mutex `data`, and a second    *)
(* mutex `next` that a thread holds while it waits for the first.          *)
(*                                                                         *)
(* A thread is in one of these states:                                     *)
(*   idle                                                                  *)
(*   lock()   want_next -> want_data -> have_both -> locked                *)
(*   lease()  want_lease -> leased                                         *)
(* The unfair locks are only ever taken under a lease, in pty_read of      *)
(* event_loop.rs: once it has read something (`trying`) it retries         *)
(* try_lock_unfair(), or blocks in lock_unfair() (`want_unfair`) when its  *)
(* buffer is full, keeps the guard (`leased_locked`) until it returns, and *)
(* drops it before the lease (`unlease`).                                  *)
(***************************************************************************)
CONSTANTS Threads, NoThread

ASSUME ThreadsAssumption == NoThread \notin Threads

VARIABLES data,    \* holder of the data mutex
          next,    \* holder of the next-to-access mutex
          at       \* state of every thread

mutexVars == <<data, next, at>>

LockStates == {"idle", "want_next", "want_data", "have_both", "locked",
               "want_lease", "leased", "trying", "want_unfair", "leased_locked",
               "unlease"}

InitMutex ==
  /\ data = NoThread
  /\ next = NoThread
  /\ at = [t \in Threads |-> "idle"]

Move(t, from, to) == at[t] = from /\ at' = [at EXCEPT ![t] = to]

-----------------------------------------------------------------------------
(* lock() and the release of its guard.                                    *)

lock(t) ==
  /\ Move(t, "idle", "want_next")
  /\ UNCHANGED <<data, next>>

\* Mutant: lock() does not wait for `next`, and does not hold it.
LockNext_unfair(t) ==
  /\ Move(t, "want_next", "want_data")
  /\ UNCHANGED <<data, next>>

LockNext(t) ==
  /\ next = NoThread
  /\ Move(t, "want_next", "want_data")
  /\ next' = t
  /\ UNCHANGED data

LockData(t) ==
  /\ data = NoThread
  /\ Move(t, "want_data", "have_both")
  /\ data' = t
  /\ UNCHANGED next

\* `_next` goes out of scope when lock() returns.
LockReturn(t) ==
  /\ Move(t, "have_both", "locked")
  /\ next' = NoThread
  /\ UNCHANGED data

Unlock(t) ==
  /\ Move(t, "locked", "idle")
  /\ data' = NoThread
  /\ UNCHANGED next

-----------------------------------------------------------------------------
(* lease() and what a thread does under it.                                *)

lease(t) ==
  /\ Move(t, "idle", "want_lease")
  /\ UNCHANGED <<data, next>>

\* Mutant: the lease is let go at once, as a guard bound to `_` would be.
LeaseNext_dropped(t) ==
  /\ next = NoThread
  /\ Move(t, "want_lease", "leased")
  /\ UNCHANGED <<data, next>>

LeaseNext(t) ==
  /\ next = NoThread
  /\ Move(t, "want_lease", "leased")
  /\ next' = t
  /\ UNCHANGED data

\* The PTY had something to read: from here on the data is needed.
NeedData(t) ==
  /\ Move(t, "leased", "trying")
  /\ UNCHANGED <<data, next>>

\* A call that succeeds; one that fails changes nothing and is made again.
try_lock_unfair(t) ==
  /\ data = NoThread
  /\ Move(t, "trying", "leased_locked")
  /\ data' = t
  /\ UNCHANGED next

lock_unfair(t) ==
  /\ Move(t, "trying", "want_unfair")
  /\ UNCHANGED <<data, next>>

LockUnfairData(t) ==
  /\ data = NoThread
  /\ Move(t, "want_unfair", "leased_locked")
  /\ data' = t
  /\ UNCHANGED next

DropGuard(t) ==
  /\ Move(t, "leased_locked", "unlease")
  /\ data' = NoThread
  /\ UNCHANGED next

\* The return from pty_read; without the guard if nothing could be read, or if
\* reading failed.
DropLease(t) ==
  /\ \E from \in {"leased", "trying", "unlease"} : Move(t, from, "idle")
  /\ next' = NoThread
  /\ UNCHANGED data

-----------------------------------------------------------------------------
\* What a thread does once it has begun to lock.
Proceed(t) ==
  \/ LockNext(t) \/ LockData(t) \/ LockReturn(t) \/ Unlock(t)
  \/ LeaseNext(t) \/ NeedData(t) \/ try_lock_unfair(t) \/ lock_unfair(t)
  \/ LockUnfairData(t) \/ DropGuard(t) \/ DropLease(t)

NextMutex == \E t \in Threads : lock(t) \/ lease(t) \/ Proceed(t)

\* Guards and leases are always dropped again.  parking_lot hands a mutex to a
\* waiting thread every so often, so a thread that keeps asking is served.
FairnessMutex ==
  \A t \in Threads : /\ SF_mutexVars(LockNext(t))
                     /\ SF_mutexVars(LeaseNext(t))
                     /\ WF_mutexVars(Proceed(t))

SpecMutex == InitMutex /\ [][NextMutex]_mutexVars /\ FairnessMutex

-----------------------------------------------------------------------------
(* Properties.                                                             *)

TypeOKMutex ==
  /\ data \in Threads \cup {NoThread}
  /\ next \in Threads \cup {NoThread}
  /\ at \in [Threads -> LockStates]

\* "If one thread is waiting [...] it will get the lock before a single thread can
\* re-lock it": while a thread waits in lock() for the data, nobody else takes it.
NoBypass ==
  [][\A t \in Threads :
       at[t] = "want_data" /\ data' # data => data' \in {NoThread, t}]_mutexVars

\* A lease "will prevent others from acquiring a terminal lock": the data changes
\* hands under a lease only to the thread that holds the lease.
LeaseExcludes ==
  [][\A t \in Threads :
       /\ at[t] \in {"leased", "trying", "want_unfair", "leased_locked"}
       /\ data' # data
       => data' \in {NoThread, t}]_mutexVars

\* The guards agree with the mutexes: whoever is past lock() or try_lock_unfair()
\* is the one holder of the data, and a thread that waits for the data, or that
\* leases, is the one holder of `next`.
GuardsHold ==
  \A t \in Threads :
    /\ data = t <=> at[t] \in {"have_both", "locked", "leased_locked"}
    /\ next = t <=> at[t] \in {"want_data", "have_both", "leased", "trying",
                               "want_unfair", "leased_locked", "unlease"}

\* Nobody waits for the terminal, or for a lease, forever.
ThreadsServed ==
  \A t \in Threads : /\ at[t] = "want_next" ~> at[t] = "locked"
                     /\ at[t] = "want_lease" ~> at[t] = "leased"
=============================================================================
