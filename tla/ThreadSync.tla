----------------------------- MODULE ThreadSync -----------------------------
(***************************************************************************)
(* What the threads of a window wait on: the lock around the terminal      *)
(* (FairMutex), and on Windows the pipes of the pseudoconsole              *)
(* (WindowsPty).  The two share no state, so a behaviour is one of the     *)
(* lock or one of the pipes.                                               *)
(***************************************************************************)
EXTENDS FairMutex, WindowsPty

VARIABLE part

syncVars == <<mutexVars, pipeVars, part>>

InitSync == InitMutex /\ InitPipes /\ part \in {"lock", "pipes"}

NextSync ==
  \/ part = "lock" /\ NextMutex /\ UNCHANGED <<pipeVars, part>>
  \/ part = "pipes" /\ NextPipes /\ UNCHANGED <<mutexVars, part>>

SpecSync == InitSync /\ [][NextSync]_syncVars /\ FairnessMutex
=============================================================================
