------------------------------ MODULE LockManager ------------------------------
(***************************************************************************)
(* infrastructure.LockManager: a map from keys to mutexes, created on the  *)
(* first use of a key and never removed, guarded by the mutex mu.  Every   *)
(* thread calls With(key, fn) again and again.                             *)
(***************************************************************************)
CONSTANTS
  Threads, Keys,
  Mutexes,             \* the *sync.Mutex values an allocation can return
  NoThread, NoMutex, NoKey

ASSUME NullAssumption == NoThread \notin Threads /\ NoMutex \notin Mutexes /\ NoKey \notin Keys

VARIABLES
  mu,       \* the holder of LockManager.mu
  locks,    \* the map: NoMutex for an absent key
  created,  \* the mutexes allocated so far
  holder,   \* mutex -> the thread that holds it
  pc,
  key,      \* the argument of the call
  l         \* the mutex that lockFor found or made

vars == <<mu, locks, created, holder, pc, key, l>>

ControlPoints == {"idle", "lockFor", "find", "create", "found", "wait", "fn"}

TypeOK ==
  /\ mu \in Threads \cup {NoThread}
  /\ locks \in [Keys -> Mutexes \cup {NoMutex}]
  /\ created \subseteq Mutexes
  /\ holder \in [Mutexes -> Threads \cup {NoThread}]
  /\ pc \in [Threads -> ControlPoints]
  /\ key \in [Threads -> Keys]
  /\ l \in [Threads -> Mutexes \cup {NoMutex}]

Init ==
  /\ mu = NoThread
  /\ locks = [k \in Keys |-> NoMutex]
  /\ created = {}
  /\ holder = [m \in Mutexes |-> NoThread]
  /\ pc = [t \in Threads |-> "idle"]
  /\ key \in [Threads -> Keys]
  /\ l = [t \in Threads |-> NoMutex]

Goto(t, from, to) == pc[t] = from /\ pc' = [pc EXCEPT ![t] = to]

With(t, k) ==
  /\ Goto(t, "idle", "lockFor")
  /\ key' = [key EXCEPT ![t] = k]
  /\ UNCHANGED <<mu, locks, created, holder, l>>

\* Mutant of LockMu: the map is used without its mutex.
LockMuNot(t) ==
  /\ Goto(t, "lockFor", "find")
  /\ mu' = t
  /\ UNCHANGED <<locks, created, holder, key, l>>

LockMu(t) ==
  /\ mu = NoThread
  /\ Goto(t, "lockFor", "find")
  /\ mu' = t
  /\ UNCHANGED <<locks, created, holder, key, l>>

\* l, ok := lm.locks[key]
Find(t) ==
  /\ \/ locks[key[t]] # NoMutex /\ Goto(t, "find", "found")
     \/ locks[key[t]] = NoMutex /\ Goto(t, "find", "create")
  /\ l' = [l EXCEPT ![t] = locks[key[t]]]
  /\ UNCHANGED <<mu, locks, created, holder, key>>

\* An allocation returns a mutex that nobody else has.
Create(t) ==
  /\ Goto(t, "create", "found")
  /\ \E m \in Mutexes \ created :
       /\ created' = created \cup {m}
       /\ locks' = [locks EXCEPT ![key[t]] = m]
       /\ l' = [l EXCEPT ![t] = m]
  /\ UNCHANGED <<mu, holder, key>>

\* Mutant of UnlockMu: mu is never unlocked.
UnlockMuNot(t) == Goto(t, "found", "wait") /\ UNCHANGED <<mu, locks, created, holder, key, l>>

UnlockMu(t) ==
  /\ Goto(t, "found", "wait")
  /\ mu' = NoThread
  /\ UNCHANGED <<locks, created, holder, key, l>>

\* Mutant of Lock: it does not wait for the holder.
LockBusy(t) ==
  /\ Goto(t, "wait", "fn")
  /\ holder' = [holder EXCEPT ![l[t]] = t]
  /\ UNCHANGED <<mu, locks, created, key, l>>

Lock(t) ==
  /\ Goto(t, "wait", "fn")
  /\ holder[l[t]] = NoThread
  /\ holder' = [holder EXCEPT ![l[t]] = t]
  /\ UNCHANGED <<mu, locks, created, key, l>>

\* fn has returned: the deferred Unlock.
Unlock(t) ==
  /\ Goto(t, "fn", "idle")
  /\ holder' = [holder EXCEPT ![l[t]] = NoThread]
  /\ l' = [l EXCEPT ![t] = NoMutex]
  /\ UNCHANGED <<mu, locks, created, key>>

Step(t) == LockMu(t) \/ Find(t) \/ Create(t) \/ UnlockMu(t) \/ Lock(t) \/ Unlock(t)

Next == \E t \in Threads : Step(t) \/ \E k \in Keys : With(t, k)

Spec == Init /\ [][Next]_vars

(* A call in progress goes on, and neither mutex starves a waiter: after   *)
(* a millisecond of waiting a sync.Mutex is handed to its waiters in FIFO  *)
(* order.                                                                  *)
Fairness ==
  \A t \in Threads : WF_vars(Step(t)) /\ SF_vars(LockMu(t)) /\ SF_vars(Lock(t))

FairSpec == Spec /\ Fairness

-----------------------------------------------------------------------------
(* CO-R1: no two threads run fn under one key, also when both were the     *)
(* first to use it (lock_manager.go: lookup and insertion are two steps).  *)
MutualExclusion ==
  \A t, u \in Threads :
    pc[t] = "fn" /\ pc[u] = "fn" /\ key[t] = key[u] => t = u

(* The mutex found for a key stays the key's mutex while the call lasts,   *)
(* and no mutex serves two keys.                                           *)
OneMutexPerKey ==
  /\ \A t \in Threads : pc[t] \in {"found", "wait", "fn"} => locks[key[t]] = l[t]
  /\ \A j, k \in Keys : locks[j] # NoMutex /\ locks[j] = locks[k] => j = k

(* Every call of With gets to run fn, and returns.                         *)
CallsReturn == \A t \in Threads : pc[t] = "lockFor" ~> pc[t] = "idle"

(* The refinement: a key is owned by the holder of the mutex stored for    *)
(* it, and a thread that runs fn is inside its key.  A mutex that replaced *)
(* one in use would take the ownership from a thread still inside.         *)
Owner(k) == IF locks[k] = NoMutex THEN NoThread ELSE holder[locks[k]]

Abstract == INSTANCE KeyedMutex WITH
  owner <- [k \in Keys |-> Owner(k)],
  inside <- [t \in Threads |-> IF pc[t] = "fn" THEN key[t] ELSE NoKey]

(* With gives a function its key's mutex and takes it back when it ends.   *)
ImplementsKeyedMutex == Abstract!Spec

=============================================================================
