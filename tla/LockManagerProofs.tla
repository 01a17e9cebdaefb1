--------------------------- MODULE LockManagerProofs ---------------------------
(***************************************************************************)
(* The lock manager is a keyed mutex, for any threads, keys and mutexes.   *)
(***************************************************************************)
EXTENDS LockManager, TLAPS

(* While a thread is inside lockFor it holds mu; until it inserts, its key *)
(* has no mutex.  What lockFor hands out is the mutex stored for the key,  *)
(* a thread running fn holds it, and a new mutex is free.                  *)
MuInv ==
  \A t \in Threads :
    /\ pc[t] \in {"find", "create", "found"} => mu = t
    /\ pc[t] = "create" => locks[key[t]] = NoMutex

MapInv ==
  /\ OneMutexPerKey
  /\ \A k \in Keys : locks[k] # NoMutex => locks[k] \in created
  /\ \A m \in Mutexes \ created : holder[m] = NoThread

HolderInv ==
  \A t \in Threads :
    /\ pc[t] \in {"found", "wait", "fn"} => l[t] \in Mutexes
    /\ pc[t] = "fn" => holder[l[t]] = t

IInv == TypeOK /\ MuInv /\ MapInv /\ HolderInv

(* The inductive invariant holds of the empty map.                         *)
LEMMA InitialStep == Init => IInv
  BY DEF Init, IInv, TypeOK, ControlPoints, MuInv, MapInv, OneMutexPerKey, HolderInv

(* No step of lockFor or With breaks the inductive invariant.              *)
LEMMA InductiveStep == IInv /\ [Next]_vars => IInv'
  <1> SUFFICES ASSUME IInv, [Next]_vars PROVE IInv'
    OBVIOUS
  <1> USE NullAssumption DEF IInv, TypeOK, ControlPoints, MuInv, MapInv, OneMutexPerKey, HolderInv, Goto
  <1>1. ASSUME NEW t \in Threads, NEW k \in Keys, With(t, k) PROVE IInv'
    BY <1>1 DEF With
  <1>2. ASSUME NEW t \in Threads, LockMu(t) PROVE IInv'
    BY <1>2 DEF LockMu
  <1>3. ASSUME NEW t \in Threads, Find(t) PROVE IInv'
    BY <1>3 DEF Find
  <1>4. ASSUME NEW t \in Threads, Create(t) PROVE IInv'
    BY <1>4 DEF Create
  <1>5. ASSUME NEW t \in Threads, UnlockMu(t) PROVE IInv'
    BY <1>5 DEF UnlockMu
  <1>6. ASSUME NEW t \in Threads, Lock(t) PROVE IInv'
    BY <1>6 DEF Lock
  <1>7. ASSUME NEW t \in Threads, Unlock(t) PROVE IInv'
    BY <1>7 DEF Unlock
  <1>8. CASE UNCHANGED vars
    BY <1>8 DEF vars
  <1> QED BY <1>1, <1>2, <1>3, <1>4, <1>5, <1>6, <1>7, <1>8 DEF Next, Step

(* Two threads in fn under one key hold one mutex, so they are one thread. *)
LEMMA Exclusive == IInv => MutualExclusion
  BY DEF IInv, MapInv, OneMutexPerKey, HolderInv, MutualExclusion

(* CO-R1: at most one thread at a time runs fn under a key, however the    *)
(* first calls for the key interleave in lockFor.                          *)
THEOREM MutuallyExclusive == Spec => []MutualExclusion
  BY InitialStep, InductiveStep, Exclusive, PTL DEF Spec

(* A key, once it has a mutex, keeps it, and no other key shares it.       *)
THEOREM OneMutex == Spec => []OneMutexPerKey
  <1>1. IInv => OneMutexPerKey
    BY DEF IInv, MapInv
  <1> QED BY <1>1, InitialStep, InductiveStep, PTL DEF Spec

(* Lock enters and Unlock leaves the key of the call; every other step is  *)
(* a stutter of the keyed mutex: a mutex that is inserted is free, and     *)
(* takes the place of none.                                                *)
LEMMA AbstractStep == IInv /\ [Next]_vars => [Abstract!Next]_(Abstract!mutexVars)
  <1> DEFINE owner == [k \in Keys |-> Owner(k)]
             inside == [t \in Threads |-> IF pc[t] = "fn" THEN key[t] ELSE NoKey]
  <1> SUFFICES ASSUME IInv, [Next]_vars PROVE Abstract!Next \/ UNCHANGED <<owner, inside>>
    BY DEF Abstract!mutexVars
  <1> USE NullAssumption DEF IInv, TypeOK, Goto, Owner
  <1>1. ASSUME NEW t \in Threads,
               (\E k \in Keys : With(t, k)) \/ LockMu(t) \/ Find(t) \/ UnlockMu(t)
        PROVE  UNCHANGED <<owner, inside>>
    <2>1. UNCHANGED owner
      BY <1>1 DEF With, LockMu, Find, UnlockMu
    <2>2. pc[t] # "fn" /\ pc'[t] # "fn" /\ \A u \in Threads \ {t} : pc'[u] = pc[u] /\ key'[u] = key[u]
      BY <1>1 DEF With, LockMu, Find, UnlockMu
    <2> QED BY <2>1, <2>2
  <1>2. ASSUME NEW t \in Threads, Create(t) PROVE UNCHANGED <<owner, inside>>
    <2>1. locks[key[t]] = NoMutex
      BY <1>2 DEF Create, MuInv
    <2>2. PICK m \in Mutexes : locks' = [locks EXCEPT ![key[t]] = m] /\ holder[m] = NoThread
      BY <1>2 DEF Create, MapInv
    <2>3. UNCHANGED holder
      BY <1>2 DEF Create
    <2>4. \A k \in Keys : Owner(k)' = Owner(k)
      BY <2>1, <2>2, <2>3
    <2>5. UNCHANGED inside
      BY <1>2 DEF Create
    <2> QED BY <2>4, <2>5
  <1>3. ASSUME NEW t \in Threads, Lock(t) PROVE Abstract!Enter(t, key[t])
    <2>1. inside' = [inside EXCEPT ![t] = key[t]] /\ inside[t] = NoKey
      BY <1>3 DEF Lock
    <2>2. owner[key[t]] = NoThread /\ owner' = [owner EXCEPT ![key[t]] = t]
      BY <1>3 DEF Lock, MapInv, OneMutexPerKey, HolderInv
    <2> QED BY <2>1, <2>2 DEF Abstract!Enter
  <1>4. ASSUME NEW t \in Threads, Unlock(t) PROVE Abstract!Leave(t, key[t])
    <2>1. inside[t] = key[t] /\ inside' = [inside EXCEPT ![t] = NoKey]
      BY <1>4 DEF Unlock
    <2>2. owner[key[t]] = t /\ owner' = [owner EXCEPT ![key[t]] = NoThread]
      BY <1>4 DEF Unlock, MapInv, OneMutexPerKey, HolderInv
    <2> QED BY <2>1, <2>2 DEF Abstract!Leave
  <1>5. UNCHANGED vars => UNCHANGED <<owner, inside>>
    BY DEF vars
  <1>6. ASSUME NEW t \in Threads, Step(t) \/ (\E k \in Keys : With(t, k))
        PROVE  Abstract!Next \/ UNCHANGED <<owner, inside>>
    <2>1. PICK k \in Keys : k = key[t]
      OBVIOUS
    <2> HIDE DEF owner, inside, IInv, TypeOK, Goto, Owner
    <2>2. CASE Lock(t)
      <3>1. Abstract!Enter(t, k)
        BY <1>3, <2>1, <2>2 DEF Abstract!Enter
      <3> QED BY <3>1 DEF Abstract!Next
    <2>3. CASE Unlock(t)
      <3>1. Abstract!Leave(t, k)
        BY <1>4, <2>1, <2>3 DEF Abstract!Leave
      <3> QED BY <3>1 DEF Abstract!Next
    <2> QED BY <1>1, <1>2, <1>6, <2>2, <2>3 DEF Step
  <1> HIDE DEF owner, inside
  <1> QED BY <1>5, <1>6 DEF Next

(* The lock manager implements the keyed mutex, the form in which the      *)
(* reservation service models it: whoever runs a function under a key owns *)
(* the key's mutex until the function ends, and no one else's step ends or *)
(* replaces that.                                                          *)
THEOREM Refinement == Spec => ImplementsKeyedMutex
  <1>1. Init => Abstract!Init
    BY NullAssumption DEF Init, Abstract!Init, Owner
  <1> QED BY <1>1, InitialStep, InductiveStep, AbstractStep, PTL
      DEF Spec, ImplementsKeyedMutex, Abstract!Spec

=============================================================================
