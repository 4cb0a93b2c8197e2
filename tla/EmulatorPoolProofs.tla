------------------------- MODULE EmulatorPoolProofs -------------------------
(***************************************************************************)
(* Proofs about EmulatorPool for any number of threads and any pool.       *)
(***************************************************************************)
EXTENDS EmulatorPool, FiniteSetTheorems, TLAPS

Holders == {t \in Threads : idx[t] \in Pool}

TypeOK ==
  /\ count \in Nat
  /\ stopped \in [Pool -> BOOLEAN]
  /\ device \in [Pool -> {"none", "loop", "ended"}]
  /\ joinable \in [Pool -> BOOLEAN]
  /\ pc \in [Threads -> {"idle", "claimed", "eagain", "started", "polling", "exited"}]
  /\ idx \in [Threads -> Nat \cup {NoEmulator}]
  /\ tl_emulator \in [Threads -> Pool \cup {NoEmulator}]
  /\ fini \in {"loaded", "stop", "join", "done"}
  /\ n \in Nat
  /\ i \in Nat

(* Outside allocate a thread has what its thread-local says; inside, it    *)
(* had nothing before.                                                     *)
LocalMatches ==
  \A t \in Threads :
    /\ pc[t] \in {"idle", "polling", "exited"} => idx[t] = tl_emulator[t]
    /\ pc[t] \in {"claimed", "eagain", "started"} => tl_emulator[t] = NoEmulator
    /\ pc[t] = "claimed" => idx[t] \in Nat
    /\ pc[t] = "eagain" => idx[t] \in Nat \ Pool
    /\ pc[t] \in {"started", "polling"} => idx[t] \in Pool

(* No emulator is ever given to two threads: each is the single producer   *)
(* SqCq relies on.  The counter is the number of emulators given away plus *)
(* the overdrafts not yet returned, and there is an overdraft only when    *)
(* all are given away: threads that fail at the same time never make the   *)
(* pool look full while an emulator is left, nor free again, and a         *)
(* destructor between calls never loads a count beyond its arrays.         *)
PoolAccounted ==
  /\ \A t, u \in Holders : t # u => idx[t] # idx[u]
  /\ count = Cardinality(Holders) + Cardinality(Overdrawn)
  /\ Overdrawn # {} => Cardinality(Holders) = MAX_EMULATORS

(* Emulators are given out from 0 on without a gap.                        *)
GivenInOrder ==
  /\ \A t \in Holders : idx[t] < Cardinality(Holders)
  /\ Cardinality(Holders) <= MAX_EMULATORS

(* A device thread that runs has its handle in the pool, or is about to,   *)
(* and belongs to a thread that holds the emulator.                        *)
DevicesKnown ==
  \A e \in Pool :
    /\ device[e] = "loop" \/ joinable[e] => \E t \in Holders : idx[t] = e
    /\ device[e] = "loop" =>
         joinable[e] \/ \E t \in Threads : pc[t] = "started" /\ idx[t] = e

(* An orderly exit: the destructor works on a pool nobody changes.         *)
OrderlyExit ==
  Quiescent =>
    /\ fini # "loaded" => n = count /\ \A t \in Threads : pc[t] \in {"idle", "exited"}
    /\ fini \in {"join", "done"} => \A e \in Pool : e < i => ~joinable[e]
    /\ fini = "done" => i >= n

IInv ==
  /\ TypeOK
  /\ LocalMatches
  /\ PoolAccounted
  /\ GivenInOrder
  /\ DevicesKnown
  /\ OrderlyExit

-----------------------------------------------------------------------------
LEMMA PoolNumbers ==
  /\ MAX_EMULATORS \in Nat \ {0}
  /\ Pool \subseteq Nat
  /\ NoEmulator \notin Nat /\ NoEmulator \notin Pool
  /\ \A k \in Nat : k \in Pool <=> ~Exceeds(k)
BY PoolAssumption DEF Pool, NoEmulator, Exceeds

LEMMA Finite ==
  /\ IsFiniteSet(Holders) /\ Cardinality(Holders) \in Nat
  /\ IsFiniteSet(Overdrawn) /\ Cardinality(Overdrawn) \in Nat
<1>1. Holders \subseteq Threads /\ Overdrawn \subseteq Threads
  BY DEF Holders, Overdrawn
<1> QED
  BY <1>1, PoolAssumption, FS_Subset, FS_CardinalityType

LEMMA InitIInv == Init => IInv
<1> SUFFICES ASSUME Init PROVE IInv
  OBVIOUS
<1>1. Holders = {} /\ Overdrawn = {}
  BY PoolNumbers DEF Init, Holders, Overdrawn
<1>2. Cardinality({}) = 0
  BY FS_EmptySet
<1>3. TypeOK
  BY DEF Init, TypeOK
<1>4. PoolAccounted /\ GivenInOrder
  BY <1>1, <1>2, PoolNumbers DEF Init, PoolAccounted, GivenInOrder
<1>5. LocalMatches /\ DevicesKnown /\ OrderlyExit
  BY DEF Init, LocalMatches, DevicesKnown, OrderlyExit
<1> QED
  BY <1>3, <1>4, <1>5 DEF IInv

(* A step that claims and returns nothing leaves the accounts as they are. *)
LEMMA AccountsKept ==
  ASSUME IInv, count' = count,
         Holders' = Holders, Overdrawn' = Overdrawn,
         \A t \in Holders : idx'[t] = idx[t]
  PROVE  PoolAccounted' /\ GivenInOrder'
<1> USE DEF IInv
<1>1. PoolAccounted'
  BY DEF PoolAccounted
<1>2. GivenInOrder'
  BY DEF GivenInOrder
<1> QED
  BY <1>1, <1>2

-----------------------------------------------------------------------------
(* fetch_add gives the next emulator, or one beyond the pool.              *)
LEMMA ClaimIndexIInv ==
  ASSUME IInv, NEW t \in Threads, ClaimIndex(t)
  PROVE  IInv'
<1> DEFINE H == Cardinality(Holders)
           O == Cardinality(Overdrawn)
<1>1. /\ pc[t] = "idle" /\ idx[t] = NoEmulator /\ tl_emulator[t] = NoEmulator
      /\ t \notin Holders /\ t \notin Overdrawn
  BY PoolNumbers DEF IInv, LocalMatches, ClaimIndex, Holders, Overdrawn
<1>2. /\ idx' = [idx EXCEPT ![t] = count]
      /\ pc' = [pc EXCEPT ![t] = "claimed"]
      /\ count' = count + 1
      /\ UNCHANGED <<stopped, device, joinable, tl_emulator, fini, n, i>>
      /\ count \in Nat
  BY DEF IInv, TypeOK, ClaimIndex, Claimed, finiVars
<1>3. TypeOK'
  BY <1>2 DEF IInv, TypeOK
<1>4. LocalMatches'
  BY <1>1, <1>2 DEF IInv, TypeOK, LocalMatches
<1>5. H \in Nat /\ O \in Nat /\ count = H + O /\ H <= MAX_EMULATORS
  BY Finite DEF IInv, PoolAccounted, GivenInOrder
<1>6. Overdrawn # {} => O >= 1 /\ H = MAX_EMULATORS
  <2>1. Overdrawn # {} => O # 0
    BY Finite, FS_EmptySet
  <2> QED
    BY <1>5, <2>1 DEF IInv, PoolAccounted
<1>7. O = 0 <=> Overdrawn = {}
  BY Finite, FS_EmptySet
<1>8. \A u \in Threads : u # t => idx'[u] = idx[u] /\ pc'[u] = pc[u]
  BY <1>2 DEF IInv, TypeOK
<1>9. idx'[t] = count /\ pc'[t] = "claimed"
  BY <1>2 DEF IInv, TypeOK
<1>10. PoolAccounted' /\ GivenInOrder'
  <2>1. CASE ~Exceeds(count)
    <3>1. O = 0 /\ H = count /\ H < MAX_EMULATORS
      BY <1>2, <1>5, <1>6, <1>7, <2>1, PoolNumbers DEF Exceeds
    <3>2. Holders' = Holders \cup {t}
      BY <1>1, <1>2, <1>8, <1>9, <2>1, PoolNumbers DEF Holders
    <3>3. Overdrawn' = {}
      BY <1>7, <1>8, <1>9, <2>1, <3>1 DEF Overdrawn
    <3>4. Cardinality(Holders)' = H + 1
      BY <1>1, <3>2, Finite, FS_AddElement
    <3>5. Cardinality(Overdrawn)' = 0
      BY <3>3, FS_EmptySet
    <3> HIDE DEF H, O
    <3>6. \A u \in Holders : u # t /\ idx'[u] = idx[u] /\ idx[u] < H /\ idx[u] \in Nat
      BY <1>1, <1>8, PoolNumbers DEF IInv, GivenInOrder, Holders, H
    <3>7. GivenInOrder'
      BY <1>5, <1>9, <3>1, <3>2, <3>4, <3>6, PoolNumbers DEF GivenInOrder
    <3>8. \A u, v \in Holders' : u # v => idx'[u] # idx'[v]
      BY <1>5, <1>9, <3>1, <3>2, <3>6 DEF IInv, PoolAccounted
    <3>9. PoolAccounted'
      BY <1>2, <1>5, <3>1, <3>3, <3>4, <3>5, <3>8 DEF PoolAccounted
    <3> QED
      BY <3>7, <3>9
  <2>2. CASE Exceeds(count)
    <3>1. H = MAX_EMULATORS
      BY <1>2, <1>5, <1>6, <1>7, <2>2, PoolNumbers DEF Exceeds
    <3>2. Holders' = Holders
      BY <1>1, <1>2, <1>8, <1>9, <2>2, PoolNumbers DEF Holders
    <3>3. Overdrawn' = Overdrawn \cup {t}
      BY <1>1, <1>8, <1>9, <2>2 DEF Overdrawn
    <3>4. Cardinality(Overdrawn)' = O + 1
      BY <1>1, <3>3, Finite, FS_AddElement
    <3>5. \A u \in Holders : idx'[u] = idx[u]
      BY <1>1, <1>8 DEF Holders
    <3>6. GivenInOrder'
      BY <3>2, <3>5 DEF IInv, GivenInOrder
    <3>7. PoolAccounted'
      BY <1>2, <1>5, <3>1, <3>2, <3>4, <3>5 DEF IInv, PoolAccounted
    <3> QED
      BY <3>6, <3>7
  <2> QED
    BY <2>1, <2>2
<1>11. DevicesKnown'
  <2>1. \A u \in Holders : u # t /\ u \in Holders' /\ idx'[u] = idx[u]
    BY <1>1, <1>8 DEF Holders
  <2> QED
    BY <1>1, <1>2, <1>8, <2>1 DEF IInv, DevicesKnown
<1>12. OrderlyExit'
  BY <1>1, <1>2 DEF IInv, OrderlyExit, ClaimIndex
<1> QED
  BY <1>3, <1>4, <1>10, <1>11, <1>12 DEF IInv

(* fetch_sub takes back exactly the overdraft of this thread.              *)
LEMMA ReturnIndexIInv ==
  ASSUME IInv, NEW t \in Threads, ReturnIndex(t)
  PROVE  IInv'
<1> DEFINE H == Cardinality(Holders)
           O == Cardinality(Overdrawn)
<1>1. /\ pc[t] = "claimed" /\ Exceeds(idx[t]) /\ idx[t] \notin Pool
      /\ t \in Overdrawn
      /\ pc' = [pc EXCEPT ![t] = "eagain"]
      /\ count' = count - 1
      /\ UNCHANGED <<stopped, device, joinable, idx, tl_emulator, fini, n, i>>
  BY PoolNumbers DEF IInv, LocalMatches, ReturnIndex, Overdrawn, GiveBack, finiVars
<1>2. Holders' = Holders
  BY <1>1 DEF Holders
<1>3. Overdrawn' = Overdrawn \ {t}
  BY <1>1 DEF IInv, TypeOK, Overdrawn
<1>4. Cardinality(Overdrawn)' = O - 1
  BY <1>1, <1>3, Finite, FS_RemoveElement
<1>5. H \in Nat /\ O \in Nat /\ O # 0 /\ count = H + O
  BY <1>1, Finite, FS_EmptySet DEF IInv, PoolAccounted
<1>6. TypeOK'
  BY <1>1, <1>5 DEF IInv, TypeOK
<1>7. LocalMatches'
  BY <1>1 DEF IInv, TypeOK, LocalMatches
<1>8. PoolAccounted'
  BY <1>1, <1>2, <1>3, <1>4, <1>5 DEF IInv, PoolAccounted
<1>9. GivenInOrder'
  BY <1>1, <1>2 DEF IInv, GivenInOrder
<1>10. DevicesKnown'
  BY <1>1, <1>2 DEF IInv, TypeOK, DevicesKnown
<1>11. OrderlyExit'
  BY <1>1 DEF IInv, OrderlyExit
<1> QED
  BY <1>6, <1>7, <1>8, <1>9, <1>10, <1>11 DEF IInv

LEMMA CallFailsIInv ==
  ASSUME IInv, NEW t \in Threads, CallFails(t)
  PROVE  IInv'
<1>1. /\ pc[t] = "eagain" /\ idx[t] \notin Pool /\ tl_emulator[t] = NoEmulator
      /\ pc' = [pc EXCEPT ![t] = "idle"]
      /\ idx' = [idx EXCEPT ![t] = NoEmulator]
      /\ UNCHANGED <<count, stopped, device, joinable, tl_emulator, fini, n, i>>
  BY DEF IInv, LocalMatches, CallFails, finiVars
<1>2. /\ Holders' = Holders /\ Overdrawn' = Overdrawn
      /\ \A u \in Holders : idx'[u] = idx[u]
  BY <1>1, PoolNumbers DEF IInv, TypeOK, Holders, Overdrawn
<1>3. TypeOK'
  BY <1>1 DEF IInv, TypeOK
<1>4. LocalMatches'
  BY <1>1 DEF IInv, TypeOK, LocalMatches
<1>5. PoolAccounted' /\ GivenInOrder'
  BY <1>1, <1>2, AccountsKept
<1>6. DevicesKnown'
  BY <1>1, <1>2 DEF IInv, TypeOK, DevicesKnown
<1>7. OrderlyExit'
  BY <1>1 DEF IInv, OrderlyExit
<1> QED
  BY <1>3, <1>4, <1>5, <1>6, <1>7 DEF IInv

LEMMA StartDeviceIInv ==
  ASSUME IInv, NEW t \in Threads, StartDevice(t)
  PROVE  IInv'
<1>1. /\ pc[t] = "claimed" /\ idx[t] \in Pool /\ ~Exceeds(idx[t])
      /\ tl_emulator[t] = NoEmulator
      /\ pc' = [pc EXCEPT ![t] = "started"]
      /\ device' = [device EXCEPT ![idx[t]] = "loop"]
      /\ UNCHANGED <<count, stopped, joinable, idx, tl_emulator, fini, n, i>>
  BY PoolNumbers DEF IInv, LocalMatches, StartDevice, finiVars
<1>2. Holders' = Holders /\ Overdrawn' = Overdrawn /\ t \in Holders
  BY <1>1 DEF IInv, TypeOK, Holders, Overdrawn
<1>3. TypeOK'
  BY <1>1 DEF IInv, TypeOK
<1>4. LocalMatches'
  BY <1>1 DEF IInv, TypeOK, LocalMatches
<1>5. PoolAccounted' /\ GivenInOrder'
  BY <1>1, <1>2, AccountsKept
<1>6. DevicesKnown'
  BY <1>1, <1>2 DEF IInv, TypeOK, DevicesKnown
<1>7. OrderlyExit'
  BY <1>1 DEF IInv, OrderlyExit
<1> QED
  BY <1>3, <1>4, <1>5, <1>6, <1>7 DEF IInv

LEMMA StoreHandleIInv ==
  ASSUME IInv, NEW t \in Threads, StoreHandle(t)
  PROVE  IInv'
<1>1. /\ pc[t] = "started" /\ idx[t] \in Pool
      /\ pc' = [pc EXCEPT ![t] = "polling"]
      /\ joinable' = [joinable EXCEPT ![idx[t]] = TRUE]
      /\ tl_emulator' = [tl_emulator EXCEPT ![t] = idx[t]]
      /\ UNCHANGED <<count, stopped, device, idx, fini, n, i>>
  BY DEF IInv, LocalMatches, StoreHandle, finiVars
<1>2. Holders' = Holders /\ Overdrawn' = Overdrawn /\ t \in Holders
  BY <1>1 DEF IInv, TypeOK, Holders, Overdrawn
<1>3. TypeOK'
  BY <1>1 DEF IInv, TypeOK
<1>4. LocalMatches'
  BY <1>1 DEF IInv, TypeOK, LocalMatches
<1>5. PoolAccounted' /\ GivenInOrder'
  BY <1>1, <1>2, AccountsKept
<1>6. DevicesKnown'
  BY <1>1, <1>2 DEF IInv, TypeOK, DevicesKnown
<1>7. OrderlyExit'
  BY <1>1 DEF IInv, OrderlyExit
<1> QED
  BY <1>3, <1>4, <1>5, <1>6, <1>7 DEF IInv

(* A later call of a thread, its return, and the end of the thread.        *)
LEMMA CallIInv ==
  ASSUME IInv, NEW t \in Threads,
         SubmitAgain(t) \/ IoReturns(t) \/ ThreadExits(t)
  PROVE  IInv'
<1>1. /\ pc[t] \in {"idle", "polling"}
      /\ \E c \in {"idle", "polling", "exited"} :
           /\ pc' = [pc EXCEPT ![t] = c]
           /\ c = "polling" => tl_emulator[t] # NoEmulator
           /\ Quiescent => fini = "loaded" \/ c = "exited" \/ pc[t] = "polling"
      /\ UNCHANGED <<count, stopped, device, joinable, idx, tl_emulator, fini, n, i>>
  BY DEF SubmitAgain, IoReturns, ThreadExits, finiVars
<1>2. Holders' = Holders /\ Overdrawn' = Overdrawn
  BY <1>1 DEF IInv, TypeOK, Holders, Overdrawn
<1>3. TypeOK'
  BY <1>1 DEF IInv, TypeOK
<1>4. LocalMatches'
  BY <1>1 DEF IInv, TypeOK, LocalMatches
<1>5. PoolAccounted' /\ GivenInOrder'
  BY <1>1, <1>2, AccountsKept
<1>6. DevicesKnown'
  BY <1>1, <1>2 DEF IInv, TypeOK, DevicesKnown
<1>7. OrderlyExit'
  BY <1>1 DEF IInv, TypeOK, OrderlyExit
<1> QED
  BY <1>3, <1>4, <1>5, <1>6, <1>7 DEF IInv

-----------------------------------------------------------------------------
(* The steps of device loops and of shutdown_all leave the application and *)
(* the accounts alone.                                                     *)
LEMMA ApplicationKept ==
  ASSUME IInv, UNCHANGED <<count, pc, idx, tl_emulator>>
  PROVE  /\ LocalMatches' /\ PoolAccounted' /\ GivenInOrder'
         /\ Holders' = Holders
<1>1. Holders' = Holders /\ Overdrawn' = Overdrawn
  BY DEF Holders, Overdrawn
<1>2. LocalMatches'
  BY DEF IInv, LocalMatches
<1> QED
  BY <1>1, <1>2, AccountsKept

LEMMA DeviceEndsIInv ==
  ASSUME IInv, NEW e \in Pool, DeviceEnds(e)
  PROVE  IInv'
<1> USE DEF DeviceEnds, appVars, finiVars
<1>1. LocalMatches' /\ PoolAccounted' /\ GivenInOrder' /\ Holders' = Holders
  BY ApplicationKept
<1>2. TypeOK'
  BY DEF IInv, TypeOK
<1>3. DevicesKnown'
  BY <1>1 DEF IInv, TypeOK, DevicesKnown
<1>4. OrderlyExit'
  BY DEF IInv, OrderlyExit
<1> QED
  BY <1>1, <1>2, <1>3, <1>4 DEF IInv

LEMMA LoadCountIInv ==
  ASSUME IInv, LoadCount
  PROVE  IInv'
<1> USE DEF LoadCount, appVars
<1>1. LocalMatches' /\ PoolAccounted' /\ GivenInOrder' /\ Holders' = Holders
  BY ApplicationKept
<1>2. TypeOK'
  BY DEF IInv, TypeOK
<1>3. DevicesKnown'
  BY <1>1 DEF IInv, DevicesKnown
<1>4. OrderlyExit'
  BY DEF OrderlyExit
<1> QED
  BY <1>1, <1>2, <1>3, <1>4 DEF IInv

LEMMA StopIInv ==
  ASSUME IInv, StopOne \/ StopsDone
  PROVE  IInv'
<1> USE DEF StopOne, StopsDone, StopBound, appVars
<1>1. LocalMatches' /\ PoolAccounted' /\ GivenInOrder' /\ Holders' = Holders
  BY ApplicationKept
<1>2. TypeOK'
  <2>1. CASE StopOne
    <3>1. \A e \in Pool : (stopped[e] \/ e = i) \in BOOLEAN
      OBVIOUS
    <3> QED
      BY <2>1, <3>1 DEF IInv, TypeOK
  <2>2. CASE StopsDone
    BY <2>2 DEF IInv, TypeOK
  <2> QED
    BY <2>1, <2>2
<1>3. DevicesKnown'
  BY <1>1 DEF IInv, DevicesKnown
<1>4. OrderlyExit'
  BY PoolNumbers DEF IInv, OrderlyExit
<1> QED
  BY <1>1, <1>2, <1>3, <1>4 DEF IInv

(* A joined device thread has ended, so none is lost.                      *)
LEMMA JoinOneIInv ==
  ASSUME IInv, JoinOne
  PROVE  IInv'
<1> USE DEF JoinOne, JoinBound, appVars
<1>1. LocalMatches' /\ PoolAccounted' /\ GivenInOrder' /\ Holders' = Holders
  BY ApplicationKept
<1>2. TypeOK'
  <2>1. \A e \in Pool : (joinable[e] /\ e # i) \in BOOLEAN
    OBVIOUS
  <2> QED
    BY <2>1 DEF IInv, TypeOK
<1>3. \A e \in Pool : joinable'[e] <=> joinable[e] /\ e # i
  OBVIOUS
<1>4. DevicesKnown'
  BY <1>1, <1>3 DEF IInv, DevicesKnown
<1>5. OrderlyExit'
  <2>1. \A e \in Pool : e < i + 1 => e < i \/ e = i
    BY PoolNumbers DEF IInv, TypeOK
  <2> QED
    BY <1>3, <2>1 DEF IInv, OrderlyExit
<1> QED
  BY <1>1, <1>2, <1>4, <1>5 DEF IInv

LEMMA JoinsDoneIInv ==
  ASSUME IInv, JoinsDone
  PROVE  IInv'
<1> USE DEF JoinsDone, JoinBound, appVars
<1>1. LocalMatches' /\ PoolAccounted' /\ GivenInOrder' /\ Holders' = Holders
  BY ApplicationKept
<1>2. TypeOK'
  BY DEF IInv, TypeOK
<1>3. DevicesKnown'
  BY <1>1 DEF IInv, DevicesKnown
<1>4. OrderlyExit'
  BY DEF IInv, OrderlyExit
<1> QED
  BY <1>1, <1>2, <1>3, <1>4 DEF IInv

-----------------------------------------------------------------------------
LEMMA NextIInv == IInv /\ [Next]_vars => IInv'
<1> SUFFICES ASSUME IInv, [Next]_vars PROVE IInv'
  OBVIOUS
<1>1. CASE \E t \in Threads :
             \/ ClaimIndex(t) \/ ReturnIndex(t) \/ CallFails(t)
             \/ StartDevice(t) \/ StoreHandle(t)
  BY <1>1, ClaimIndexIInv, ReturnIndexIInv, CallFailsIInv, StartDeviceIInv,
     StoreHandleIInv, Zenon
<1>2. CASE \E t \in Threads : SubmitAgain(t) \/ IoReturns(t) \/ ThreadExits(t)
  BY <1>2, CallIInv, Zenon
<1>3. CASE \E e \in Pool : DeviceEnds(e)
  BY <1>3, DeviceEndsIInv, Zenon
<1>4. CASE LoadCount \/ StopOne \/ StopsDone \/ JoinOne \/ JoinsDone
  BY <1>4, LoadCountIInv, StopIInv, JoinOneIInv, JoinsDoneIInv, Zenon
<1>5. CASE UNCHANGED vars
  <2> USE <1>5 DEF vars, appVars, finiVars
  <2>1. LocalMatches' /\ PoolAccounted' /\ GivenInOrder' /\ Holders' = Holders
    BY ApplicationKept
  <2> QED
    BY <2>1 DEF IInv, TypeOK, DevicesKnown, OrderlyExit
<1> QED
  BY <1>1, <1>2, <1>3, <1>4, <1>5 DEF Next

LEMMA IInvHolds == Spec => []IInv
BY InitIInv, NextIInv, PTL DEF Spec

(* EmulatorPool::allocate never gives an emulator to two threads, and its  *)
(* fetch_add and fetch_sub keep count true however many threads fail at    *)
(* the same time: each emulator has the one host thread SqCq assumes.      *)
THEOREM OneThreadPerEmulator == Spec => []PoolAccounted
<1>1. IInv => PoolAccounted
  BY DEF IInv
<1> QED
  BY <1>1, IInvHolds, PTL

(* A destructor that runs between calls joins every device thread of the   *)
(* pool (shutdown_all).                                                    *)
THEOREM QuiescentShutdown ==
  ASSUME Quiescent
  PROVE  Spec => []ShutdownJoinsAll
<1>1. IInv => ShutdownJoinsAll
  <2> SUFFICES ASSUME IInv, fini = "done", NEW e \in Pool
               PROVE  device[e] # "loop" /\ ~joinable[e]
    BY DEF ShutdownJoinsAll
  <2>1. ~joinable[e]
    <3>1. SUFFICES ASSUME joinable[e] PROVE FALSE
      OBVIOUS
    <3>2. PICK t \in Holders : idx[t] = e
      BY <3>1 DEF IInv, DevicesKnown
    <3>3. e < Cardinality(Holders)
      BY <3>2 DEF IInv, GivenInOrder
    <3>4. e < i
      BY <3>3, Finite, PoolNumbers DEF IInv, TypeOK, PoolAccounted, OrderlyExit
    <3> QED
      BY <3>1, <3>4 DEF IInv, OrderlyExit
  <2>2. \A t \in Threads : pc[t] # "started"
    BY DEF IInv, OrderlyExit
  <2> QED
    BY <2>1, <2>2 DEF IInv, DevicesKnown
<1> QED
  BY <1>1, IInvHolds, PTL

-----------------------------------------------------------------------------
(* The refinement of Dispenser: only an allocation changes what is given   *)
(* and left, and it does so in the one step of the fetch_add.              *)

Leftover == MAX_EMULATORS - Cardinality(Holders)
LeftMatches == Left = Leftover

LEMMA LeftIsLeftover ==
  /\ IInv => LeftMatches
  /\ IInv' => LeftMatches'
<1>1. IInv => LeftMatches
  BY Finite, PoolNumbers DEF IInv, PoolAccounted, Left, Leftover, LeftMatches
<1> QED
  BY <1>1, PTL

LEMMA InitDispenser == Init => Queues!Init
<1> SUFFICES ASSUME Init PROVE Queues!Init
  OBVIOUS
<1>1. Overdrawn = {} /\ Refused = {}
  BY PoolNumbers DEF Init, Overdrawn, Refused
<1>2. Given = [t \in Threads |-> NoEmulator] /\ Using = [t \in Threads |-> NoEmulator]
  BY PoolNumbers DEF Init, Given, Using
<1>3. Left = MAX_EMULATORS
  BY <1>1, PoolNumbers, FS_EmptySet DEF Init, Left
<1> QED
  BY <1>1, <1>2, <1>3 DEF Queues!Init

(* A step that changes neither what threads hold nor what they wait on is  *)
(* none of the dispenser's.                                                *)
LEMMA StepHidden ==
  ASSUME IInv, IInv', UNCHANGED idx,
         \A u \in Threads : IF pc'[u] = "polling"
                            THEN pc[u] = "polling" /\ tl_emulator'[u] = tl_emulator[u]
                            ELSE pc[u] # "polling"
  PROVE  UNCHANGED <<Given, Using, Refused, Left>>
<1>1. Given' = Given /\ Refused' = Refused
  BY DEF Given, Refused
<1>2. Using' = Using
  BY DEF Using
<1>3. Leftover' = Leftover
  BY DEF Leftover, Holders
<1> QED
  BY <1>1, <1>2, <1>3, LeftIsLeftover DEF LeftMatches

(* fetch_add decides: it gives an emulator nobody has, or it refuses, and  *)
(* then nothing is left.                                                   *)
LEMMA ClaimIndexGives ==
  ASSUME IInv, IInv', NEW t \in Threads, ClaimIndex(t)
  PROVE  (\E q \in Pool : Queues!Give(t, q)) \/ Queues!Refuse(t)
<1>1. /\ pc[t] = "idle" /\ idx[t] = NoEmulator /\ t \notin Holders
      /\ idx' = [idx EXCEPT ![t] = count]
      /\ pc' = [pc EXCEPT ![t] = "claimed"]
      /\ tl_emulator' = tl_emulator
      /\ count' = count + 1 /\ count \in Nat
  BY PoolNumbers DEF IInv, TypeOK, LocalMatches, ClaimIndex, Claimed, Holders
<1>2. /\ idx'[t] = count /\ pc'[t] = "claimed"
      /\ \A u \in Threads : u # t => idx'[u] = idx[u] /\ pc'[u] = pc[u]
  BY <1>1 DEF IInv, TypeOK
<1>3. Using' = Using
  BY <1>1, <1>2 DEF Using
<1>4. Given[t] = NoEmulator /\ t \notin Refused
  BY <1>1 DEF Given, Refused
<1>5. CASE count \in Pool
  <2>1. Holders' = Holders \cup {t}
    BY <1>1, <1>2, <1>5 DEF Holders
  <2>2. Left' = Left - 1
    <3>1. Cardinality(Holders') = Cardinality(Holders) + 1
      BY <1>1, <2>1, Finite, FS_AddElement
    <3> QED
      BY <3>1, Finite, LeftIsLeftover, PoolNumbers DEF Leftover, LeftMatches
  <2>3. \A u \in Threads : Given[u] # count
    <3>1. SUFFICES ASSUME NEW u \in Holders, idx[u] = count PROVE FALSE
      BY <1>5, PoolNumbers DEF Given, Holders
    <3>2. u # t /\ u \in Holders' /\ t \in Holders' /\ idx'[u] = idx'[t]
      BY <1>1, <1>2, <2>1, <3>1 DEF Holders
    <3> QED
      BY <3>2 DEF IInv, PoolAccounted
  <2>4. Given' = [Given EXCEPT ![t] = count]
    BY <1>2, <1>5 DEF Given
  <2>5. Refused' = Refused
    BY <1>1, <1>2, <1>5 DEF Refused
  <2>6. Queues!Give(t, count)
    BY <1>3, <1>4, <2>2, <2>3, <2>4, <2>5 DEF Queues!Give
  <2> QED
    BY <1>5, <2>6
<1>6. CASE count \notin Pool
  <2>1. Holders' = Holders
    BY <1>1, <1>2, <1>6 DEF Holders
  <2>2. t \in Overdrawn'
    BY <1>1, <1>2, <1>6, PoolNumbers DEF Overdrawn
  <2>3. Left = 0 /\ Left' = Left
    <3>1. Cardinality(Holders') = MAX_EMULATORS
      BY <2>2 DEF IInv, PoolAccounted
    <3> QED
      BY <2>1, <3>1, LeftIsLeftover, PoolNumbers DEF Leftover, LeftMatches
  <2>4. Given' = Given
    BY <1>1, <1>2, <1>6, PoolNumbers DEF Given
  <2>5. Refused' = Refused \cup {t}
    BY <1>1, <1>2, <1>6, PoolNumbers DEF Refused
  <2>6. Queues!Refuse(t)
    BY <1>3, <1>4, <2>3, <2>4, <2>5 DEF Queues!Refuse
  <2> QED
    BY <2>6
<1> QED
  BY <1>5, <1>6

LEMMA CallFailsAccepts ==
  ASSUME IInv, IInv', NEW t \in Threads, CallFails(t)
  PROVE  Queues!AcceptRefusal(t)
<1>1. /\ pc[t] = "eagain" /\ idx[t] \in Nat \ Pool
      /\ pc' = [pc EXCEPT ![t] = "idle"]
      /\ idx' = [idx EXCEPT ![t] = NoEmulator]
      /\ tl_emulator' = tl_emulator
  BY DEF IInv, LocalMatches, CallFails
<1>2. /\ idx'[t] = NoEmulator /\ pc'[t] = "idle"
      /\ \A u \in Threads : u # t => idx'[u] = idx[u] /\ pc'[u] = pc[u]
  BY <1>1 DEF IInv, TypeOK
<1>3. t \in Refused /\ Refused' = Refused \ {t}
  BY <1>1, <1>2, PoolNumbers DEF Refused
<1>4. Given' = Given /\ Using' = Using
  BY <1>1, <1>2, PoolNumbers DEF Given, Using
<1>5. Leftover' = Leftover
  <2>1. Holders' = Holders
    BY <1>1, <1>2, PoolNumbers DEF Holders
  <2> QED
    BY <2>1 DEF Leftover
<1> QED
  BY <1>3, <1>4, <1>5, LeftIsLeftover DEF Queues!AcceptRefusal, LeftMatches

(* The first call of a thread and each later one go to its own emulator.   *)
LEMMA CallUses ==
  ASSUME IInv, IInv', NEW t \in Threads, StoreHandle(t) \/ SubmitAgain(t)
  PROVE  Queues!Use(t)
<1>1. /\ pc[t] # "polling" /\ idx[t] \in Pool
      /\ pc' = [pc EXCEPT ![t] = "polling"]
      /\ idx' = idx
      /\ tl_emulator'[t] = idx[t]
      /\ \A u \in Threads : u # t => tl_emulator'[u] = tl_emulator[u]
  BY DEF IInv, TypeOK, LocalMatches, StoreHandle, SubmitAgain
<1>2. pc'[t] = "polling" /\ \A u \in Threads : u # t => pc'[u] = pc[u]
  BY <1>1 DEF IInv, TypeOK
<1>3. Given[t] = idx[t] /\ Given[t] # NoEmulator /\ Using[t] = NoEmulator
  BY <1>1, PoolNumbers DEF Given, Using
<1>4. Using' = [Using EXCEPT ![t] = Given[t]]
  BY <1>1, <1>2, <1>3 DEF Using
<1>5. Given' = Given /\ Refused' = Refused /\ Leftover' = Leftover
  BY <1>1 DEF Given, Refused, Leftover, Holders
<1> QED
  BY <1>3, <1>4, <1>5, LeftIsLeftover DEF Queues!Use, LeftMatches

LEMMA IoReturnsDone ==
  ASSUME IInv, IInv', NEW t \in Threads, IoReturns(t)
  PROVE  Queues!Done(t)
<1>1. /\ pc[t] = "polling" /\ pc' = [pc EXCEPT ![t] = "idle"]
      /\ idx' = idx /\ tl_emulator' = tl_emulator
  BY DEF IoReturns
<1>2. pc'[t] = "idle" /\ \A u \in Threads : u # t => pc'[u] = pc[u]
  BY <1>1 DEF IInv, TypeOK
<1>3. Using[t] # NoEmulator
  BY <1>1, PoolNumbers DEF IInv, LocalMatches, Using
<1>4. Using' = [Using EXCEPT ![t] = NoEmulator]
  BY <1>1, <1>2 DEF Using
<1>5. Given' = Given /\ Refused' = Refused /\ Leftover' = Leftover
  BY <1>1 DEF Given, Refused, Leftover, Holders
<1> QED
  BY <1>3, <1>4, <1>5, LeftIsLeftover DEF Queues!Done, LeftMatches

(* The return of an overdraft, the start of a device, the end of a thread. *)
LEMMA ThreadStepHidden ==
  ASSUME IInv, IInv', NEW t \in Threads,
         ReturnIndex(t) \/ StartDevice(t) \/ ThreadExits(t)
  PROVE  UNCHANGED <<Given, Using, Refused, Left>>
<1>1. /\ pc[t] # "polling" /\ idx' = idx /\ tl_emulator' = tl_emulator
      /\ \E c \in {"eagain", "started", "exited"} : pc' = [pc EXCEPT ![t] = c]
  BY DEF ReturnIndex, StartDevice, ThreadExits
<1>2. pc'[t] # "polling" /\ \A u \in Threads : u # t => pc'[u] = pc[u]
  BY <1>1 DEF IInv, TypeOK
<1> QED
  BY <1>1, <1>2, StepHidden

(* Device loops and the destructor take nothing and give nothing back.     *)
LEMMA OtherStepHidden ==
  ASSUME IInv, IInv',
         \/ \E e \in Pool : DeviceEnds(e)
         \/ LoadCount \/ StopOne \/ StopsDone \/ JoinOne \/ JoinsDone
         \/ UNCHANGED vars
  PROVE  UNCHANGED <<Given, Using, Refused, Left>>
<1>1. UNCHANGED <<pc, idx, tl_emulator>>
  BY DEF DeviceEnds, LoadCount, StopOne, StopsDone, JoinOne, JoinsDone, vars, appVars
<1> QED
  BY <1>1, StepHidden

LEMMA NextDispenser ==
  IInv /\ [Next]_vars => [Queues!Next]_<<Given, Using, Refused, Left>>
<1> SUFFICES ASSUME IInv, [Next]_vars
             PROVE  [Queues!Next]_<<Given, Using, Refused, Left>>
  OBVIOUS
<1>1. IInv'
  BY NextIInv
<1>2. CASE \E t \in Threads : ClaimIndex(t)
  BY <1>1, <1>2, ClaimIndexGives DEF Queues!Next
<1>3. CASE \E t \in Threads : CallFails(t)
  BY <1>1, <1>3, CallFailsAccepts DEF Queues!Next
<1>4. CASE \E t \in Threads : StoreHandle(t) \/ SubmitAgain(t)
  BY <1>1, <1>4, CallUses DEF Queues!Next
<1>5. CASE \E t \in Threads : IoReturns(t)
  BY <1>1, <1>5, IoReturnsDone DEF Queues!Next
<1>6. CASE \E t \in Threads : ReturnIndex(t) \/ StartDevice(t) \/ ThreadExits(t)
  BY <1>1, <1>6, ThreadStepHidden
<1>7. CASE \/ \E e \in Pool : DeviceEnds(e)
           \/ LoadCount \/ StopOne \/ StopsDone \/ JoinOne \/ JoinsDone
           \/ UNCHANGED vars
  BY <1>1, <1>7, OtherStepHidden
<1> QED
  BY <1>2, <1>3, <1>4, <1>5, <1>6, <1>7 DEF Next

(* EmulatorPool::allocate implements Dispenser for any number of threads,  *)
(* with or without an orderly exit: a thread gets one emulator for good,   *)
(* nobody else gets it or submits to it, and EAGAIN means none was left.   *)
THEOREM Refinement == Spec => ImplementsDispenser
<1>1. Init => IInv /\ Queues!Init
  BY InitIInv, InitDispenser
<1>2. IInv /\ [Next]_vars => IInv' /\ [Queues!Next]_<<Given, Using, Refused, Left>>
  BY NextIInv, NextDispenser
<1> QED
  BY <1>1, <1>2, PTL DEF Spec, ImplementsDispenser, Queues!Spec

-----------------------------------------------------------------------------
(* What shutdown_all waits for.                                            *)

(* A join that has to wait waits for a device loop that was told to stop:  *)
(* the guard of DeviceEnds.                                                *)
JoinCanEnd ==
  fini = "join" /\ i < n /\ i \in Pool /\ joinable[i] /\ device[i] # "ended" =>
    device[i] = "loop" /\ stopped[i]

StopsReached ==
  /\ fini = "stop" => \A e \in Pool : e < i => stopped[e]
  /\ fini \in {"join", "done"} => \A e \in Pool : e < n => stopped[e]

HandlesStarted ==
  /\ \A t \in Threads : pc[t] = "started" => device[idx[t]] # "none"
  /\ \A e \in Pool : joinable[e] => device[e] # "none"

LEMMA NextStopsReached ==
  IInv /\ StopsReached /\ [Next]_vars => StopsReached'
<1> SUFFICES ASSUME IInv, StopsReached, [Next]_vars PROVE StopsReached'
  OBVIOUS
<1>1. CASE UNCHANGED <<stopped, fini, n, i>>
  BY <1>1 DEF StopsReached
<1>2. CASE LoadCount
  BY <1>2, PoolNumbers DEF LoadCount, StopsReached
<1>3. CASE StopOne
  <2>1. \A e \in Pool : e < i + 1 => e < i \/ e = i
    BY PoolNumbers DEF IInv, TypeOK
  <2>2. \A e \in Pool : stopped'[e] = (stopped[e] \/ e = i)
    BY <1>3 DEF StopOne
  <2> QED
    BY <1>3, <2>1, <2>2 DEF StopOne, StopsReached
<1>4. CASE StopsDone
  BY <1>4, PoolNumbers DEF IInv, TypeOK, StopsDone, StopBound, StopsReached
<1>5. CASE JoinOne \/ JoinsDone
  BY <1>5 DEF JoinOne, JoinsDone, StopsReached
<1> QED
  BY <1>1, <1>2, <1>3, <1>4, <1>5 DEF Next, vars, finiVars, ClaimIndex, ReturnIndex,
     CallFails, StartDevice, StoreHandle, SubmitAgain, IoReturns, ThreadExits, DeviceEnds

LEMMA NextHandlesStarted ==
  IInv /\ HandlesStarted /\ [Next]_vars => HandlesStarted'
<1> SUFFICES ASSUME IInv, HandlesStarted, [Next]_vars PROVE HandlesStarted'
  OBVIOUS
<1>1. CASE /\ UNCHANGED <<device, joinable>>
           /\ \A t \in Threads : pc'[t] = "started" => pc[t] = "started" /\ idx'[t] = idx[t]
  BY <1>1 DEF HandlesStarted
<1>2. ASSUME NEW t \in Threads, StartDevice(t)
      PROVE  HandlesStarted'
  BY <1>2, PoolNumbers DEF IInv, TypeOK, LocalMatches, StartDevice, HandlesStarted
<1>3. ASSUME NEW t \in Threads, StoreHandle(t)
      PROVE  HandlesStarted'
  BY <1>3 DEF IInv, TypeOK, LocalMatches, StoreHandle, HandlesStarted
<1>4. ASSUME NEW e \in Pool, DeviceEnds(e)
      PROVE  HandlesStarted'
  BY <1>4 DEF IInv, TypeOK, LocalMatches, DeviceEnds, appVars, HandlesStarted
<1>5. CASE JoinOne
  BY <1>5 DEF JoinOne, appVars, HandlesStarted
<1>6. ASSUME NEW t \in Threads,
             \/ ClaimIndex(t) \/ ReturnIndex(t) \/ CallFails(t)
             \/ SubmitAgain(t) \/ IoReturns(t) \/ ThreadExits(t)
      PROVE  HandlesStarted'
  BY <1>1, <1>6 DEF IInv, TypeOK, ClaimIndex, ReturnIndex, CallFails, SubmitAgain,
     IoReturns, ThreadExits
<1>7. CASE LoadCount \/ StopOne \/ StopsDone \/ JoinsDone \/ UNCHANGED vars
  BY <1>1, <1>7 DEF LoadCount, StopOne, StopsDone, JoinsDone, vars, appVars
<1> QED
  BY <1>2, <1>3, <1>4, <1>5, <1>6, <1>7 DEF Next

(* shutdown_all never waits for a device thread that it has not told to    *)
(* stop, nor for one that was not started, orderly exit or not.            *)
THEOREM JoinsCanEnd == Spec => []JoinCanEnd
<1>1. Init => StopsReached /\ HandlesStarted
  BY DEF Init, StopsReached, HandlesStarted
<1>2. IInv /\ StopsReached /\ HandlesStarted => JoinCanEnd
  BY DEF IInv, TypeOK, StopsReached, HandlesStarted, JoinCanEnd
<1> QED
  BY <1>1, <1>2, IInvHolds, NextStopsReached, NextHandlesStarted, PTL DEF Spec
=============================================================================
