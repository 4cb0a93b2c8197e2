---------------------------- MODULE FakeFdProofs ----------------------------
(***************************************************************************)
(* Proofs about FakeFd for any number of threads and slots: who owns a     *)
(* slot of the table, when an open may find none, and where the file       *)
(* position of an FD is.                                                   *)
(***************************************************************************)
EXTENDS FakeFd, TLAPS, FiniteSetTheorems

TypeOK ==
  /\ state \in [Fds -> {"FREE", "OPEN"}]
  /\ file_size \in [Fds -> Nat]
  /\ file_pos \in [Fds -> Int]
  /\ pc \in [Threads -> {"idle", "scan", "init", "enfile", "release", "io",
                         "advance", "seek"}]
  /\ arg \in [Threads -> Fds]
  /\ count \in [Threads -> Nat]
  /\ pos \in [Threads -> Int]
  /\ n \in [Threads -> Int]
  /\ held \subseteq Fds

(* Between the exchange that wins a slot and the return of open, and       *)
(* between the call of close and the release, the slot belongs to a call.  *)
Owns(t) == pc[t] \in {"init", "release"}

(* A slot in a call is OPEN, not held, and in no other call.               *)
CallsExclusive ==
  \A t \in Threads : Owns(t) =>
    /\ state[arg[t]] = "OPEN"
    /\ arg[t] \notin held
    /\ \A u \in Threads \ {t} : Owns(u) => arg[u] # arg[t]

HeldReady ==
  \A fd \in held : state[fd] = "OPEN" /\ file_size[fd] = MOCK_FILE_SIZE

(* No slot is OPEN for nobody.                                             *)
OpenOwned ==
  \A fd \in Fds : state[fd] = "OPEN" =>
    fd \in held \/ \E t \in Threads : Owns(t) /\ arg[t] = fd

IInv ==
  /\ TypeOK
  /\ CallsExclusive
  /\ HeldReady
  /\ OpenOwned

-----------------------------------------------------------------------------
LEMMA SlotZero == 0 \in Fds
BY FakeFdAssumption DEF Fds

LEMMA InitIInv == Init => IInv
<1> SUFFICES ASSUME Init PROVE IInv
  OBVIOUS
<1>1. TypeOK
  BY SlotZero DEF Init, TypeOK
<1>2. CallsExclusive /\ HeldReady /\ OpenOwned
  BY DEF Init, CallsExclusive, HeldReady, OpenOwned, Owns
<1> QED
  BY <1>1, <1>2 DEF IInv

(* The position is none of the business of ownership, and                  *)
(* neither is a step of a call that owns nothing before and after.         *)
LEMMA NoOwnerMoves ==
  ASSUME IInv, TypeOK', UNCHANGED <<state, file_size, held>>,
         \A t \in Threads : Owns(t)' <=> Owns(t),
         \A t \in Threads : Owns(t) => arg'[t] = arg[t]
  PROVE  IInv'
<1> USE DEF IInv
<1>1. CallsExclusive'
  BY DEF CallsExclusive
<1>2. HeldReady'
  BY DEF HeldReady
<1>3. OpenOwned'
  BY DEF OpenOwned
<1> QED
  BY <1>1, <1>2, <1>3

LEMMA OpenBeginIInv ==
  ASSUME IInv, NEW t \in Threads, OpenBegin(t)
  PROVE  IInv'
<1>1. TypeOK'
  BY SlotZero DEF IInv, TypeOK, OpenBegin, table
<1>2. /\ UNCHANGED <<state, file_size, held>>
      /\ \A u \in Threads : Owns(u)' <=> Owns(u)
      /\ \A u \in Threads : Owns(u) => arg'[u] = arg[u]
  BY DEF IInv, TypeOK, OpenBegin, table, Owns
<1> QED
  BY <1>1, <1>2, NoOwnerMoves, Zenon

LEMMA OpenSkipIInv ==
  ASSUME IInv, NEW t \in Threads, OpenSkip(t)
  PROVE  IInv'
<1>1. arg[t] \in Fds /\ arg[t] + 1 \in Fds
  <2>1. arg[t] \in Fds /\ arg[t] < LastSlot
    BY DEF IInv, TypeOK, OpenSkip
  <2> QED
    BY <2>1, FakeFdAssumption DEF LastSlot, Fds
<1>2. TypeOK'
  BY <1>1 DEF IInv, TypeOK, OpenSkip, table
<1>3. /\ UNCHANGED <<state, file_size, held>>
      /\ \A u \in Threads : Owns(u)' <=> Owns(u)
      /\ \A u \in Threads : Owns(u) => arg'[u] = arg[u]
  BY DEF IInv, TypeOK, OpenSkip, table, Owns
<1> QED
  BY <1>2, <1>3, NoOwnerMoves, Zenon

(* The exchange finds the slot FREE, so it is not held and in no call.     *)
LEMMA OpenClaimIInv ==
  ASSUME IInv, NEW t \in Threads, OpenClaim(t)
  PROVE  IInv'
<1> DEFINE i == arg[t]
<1>1. /\ i \in Fds /\ state[i] = "FREE"
      /\ state' = [state EXCEPT ![i] = "OPEN"]
      /\ pc[t] = "scan" /\ pc' = [pc EXCEPT ![t] = "init"]
      /\ UNCHANGED <<file_size, file_pos, arg, count, pos, n, held>>
  BY DEF IInv, TypeOK, OpenClaim, Claim
<1>2. i \notin held /\ \A u \in Threads : Owns(u) => arg[u] # i
  BY <1>1 DEF IInv, HeldReady, CallsExclusive
<1>3. TypeOK'
  BY <1>1 DEF IInv, TypeOK
<1>4. \A u \in Threads : Owns(u)' <=> Owns(u) \/ u = t
  BY <1>1 DEF IInv, TypeOK, Owns
<1>5. \A fd \in Fds : state'[fd] = IF fd = i THEN "OPEN" ELSE state[fd]
  BY <1>1 DEF IInv, TypeOK
<1> HIDE DEF i
<1>6. CallsExclusive'
  <2> SUFFICES ASSUME NEW u \in Threads, Owns(u)'
               PROVE  /\ state'[arg'[u]] = "OPEN"
                      /\ arg'[u] \notin held'
                      /\ \A v \in Threads \ {u} : Owns(v)' => arg'[v] # arg'[u]
    BY DEF CallsExclusive
  <2>1. arg[t] = i /\ arg' = arg /\ held' = held /\ arg[u] \in Fds
    BY <1>1 DEF i, IInv, TypeOK
  <2>2. CASE u = t
    BY <1>1, <1>2, <1>4, <1>5, <2>1, <2>2
  <2>3. CASE u # t
    <3>1. Owns(u)
      BY <1>4, <2>3
    <3> QED
      BY <1>2, <1>4, <1>5, <2>1, <2>3, <3>1 DEF IInv, CallsExclusive
  <2> QED
    BY <2>2, <2>3
<1>7. HeldReady'
  BY <1>1, <1>2, <1>5 DEF IInv, TypeOK, HeldReady
<1>8. OpenOwned'
  <2> SUFFICES ASSUME NEW fd \in Fds, state'[fd] = "OPEN"
               PROVE  fd \in held' \/ \E u \in Threads : Owns(u)' /\ arg'[u] = fd
    BY DEF OpenOwned
  <2>1. CASE fd = i
    BY <1>1, <1>4, <2>1 DEF i
  <2>2. CASE fd # i
    BY <1>1, <1>4, <1>5, <2>2 DEF IInv, OpenOwned
  <2> QED
    BY <2>1, <2>2
<1> QED
  BY <1>3, <1>6, <1>7, <1>8 DEF IInv

LEMMA OpenFailIInv ==
  ASSUME IInv, NEW t \in Threads, OpenFail(t)
  PROVE  IInv'
<1>1. TypeOK'
  BY DEF IInv, TypeOK, OpenFail, table
<1>2. /\ UNCHANGED <<state, file_size, held>>
      /\ \A u \in Threads : Owns(u)' <=> Owns(u)
      /\ \A u \in Threads : Owns(u) => arg'[u] = arg[u]
  BY DEF IInv, TypeOK, OpenFail, table, Owns
<1> QED
  BY <1>1, <1>2, NoOwnerMoves, Zenon

LEMMA OpenFailReturnIInv ==
  ASSUME IInv, NEW t \in Threads, OpenFailReturn(t)
  PROVE  IInv'
<1>1. TypeOK'
  BY SlotZero DEF IInv, TypeOK, OpenFailReturn, Return, table
<1>2. /\ UNCHANGED <<state, file_size, held>>
      /\ \A u \in Threads : Owns(u)' <=> Owns(u)
      /\ \A u \in Threads : Owns(u) => arg'[u] = arg[u]
  BY DEF IInv, TypeOK, OpenFailReturn, Return, table, Owns
<1> QED
  BY <1>1, <1>2, NoOwnerMoves, Zenon

(* The slot passes from the call to the application.                       *)
LEMMA OpenInitIInv ==
  ASSUME IInv, NEW t \in Threads, OpenInit(t)
  PROVE  IInv'
<1> DEFINE i == arg[t]
<1>1. /\ i \in Fds /\ Owns(t)
      /\ state' = state
      /\ file_size' = [file_size EXCEPT ![i] = MOCK_FILE_SIZE]
      /\ file_pos' = [file_pos EXCEPT ![i] = 0]
      /\ held' = held \cup {i}
      /\ pc' = [pc EXCEPT ![t] = "idle"]
      /\ arg' = [arg EXCEPT ![t] = 0]
      /\ count' = [count EXCEPT ![t] = 0]
      /\ pos' = [pos EXCEPT ![t] = 0]
      /\ n' = [n EXCEPT ![t] = 0]
  BY DEF IInv, TypeOK, OpenInit, InitialPos, Return, Owns
<1>2. TypeOK'
  BY <1>1, SlotZero, FakeFdAssumption DEF IInv, TypeOK
<1>3. /\ \A u \in Threads : Owns(u)' <=> Owns(u) /\ u # t
      /\ \A u \in Threads : u # t => arg'[u] = arg[u]
  BY <1>1 DEF IInv, TypeOK, Owns
<1>4. /\ state[i] = "OPEN" /\ i \notin held
      /\ \A u \in Threads : Owns(u)' => arg'[u] # i
  BY <1>1, <1>3 DEF IInv, CallsExclusive
<1> HIDE DEF i
<1>5. CallsExclusive'
  BY <1>1, <1>3, <1>4 DEF IInv, CallsExclusive
<1>6. HeldReady'
  BY <1>1, <1>4 DEF IInv, TypeOK, HeldReady
<1>7. OpenOwned'
  <2> SUFFICES ASSUME NEW fd \in Fds, state'[fd] = "OPEN", fd # i, fd \notin held
               PROVE  \E u \in Threads : Owns(u)' /\ arg'[u] = fd
    BY <1>1 DEF OpenOwned
  <2>1. PICK u \in Threads : Owns(u) /\ arg[u] = fd
    BY <1>1 DEF IInv, OpenOwned
  <2>2. u # t
    BY <2>1 DEF i
  <2> QED
    BY <1>3, <2>1, <2>2
<1> QED
  BY <1>2, <1>5, <1>6, <1>7 DEF IInv

(* And from the application to the call of close.                          *)
LEMMA CloseLookupIInv ==
  ASSUME IInv, NEW t \in Threads, NEW fd \in Fds, CloseLookup(t, fd)
  PROVE  IInv'
<1>1. /\ fd \in held /\ ~Owns(t)
      /\ UNCHANGED <<state, file_size, file_pos, count, pos, n>>
      /\ held' = held \ {fd}
      /\ pc' = [pc EXCEPT ![t] = "release"]
      /\ arg' = [arg EXCEPT ![t] = fd]
  BY DEF CloseLookup, Owns, table
<1>2. TypeOK'
  BY <1>1 DEF IInv, TypeOK
<1>3. /\ \A u \in Threads : Owns(u)' <=> Owns(u) \/ u = t
      /\ \A u \in Threads : u # t => arg'[u] = arg[u]
      /\ arg'[t] = fd
  BY <1>1 DEF IInv, TypeOK, Owns
<1>4. /\ state[fd] = "OPEN"
      /\ \A u \in Threads : Owns(u) => arg[u] # fd
  BY <1>1 DEF IInv, HeldReady, CallsExclusive
<1>5. CallsExclusive'
  <2> SUFFICES ASSUME NEW u \in Threads, Owns(u)'
               PROVE  /\ state'[arg'[u]] = "OPEN"
                      /\ arg'[u] \notin held'
                      /\ \A v \in Threads \ {u} : Owns(v)' => arg'[v] # arg'[u]
    BY DEF CallsExclusive
  <2>1. CASE u = t
    BY <1>1, <1>3, <1>4, <2>1
  <2>2. CASE u # t
    BY <1>1, <1>3, <1>4, <2>2 DEF IInv, CallsExclusive
  <2> QED
    BY <2>1, <2>2
<1>6. HeldReady'
  BY <1>1 DEF IInv, HeldReady
<1>7. OpenOwned'
  <2> SUFFICES ASSUME NEW g \in Fds, state'[g] = "OPEN", g \notin held'
               PROVE  \E u \in Threads : Owns(u)' /\ arg'[u] = g
    BY DEF OpenOwned
  <2>1. CASE g = fd
    BY <1>3, <2>1
  <2>2. CASE g # fd
    BY <1>1, <1>3, <2>2 DEF IInv, OpenOwned
  <2> QED
    BY <2>1, <2>2
<1> QED
  BY <1>2, <1>5, <1>6, <1>7 DEF IInv

(* The release frees a slot that is in this call alone.                    *)
LEMMA CloseReleaseIInv ==
  ASSUME IInv, NEW t \in Threads, CloseRelease(t)
  PROVE  IInv'
<1> DEFINE i == arg[t]
<1>1. /\ i \in Fds /\ Owns(t)
      /\ state[i] = "OPEN" /\ i \notin held
      /\ \A u \in Threads \ {t} : Owns(u) => arg[u] # i
  BY DEF IInv, TypeOK, CallsExclusive, CloseRelease, Owns
<1>2. /\ state' = [state EXCEPT ![i] = "FREE"]
      /\ UNCHANGED <<file_size, file_pos, held>>
      /\ pc' = [pc EXCEPT ![t] = "idle"]
      /\ arg' = [arg EXCEPT ![t] = 0]
      /\ count' = [count EXCEPT ![t] = 0]
      /\ pos' = [pos EXCEPT ![t] = 0]
      /\ n' = [n EXCEPT ![t] = 0]
  BY <1>1 DEF CloseRelease, Released, Return
<1>3. TypeOK'
  BY <1>1, <1>2, SlotZero DEF IInv, TypeOK
<1>4. /\ \A u \in Threads : Owns(u)' <=> Owns(u) /\ u # t
      /\ \A u \in Threads : u # t => arg'[u] = arg[u]
      /\ \A fd \in Fds : fd # i => state'[fd] = state[fd]
      /\ state'[i] = "FREE"
  BY <1>1, <1>2 DEF IInv, TypeOK, Owns
<1>5. CallsExclusive'
  BY <1>1, <1>2, <1>4 DEF IInv, TypeOK, CallsExclusive
<1>6. HeldReady'
  BY <1>1, <1>2, <1>4 DEF IInv, TypeOK, HeldReady
<1>7. OpenOwned'
  BY <1>1, <1>2, <1>4 DEF IInv, OpenOwned
<1> QED
  BY <1>3, <1>5, <1>6, <1>7 DEF IInv

(* Reads, writes and seeks own no slot and change none.                    *)
LEMMA OwnsNothing ==
  ASSUME IInv, TypeOK', NEW t \in Threads, ~Owns(t),
         UNCHANGED <<state, file_size, held>>,
         NEW c, c \notin {"init", "release"}, pc' = [pc EXCEPT ![t] = c],
         NEW i, arg' = [arg EXCEPT ![t] = i]
  PROVE  IInv'
<1>1. /\ \A u \in Threads : Owns(u)' <=> Owns(u)
      /\ \A u \in Threads : Owns(u) => arg'[u] = arg[u]
  BY DEF IInv, TypeOK, Owns
<1> QED
  BY <1>1, NoOwnerMoves, Zenon

LEMMA ClampIsInt ==
  ASSUME IInv, NEW fd \in Fds, NEW p \in Int, NEW c \in Nat
  PROVE  Clamp(fd, p, c) \in Int
BY DEF IInv, TypeOK, Clamp, Smaller

LEMMA IoBeginIInv ==
  ASSUME IInv, NEW t \in Threads, NEW fd \in Fds, NEW c \in Counts, IoBegin(t, fd, c)
  PROVE  IInv'
<1>1. TypeOK'
  BY FakeFdAssumption DEF IInv, TypeOK, IoBegin, table
<1>2. ~Owns(t)
  BY DEF IoBegin, Owns
<1> QED
  BY <1>1, <1>2, OwnsNothing DEF IoBegin, table

LEMMA IoPerformIInv ==
  ASSUME IInv, NEW t \in Threads, IoPerform(t)
  PROVE  IInv'
<1>1. Clamp(arg[t], pos[t], count[t]) \in Int
  BY ClampIsInt DEF IInv, TypeOK
<1>2. TypeOK'
  BY <1>1 DEF IInv, TypeOK, IoPerform, IoDone, table
<1>3. ~Owns(t) /\ arg' = [arg EXCEPT ![t] = arg[t]]
  BY DEF IInv, TypeOK, IoPerform, IoDone, Owns
<1> QED
  BY <1>2, <1>3, OwnsNothing DEF IoPerform, IoDone, table

LEMMA IoNoEmulatorIInv ==
  ASSUME IInv, NEW t \in Threads, IoNoEmulator(t)
  PROVE  IInv'
<1>1. TypeOK'
  BY DEF IInv, TypeOK, IoNoEmulator, IoDone, table
<1>2. ~Owns(t) /\ arg' = [arg EXCEPT ![t] = arg[t]]
  BY DEF IInv, TypeOK, IoNoEmulator, IoDone, Owns
<1> QED
  BY <1>1, <1>2, OwnsNothing DEF IoNoEmulator, IoDone, table

LEMMA IoAdvanceIInv ==
  ASSUME IInv, NEW t \in Threads, IoAdvance(t)
  PROVE  IInv'
<1>1. Advanced(t) \in Int
  BY DEF IInv, TypeOK, Advanced
<1>2. TypeOK'
  BY <1>1, SlotZero DEF IInv, TypeOK, IoAdvance, Return
<1>3. ~Owns(t)
  BY DEF IoAdvance, Owns
<1> QED
  BY <1>2, <1>3, OwnsNothing DEF IoAdvance, Return

LEMMA SeekBeginIInv ==
  ASSUME IInv, NEW t \in Threads, NEW fd \in Fds, NEW base \in Int, NEW off \in Int,
         SeekBegin(t, fd, base, off)
  PROVE  IInv'
<1>1. TypeOK'
  BY DEF IInv, TypeOK, SeekBegin, table
<1>2. ~Owns(t)
  BY DEF SeekBegin, Owns
<1> QED
  BY <1>1, <1>2, OwnsNothing DEF SeekBegin, table

LEMMA SeekStoreIInv ==
  ASSUME IInv, NEW t \in Threads, SeekStore(t)
  PROVE  IInv'
<1>1. SeekTarget(t) \in Int
  BY DEF IInv, TypeOK, SeekTarget
<1>2. TypeOK'
  BY <1>1, SlotZero DEF IInv, TypeOK, SeekStore, Return
<1>3. ~Owns(t)
  BY DEF SeekStore, Owns
<1> QED
  BY <1>2, <1>3, OwnsNothing DEF SeekStore, Return

LEMMA SeekIsBegin ==
  ASSUME TypeOK, NEW t \in Threads,
         \E fd \in Fds, off \in SeekOffsets :
           SeekSet(t, fd, off) \/ SeekCur(t, fd, off) \/ SeekEnd(t, fd, off)
  PROVE  \E fd \in Fds, base, off \in Int : SeekBegin(t, fd, base, off)
<1>1. PICK fd \in Fds, off \in SeekOffsets :
        SeekSet(t, fd, off) \/ SeekCur(t, fd, off) \/ SeekEnd(t, fd, off)
  OBVIOUS
<1>2. off \in Int /\ file_pos[fd] \in Int /\ file_size[fd] \in Int /\ 0 \in Int
  BY FakeFdAssumption DEF TypeOK
<1> QED
  BY <1>1, <1>2 DEF SeekSet, SeekCur, SeekEnd

-----------------------------------------------------------------------------
LEMMA NextIInv == IInv /\ [Next]_vars => IInv'
<1> SUFFICES ASSUME IInv, [Next]_vars PROVE IInv'
  OBVIOUS
<1>1. ASSUME Next PROVE IInv'
  <2>1. PICK t \in Threads :
          \/ OpenBegin(t) \/ OpenClaim(t) \/ OpenSkip(t) \/ OpenFail(t)
          \/ OpenFailReturn(t) \/ OpenInit(t)
          \/ \E fd \in Fds : CloseLookup(t, fd)
          \/ CloseRelease(t)
          \/ \E fd \in Fds, c \in Counts : IoBegin(t, fd, c)
          \/ IoPerform(t) \/ IoNoEmulator(t) \/ IoAdvance(t)
          \/ \E fd \in Fds, off \in SeekOffsets :
               SeekSet(t, fd, off) \/ SeekCur(t, fd, off) \/ SeekEnd(t, fd, off)
          \/ SeekStore(t)
    BY <1>1 DEF Next
  <2>2. CASE OpenBegin(t) \/ OpenClaim(t) \/ OpenSkip(t) \/ OpenFail(t)
               \/ OpenFailReturn(t) \/ OpenInit(t)
    BY <2>2, OpenBeginIInv, OpenClaimIInv, OpenSkipIInv, OpenFailIInv,
       OpenFailReturnIInv, OpenInitIInv, Zenon
  <2>3. CASE CloseRelease(t) \/ \E fd \in Fds : CloseLookup(t, fd)
    BY <2>3, CloseLookupIInv, CloseReleaseIInv, Zenon
  <2>4. CASE IoPerform(t) \/ IoNoEmulator(t) \/ IoAdvance(t) \/ SeekStore(t)
    BY <2>4, IoPerformIInv, IoNoEmulatorIInv, IoAdvanceIInv, SeekStoreIInv, Zenon
  <2>5. CASE \E fd \in Fds, c \in Counts : IoBegin(t, fd, c)
    BY <2>5, IoBeginIInv, Zenon
  <2>6. CASE \E fd \in Fds, off \in SeekOffsets :
               SeekSet(t, fd, off) \/ SeekCur(t, fd, off) \/ SeekEnd(t, fd, off)
    <3>1. \E fd \in Fds, base, off \in Int : SeekBegin(t, fd, base, off)
      BY <2>6, SeekIsBegin DEF IInv
    <3> QED
      BY <3>1, SeekBeginIInv, Zenon
  <2> QED
    BY <2>1, <2>2, <2>3, <2>4, <2>5, <2>6
<1>2. CASE UNCHANGED vars
  BY <1>2 DEF vars, table, local, IInv, TypeOK, CallsExclusive, HeldReady,
              OpenOwned, Owns
<1> QED
  BY <1>1, <1>2

LEMMA IInvHolds == Spec => []IInv
BY InitIInv, NextIInv, PTL DEF Spec

(* The table gives every slot one owner, whatever opens, failures, closes, *)
(* transfers and seeks of any number of threads interleave: two opens      *)
(* never share a slot, a held FD stays open, and no slot leaks.            *)
THEOREM SlotsOwned == Spec => []SlotOwnership
<1>1. IInv => SlotOwnership
  BY DEF IInv, TypeOK, CallsExclusive, HeldReady, OpenOwned, SlotOwnership, Owns
<1> QED
  BY <1>1, IInvHolds, PTL

-----------------------------------------------------------------------------
(* The capacity of the scan.                                               *)

Busy(t) == pc[t] \in {"scan", "init", "release"}

(* What the rest of the table holds against an open of t whose scan has    *)
(* come to slot j: the calls at j or beyond, and the FDs held from j on.   *)
Contenders(t, j) == {u \in Threads \ {t} : Busy(u) /\ arg[u] >= j}
HeldFrom(j) == {fd \in held : fd >= j}
Taken(t, j) == Cardinality(Contenders(t, j)) + Cardinality(HeldFrom(j))

(* Unless the table was exceeded meanwhile, they are too few for the slots *)
(* from j on, at every slot the scan has passed.  A scan that follows      *)
(* cannot upset this: it moves on from j only past a slot another owns.    *)
ScanBound ==
  \A t \in Threads : pc[t] = "scan" /\ ~tooMany[t] =>
    \A j \in 0 .. arg[t] : Taken(t, j) <= LastSlot - j

CapInv ==
  /\ tooMany \in [Threads -> BOOLEAN]
  /\ ScanBound
  /\ FailsOnlyBeyondCapacity


LEMMA FiniteParts ==
  /\ \A S \in SUBSET Threads : IsFiniteSet(S) /\ Cardinality(S) \in Nat
  /\ \A S \in SUBSET Fds : IsFiniteSet(S) /\ Cardinality(S) \in Nat
<1>1. IsFiniteSet(Threads) /\ IsFiniteSet(Fds)
  BY FakeFdAssumption, FS_Interval DEF Fds
<1> QED
  BY <1>1, FS_Subset, FS_CardinalityType

LEMMA TakenIsNat ==
  ASSUME TypeOK, NEW t, NEW j
  PROVE  /\ Contenders(t, j) \in SUBSET Threads /\ HeldFrom(j) \in SUBSET Fds
         /\ Taken(t, j) \in Nat
<1>1. Contenders(t, j) \in SUBSET Threads /\ HeldFrom(j) \in SUBSET Fds
  BY DEF TypeOK, Contenders, HeldFrom
<1> QED
  BY <1>1, FiniteParts DEF Taken

LEMMA TakenIsNatNext ==
  ASSUME TypeOK', NEW t, NEW j
  PROVE  /\ Contenders(t, j)' \in SUBSET Threads /\ HeldFrom(j)' \in SUBSET Fds
         /\ Taken(t, j)' \in Nat
<1>1. Contenders(t, j)' \in SUBSET Threads /\ HeldFrom(j)' \in SUBSET Fds
  BY DEF TypeOK, Contenders, HeldFrom
<1> QED
  BY <1>1, FiniteParts DEF Taken

(* How it changes when a call ends, and when a slot passes from the call   *)
(* to the application or back.                                             *)
LEMMA TakenShrinks ==
  ASSUME TypeOK, NEW t, NEW j,
         Contenders(t, j)' \subseteq Contenders(t, j), HeldFrom(j)' \subseteq HeldFrom(j)
  PROVE  Taken(t, j)' <= Taken(t, j)
<1>1. /\ Cardinality(Contenders(t, j)') <= Cardinality(Contenders(t, j))
      /\ Cardinality(HeldFrom(j)') <= Cardinality(HeldFrom(j))
  BY TakenIsNat, FiniteParts, FS_Subset
<1>2. /\ Cardinality(Contenders(t, j)) \in Nat /\ Cardinality(HeldFrom(j)) \in Nat
      /\ Cardinality(Contenders(t, j)') \in Nat /\ Cardinality(HeldFrom(j)') \in Nat
  BY TakenIsNat, FiniteParts
<1> QED
  BY <1>1, <1>2 DEF Taken

LEMMA TakenHandedOver ==
  ASSUME TypeOK, NEW t, NEW j, NEW u, NEW fd,
         u \in Contenders(t, j), Contenders(t, j)' = Contenders(t, j) \ {u},
         fd \notin HeldFrom(j), HeldFrom(j)' = HeldFrom(j) \cup {fd}
  PROVE  Taken(t, j)' = Taken(t, j)
<1>1. /\ Cardinality(Contenders(t, j)') = Cardinality(Contenders(t, j)) - 1
      /\ Cardinality(HeldFrom(j)') = Cardinality(HeldFrom(j)) + 1
  BY TakenIsNat, FiniteParts, FS_AddElement, FS_RemoveElement
<1> QED
  BY <1>1, TakenIsNat, FiniteParts DEF Taken

LEMMA TakenHandedBack ==
  ASSUME TypeOK, NEW t, NEW j, NEW u, NEW fd,
         u \notin Contenders(t, j), Contenders(t, j)' = Contenders(t, j) \cup {u},
         fd \in HeldFrom(j), HeldFrom(j)' = HeldFrom(j) \ {fd}
  PROVE  Taken(t, j)' = Taken(t, j)
<1>1. /\ Cardinality(Contenders(t, j)') = Cardinality(Contenders(t, j)) + 1
      /\ Cardinality(HeldFrom(j)') = Cardinality(HeldFrom(j)) - 1
  BY TakenIsNat, FiniteParts, FS_AddElement, FS_RemoveElement
<1> QED
  BY <1>1, TakenIsNat, FiniteParts DEF Taken

(* The demand counts the open itself and all it contends with.             *)
LEMMA DemandIsTaken ==
  ASSUME TypeOK', NEW t \in Threads, pc'[t] = "scan"
  PROVE  Cardinality({u \in Threads : pc'[u] \in {"scan", "init"}})
           + Cardinality({u \in Threads : pc'[u] = "release"}) + Cardinality(held')
         = Taken(t, 0)' + 1
<1> DEFINE O == {u \in Threads : pc'[u] \in {"scan", "init"}}
           C == {u \in Threads : pc'[u] = "release"}
<1>1. O \in SUBSET Threads /\ C \in SUBSET Threads /\ O \cap C = {}
  OBVIOUS
<1>2. Cardinality(O \cup C) = Cardinality(O) + Cardinality(C)
  <2>1. Cardinality(O \cup C) = Cardinality(O) + Cardinality(C) - Cardinality(O \cap C)
    BY <1>1, FiniteParts, FS_Union
  <2>2. Cardinality(O \cap C) = 0
    BY <1>1, FS_EmptySet
  <2> HIDE DEF O, C
  <2> QED
    BY <1>1, <2>1, <2>2, FiniteParts
<1>3. \A u \in Threads : arg'[u] >= 0
  BY DEF TypeOK, Fds
<1>4. O \cup C = Contenders(t, 0)' \cup {t} /\ t \notin Contenders(t, 0)'
  BY <1>3 DEF Contenders, Busy
<1>5. HeldFrom(0)' = held'
  <2>1. held' \subseteq Fds
    BY DEF TypeOK
  <2>2. \A fd \in Fds : fd >= 0
    BY DEF Fds
  <2> QED
    BY <2>1, <2>2 DEF HeldFrom
<1> HIDE DEF O, C
<1>6. Cardinality(O \cup C) = Cardinality(Contenders(t, 0)') + 1
  BY <1>4, TakenIsNatNext, FiniteParts, FS_AddElement
<1>7. /\ Cardinality(O) \in Nat /\ Cardinality(C) \in Nat
      /\ Cardinality(Contenders(t, 0)') \in Nat /\ Cardinality(held') \in Nat
  BY <1>1, <1>5, TakenIsNatNext, FiniteParts
<1>8. Cardinality(O) + Cardinality(C) + Cardinality(held') = Taken(t, 0)' + 1
  BY <1>2, <1>5, <1>6, <1>7 DEF Taken
<1> QED
  BY <1>8 DEF O, C

LEMMA ObserveType ==
  ASSUME Observe
  PROVE  /\ tooMany' \in [Threads -> BOOLEAN]
         /\ \A t \in Threads : pc'[t] = "enfile" /\ tooMany[t] => tooMany'[t]
BY DEF Observe

LEMMA ObserveBounds ==
  ASSUME TypeOK', Observe, NEW t \in Threads, pc'[t] = "scan", ~tooMany'[t]
  PROVE  ~tooMany[t] /\ Taken(t, 0)' <= LastSlot
<1> DEFINE d == Cardinality({u \in Threads : pc'[u] \in {"scan", "init"}})
                  + Cardinality({u \in Threads : pc'[u] = "release"}) + Cardinality(held')
<1>1. ~(tooMany[t] \/ d > FAKE_FD_COUNT)
  BY DEF Observe
<1>2. d = Taken(t, 0)' + 1
  BY DemandIsTaken
<1> HIDE DEF d
<1> QED
  BY <1>1, <1>2, TakenIsNatNext, FakeFdAssumption DEF LastSlot

LEMMA InitCapInv == Init => CapInv
BY DEF Init, CapInv, ScanBound, FailsOnlyBeyondCapacity

(* A step after which no scan has more against it than before.             *)
LEMMA CapKept ==
  ASSUME TypeOK, TypeOK', CapInv, tooMany' \in [Threads -> BOOLEAN],
         FailsOnlyBeyondCapacity',
         \A u \in Threads : pc'[u] = "scan" /\ ~tooMany'[u] =>
           /\ pc[u] = "scan" /\ ~tooMany[u] /\ arg'[u] = arg[u]
           /\ \A j \in Nat : Taken(u, j)' <= Taken(u, j)
  PROVE  CapInv'
<1>1. ScanBound'
  <2> SUFFICES ASSUME NEW u \in Threads, pc'[u] = "scan", ~tooMany'[u],
                      NEW j \in 0 .. arg'[u]
               PROVE  Taken(u, j)' <= LastSlot - j
    BY DEF ScanBound
  <2>1. /\ j \in Nat /\ j \in 0 .. arg[u] /\ pc[u] = "scan" /\ ~tooMany[u]
        /\ Taken(u, j)' <= Taken(u, j)
    BY DEF TypeOK, Fds
  <2>2. Taken(u, j) <= LastSlot - j
    BY <2>1 DEF CapInv, ScanBound
  <2>3. Taken(u, j) \in Nat /\ Taken(u, j)' \in Nat
    BY TakenIsNat, TakenIsNatNext
  <2> QED
    BY <2>1, <2>2, <2>3, FakeFdAssumption DEF LastSlot
<1> QED
  BY <1>1 DEF CapInv

(* A step of t that takes no slot and contends for none.                   *)
LEMMA CapStandsBack ==
  ASSUME TypeOK, TypeOK', CapInv, NEW t \in Threads,
         tooMany' \in [Threads -> BOOLEAN], FailsOnlyBeyondCapacity',
         \A u \in Threads \ {t} : pc'[u] = pc[u] /\ arg'[u] = arg[u],
         pc'[t] # "scan",
         Busy(t)' => Busy(t) /\ arg'[t] = arg[t],
         held' = held,
         \A u \in Threads : pc'[u] = "scan" /\ tooMany[u] => tooMany'[u]
  PROVE  CapInv'
<1> SUFFICES ASSUME NEW u \in Threads, pc'[u] = "scan", ~tooMany'[u]
             PROVE  /\ pc[u] = "scan" /\ ~tooMany[u] /\ arg'[u] = arg[u]
                    /\ \A j \in Nat : Taken(u, j)' <= Taken(u, j)
  BY CapKept, Zenon
<1>1. u # t /\ pc[u] = "scan" /\ ~tooMany[u] /\ arg'[u] = arg[u]
  OBVIOUS
<1>2. ASSUME NEW j \in Nat PROVE Taken(u, j)' <= Taken(u, j)
  <2>1. Contenders(u, j)' \subseteq Contenders(u, j)
    BY DEF Contenders, Busy
  <2>2. HeldFrom(j)' \subseteq HeldFrom(j)
    BY DEF HeldFrom
  <2> QED
    BY <2>1, <2>2, TakenShrinks
<1> QED
  BY <1>1, <1>2

(* One more open, at slot 0: what it adds is bounded by the demand.        *)
LEMMA OpenBeginCap ==
  ASSUME TypeOK, TypeOK', CapInv, NEW t \in Threads, OpenBegin(t)
  PROVE  CapInv'
<1>1. /\ pc[t] = "idle" /\ pc' = [pc EXCEPT ![t] = "scan"]
      /\ arg' = [arg EXCEPT ![t] = 0] /\ held' = held /\ Observe
  BY DEF OpenBegin
<1>2. ScanBound'
  <2> SUFFICES ASSUME NEW u \in Threads, pc'[u] = "scan", ~tooMany'[u],
                      NEW j \in 0 .. arg'[u]
               PROVE  Taken(u, j)' <= LastSlot - j
    BY DEF ScanBound
  <2>1. ~tooMany[u] /\ Taken(u, 0)' <= LastSlot
    BY <1>1, ObserveBounds
  <2>2. CASE j = 0
    BY <2>1, <2>2, FakeFdAssumption DEF LastSlot
  <2>3. CASE j # 0
    <3>1. /\ u # t /\ j \in Nat /\ j > 0 /\ j \in 0 .. arg[u] /\ pc[u] = "scan"
      BY <1>1, <2>3 DEF TypeOK, Fds
    <3>2. Contenders(u, j)' \subseteq Contenders(u, j)
      BY <1>1, <3>1 DEF TypeOK, Contenders, Busy
    <3>3. Taken(u, j)' <= Taken(u, j)
      BY <1>1, <3>2, TakenShrinks DEF HeldFrom
    <3>4. Taken(u, j) <= LastSlot - j
      BY <2>1, <3>1 DEF CapInv, ScanBound
    <3> QED
      BY <3>1, <3>3, <3>4, TakenIsNat, TakenIsNatNext, FakeFdAssumption DEF LastSlot
  <2> QED
    BY <2>2, <2>3
<1>3. FailsOnlyBeyondCapacity'
  BY <1>1, ObserveType DEF TypeOK, CapInv, FailsOnlyBeyondCapacity
<1> QED
  BY <1>1, <1>2, <1>3, ObserveType DEF CapInv

LEMMA OpenClaimCap ==
  ASSUME TypeOK, TypeOK', CapInv, NEW t \in Threads, OpenClaim(t)
  PROVE  CapInv'
<1>1. /\ pc[t] = "scan" /\ pc' = [pc EXCEPT ![t] = "init"]
      /\ arg' = arg /\ held' = held /\ Observe
  BY DEF OpenClaim
<1>2. FailsOnlyBeyondCapacity'
  BY <1>1, ObserveType DEF TypeOK, CapInv, FailsOnlyBeyondCapacity
<1>3. \A u \in Threads : pc'[u] = "scan" /\ tooMany[u] => tooMany'[u]
  BY <1>1, ObserveBounds, ObserveType
<1>4. /\ \A u \in Threads \ {t} : pc'[u] = pc[u] /\ arg'[u] = arg[u]
      /\ pc'[t] # "scan" /\ Busy(t) /\ arg'[t] = arg[t]
  BY <1>1 DEF TypeOK, Busy
<1> QED
  BY <1>1, <1>2, <1>3, <1>4, ObserveType, CapStandsBack

LEMMA OpenFailReturnCap ==
  ASSUME TypeOK, TypeOK', CapInv, NEW t \in Threads, OpenFailReturn(t)
  PROVE  CapInv'
<1>1. /\ pc[t] = "enfile" /\ pc' = [pc EXCEPT ![t] = "idle"]
      /\ arg' = [arg EXCEPT ![t] = 0] /\ held' = held /\ Observe
  BY DEF OpenFailReturn, Return
<1>2. FailsOnlyBeyondCapacity'
  BY <1>1, ObserveType DEF TypeOK, CapInv, FailsOnlyBeyondCapacity
<1>3. \A u \in Threads : pc'[u] = "scan" /\ tooMany[u] => tooMany'[u]
  BY <1>1, ObserveBounds, ObserveType
<1>4. /\ \A u \in Threads \ {t} : pc'[u] = pc[u] /\ arg'[u] = arg[u]
      /\ pc'[t] = "idle" /\ pc'[t] # "scan" /\ ~Busy(t)'
  BY <1>1 DEF TypeOK, Busy
<1> QED
  BY <1>1, <1>2, <1>3, <1>4, ObserveType, CapStandsBack

LEMMA CloseReleaseCap ==
  ASSUME TypeOK, TypeOK', CapInv, NEW t \in Threads, CloseRelease(t)
  PROVE  CapInv'
<1>1. /\ pc[t] = "release" /\ pc' = [pc EXCEPT ![t] = "idle"]
      /\ arg' = [arg EXCEPT ![t] = 0] /\ held' = held /\ Observe
  BY DEF CloseRelease, Return
<1>2. FailsOnlyBeyondCapacity'
  BY <1>1, ObserveType DEF TypeOK, CapInv, FailsOnlyBeyondCapacity
<1>3. \A u \in Threads : pc'[u] = "scan" /\ tooMany[u] => tooMany'[u]
  BY <1>1, ObserveBounds, ObserveType
<1>4. /\ \A u \in Threads \ {t} : pc'[u] = pc[u] /\ arg'[u] = arg[u]
      /\ pc'[t] # "scan" /\ ~Busy(t)'
  BY <1>1 DEF TypeOK, Busy
<1> QED
  BY <1>1, <1>2, <1>3, <1>4, ObserveType, CapStandsBack

(* A slot changes hands between a call and the application: what every     *)
(* scan has against it stays the same.                                     *)
LEMMA OpenInitCap ==
  ASSUME IInv, TypeOK', CapInv, NEW t \in Threads, OpenInit(t)
  PROVE  CapInv'
<1> DEFINE i == arg[t]
<1>1. /\ pc[t] = "init" /\ pc' = [pc EXCEPT ![t] = "idle"]
      /\ arg' = [arg EXCEPT ![t] = 0] /\ held' = held \cup {i} /\ Observe
      /\ i \in Fds /\ i \notin held
  BY DEF IInv, TypeOK, CallsExclusive, Owns, OpenInit, Return
<1>2. FailsOnlyBeyondCapacity'
  BY <1>1, ObserveType DEF IInv, TypeOK, CapInv, FailsOnlyBeyondCapacity
<1> SUFFICES ASSUME NEW u \in Threads, pc'[u] = "scan", ~tooMany'[u]
             PROVE  /\ pc[u] = "scan" /\ ~tooMany[u] /\ arg'[u] = arg[u]
                    /\ \A j \in Nat : Taken(u, j)' <= Taken(u, j)
  BY <1>1, <1>2, ObserveType, CapKept DEF IInv
<1>3. u # t /\ pc[u] = "scan" /\ ~tooMany[u] /\ arg'[u] = arg[u]
  BY <1>1, ObserveBounds DEF IInv, TypeOK
<1>4. ASSUME NEW j \in Nat PROVE Taken(u, j)' <= Taken(u, j)
  <2>1. Contenders(u, j)' = Contenders(u, j) \ {t}
    BY <1>1 DEF IInv, TypeOK, Contenders, Busy
  <2>2. CASE i >= j
    <3>1. t \in Contenders(u, j)
      BY <1>1, <1>3, <2>2 DEF Contenders, Busy
    <3>2. i \notin HeldFrom(j) /\ HeldFrom(j)' = HeldFrom(j) \cup {i}
      BY <1>1, <2>2 DEF HeldFrom
    <3>3. Taken(u, j)' = Taken(u, j)
      BY <2>1, <3>1, <3>2, TakenHandedOver DEF IInv
    <3> QED
      BY <3>3, TakenIsNat DEF IInv
  <2>3. CASE ~(i >= j)
    <3>1. HeldFrom(j)' = HeldFrom(j)
      BY <1>1, <2>3 DEF HeldFrom
    <3> QED
      BY <2>1, <3>1, TakenShrinks DEF IInv
  <2> QED
    BY <2>2, <2>3
<1> QED
  BY <1>3, <1>4

LEMMA CloseLookupCap ==
  ASSUME TypeOK, TypeOK', CapInv, NEW t \in Threads, NEW fd \in Fds, CloseLookup(t, fd)
  PROVE  CapInv'
<1>1. /\ pc[t] = "idle" /\ pc' = [pc EXCEPT ![t] = "release"]
      /\ arg' = [arg EXCEPT ![t] = fd] /\ fd \in held /\ held' = held \ {fd} /\ Observe
  BY DEF CloseLookup
<1>2. FailsOnlyBeyondCapacity'
  BY <1>1, ObserveType DEF TypeOK, CapInv, FailsOnlyBeyondCapacity
<1> SUFFICES ASSUME NEW u \in Threads, pc'[u] = "scan", ~tooMany'[u]
             PROVE  /\ pc[u] = "scan" /\ ~tooMany[u] /\ arg'[u] = arg[u]
                    /\ \A j \in Nat : Taken(u, j)' <= Taken(u, j)
  BY <1>1, <1>2, ObserveType, CapKept
<1>3. u # t /\ pc[u] = "scan" /\ ~tooMany[u] /\ arg'[u] = arg[u]
  BY <1>1, ObserveBounds DEF TypeOK
<1>4. ASSUME NEW j \in Nat PROVE Taken(u, j)' <= Taken(u, j)
  <2>1. CASE fd >= j
    <3>1. t \notin Contenders(u, j) /\ Contenders(u, j)' = Contenders(u, j) \cup {t}
      BY <1>1, <1>3, <2>1 DEF TypeOK, Contenders, Busy
    <3>2. fd \in HeldFrom(j) /\ HeldFrom(j)' = HeldFrom(j) \ {fd}
      BY <1>1, <2>1 DEF HeldFrom
    <3>3. Taken(u, j)' = Taken(u, j)
      BY <3>1, <3>2, TakenHandedBack
    <3> QED
      BY <3>3, TakenIsNat
  <2>2. CASE ~(fd >= j)
    <3>1. Contenders(u, j)' \subseteq Contenders(u, j) /\ HeldFrom(j)' \subseteq HeldFrom(j)
      BY <1>1, <2>2 DEF TypeOK, Contenders, HeldFrom, Busy
    <3> QED
      BY <3>1, TakenShrinks
  <2> QED
    BY <2>1, <2>2
<1> QED
  BY <1>3, <1>4

(* A slot that is not FREE counts against every scan that is not beyond it.*)
LEMMA OwnerAhead ==
  ASSUME IInv, NEW t \in Threads, pc[t] = "scan", NEW j \in Fds, state[j] # "FREE"
  PROVE  \/ \E u \in Contenders(t, j) \ Contenders(t, j + 1) : Owns(u)
         \/ j \in HeldFrom(j) \ HeldFrom(j + 1)
<1>1. j >= j /\ ~(j >= j + 1)
  BY DEF Fds
<1>2. CASE j \in held
  BY <1>1, <1>2 DEF HeldFrom
<1>3. CASE j \notin held
  <2>1. PICK u \in Threads : Owns(u) /\ arg[u] = j
    BY <1>3 DEF IInv, TypeOK, OpenOwned
  <2>2. u \in Contenders(t, j) /\ u \notin Contenders(t, j + 1)
    BY <1>1, <2>1 DEF Contenders, Busy, Owns
  <2> QED
    BY <2>1, <2>2
<1> QED
  BY <1>2, <1>3

(* So moving on past it loses one of them at least, and one more when      *)
(* another scan stands there as well.                                      *)
LEMMA PassingLosesOne ==
  ASSUME IInv, NEW t \in Threads, pc[t] = "scan", NEW j \in Fds, state[j] # "FREE"
  PROVE  /\ Taken(t, j + 1) + 1 <= Taken(t, j)
         /\ \A u \in Threads \ {t} : pc[u] = "scan" /\ arg[u] = j =>
              Taken(t, j + 1) + 2 <= Taken(t, j)
<1>1. /\ Contenders(t, j + 1) \subseteq Contenders(t, j)
      /\ HeldFrom(j + 1) \subseteq HeldFrom(j)
  <2>1. j \in Int /\ \A k \in Int : k >= j + 1 => k >= j
    BY DEF Fds
  <2>2. (\A u \in Threads : arg[u] \in Int) /\ held \subseteq Int
    BY DEF IInv, TypeOK, Fds
  <2> QED
    BY <2>1, <2>2 DEF Contenders, HeldFrom
<1> DEFINE C == Contenders(t, j)  D == Contenders(t, j + 1)
           H == HeldFrom(j)       K == HeldFrom(j + 1)
<1>2. /\ IsFiniteSet(C) /\ IsFiniteSet(D) /\ IsFiniteSet(H) /\ IsFiniteSet(K)
      /\ Cardinality(C) \in Nat /\ Cardinality(D) \in Nat
      /\ Cardinality(H) \in Nat /\ Cardinality(K) \in Nat
  BY TakenIsNat, FiniteParts DEF IInv
<1>3. /\ Taken(t, j) = Cardinality(C) + Cardinality(H)
      /\ Taken(t, j + 1) = Cardinality(D) + Cardinality(K)
  BY DEF Taken
<1>4. /\ Cardinality(D) <= Cardinality(C) /\ Cardinality(K) <= Cardinality(H)
      /\ (Cardinality(C) = Cardinality(D) => C = D)
      /\ (Cardinality(H) = Cardinality(K) => H = K)
  BY <1>1, <1>2, FS_Subset
<1>5. (\E v \in C \ D : Owns(v)) \/ j \in H \ K
  BY OwnerAhead
<1>6. ASSUME NEW u \in Threads \ {t}, pc[u] = "scan" /\ arg[u] = j
      PROVE  Taken(t, j + 1) + 2 <= Taken(t, j)
  <2>1. u \in C /\ u \notin D
    BY <1>6 DEF Contenders, Busy, Fds
  <2>2. CASE j \in H \ K
    <3> HIDE DEF C, D, H, K
    <3> QED
      BY <1>2, <1>3, <1>4, <2>1, <2>2
  <2>3. CASE \E v \in C \ D : Owns(v)
    <3>1. PICK v \in C \ D : Owns(v)
      BY <2>3
    <3>2. v # u
      BY <1>6, <3>1 DEF Owns
    <3> HIDE DEF C, D, H, K
    <3>3. D \subseteq C \ {u} /\ v \in (C \ {u}) \ D
      BY <1>1, <2>1, <3>1, <3>2 DEF C, D
    <3>4. IsFiniteSet(C \ {u}) /\ Cardinality(C \ {u}) = Cardinality(C) - 1
      BY <1>2, <2>1, FS_RemoveElement
    <3>5. /\ Cardinality(D) <= Cardinality(C \ {u})
          /\ (Cardinality(C \ {u}) = Cardinality(D) => C \ {u} = D)
      BY <3>3, <3>4, FS_Subset
    <3>6. Cardinality(D) + 1 <= Cardinality(C \ {u})
      BY <1>2, <3>3, <3>4, <3>5
    <3> QED
      BY <1>2, <1>3, <1>4, <3>4, <3>6
  <2> QED
    BY <1>5, <2>2, <2>3
<1>7. Taken(t, j + 1) + 1 <= Taken(t, j)
  <2> HIDE DEF C, D, H, K
  <2> QED
    BY <1>2, <1>3, <1>4, <1>5
<1> QED
  BY <1>6, <1>7

(* A scan moves on.  For its own new slot, and for a scan ahead of it that *)
(* it now counts against, passing the owned slot makes up for it.          *)
LEMMA OpenSkipCap ==
  ASSUME IInv, TypeOK', CapInv, NEW t \in Threads, OpenSkip(t)
  PROVE  CapInv'
<1> DEFINE p == arg[t]
<1>1. /\ pc[t] = "scan" /\ pc' = pc /\ p \in Fds /\ p < LastSlot /\ state[p] # "FREE"
      /\ arg' = [arg EXCEPT ![t] = p + 1] /\ held' = held /\ Observe
  BY DEF IInv, TypeOK, OpenSkip
<1>2. FailsOnlyBeyondCapacity'
  BY <1>1, ObserveType DEF CapInv, FailsOnlyBeyondCapacity
<1>3. ASSUME NEW u \in Threads, pc'[u] = "scan", ~tooMany'[u], NEW j \in 0 .. arg'[u]
      PROVE  Taken(u, j)' <= LastSlot - j
  <2>1. /\ pc[u] = "scan" /\ ~tooMany[u] /\ j \in Int /\ p \in Int /\ p >= 0
        /\ arg[u] \in Int
        /\ \A k \in 0 .. arg[u] : Taken(u, k) <= LastSlot - k
    <3>1. pc[u] = "scan" /\ ~tooMany[u]
      BY <1>1, <1>3, ObserveBounds
    <3>2. \A k \in 0 .. arg[u] : Taken(u, k) <= LastSlot - k
      BY <3>1 DEF CapInv, ScanBound
    <3>3. j \in Int
      BY <1>3
    <3>4. arg[u] \in Int /\ p \in Int /\ p >= 0
      BY <1>1 DEF IInv, TypeOK, Fds
    <3> QED
      BY <3>1, <3>2, <3>3, <3>4
  <2>2. Taken(u, j) \in Int /\ Taken(u, j)' \in Int /\ Taken(u, p) \in Int
        /\ LastSlot \in Int
    BY TakenIsNat, TakenIsNatNext, FakeFdAssumption DEF IInv, LastSlot
  <2>3. HeldFrom(j)' = HeldFrom(j)
    BY <1>1 DEF HeldFrom
  <2>4. CASE u = t
    <3>1. Contenders(u, j)' = Contenders(u, j)
      BY <1>1, <2>4 DEF IInv, TypeOK, Contenders, Busy
    <3>2. Taken(u, j)' = Taken(u, j)
      BY <2>3, <3>1 DEF Taken
    <3>3. CASE j <= p
      BY <1>3, <2>1, <2>4, <3>2, <3>3
    <3>4. CASE j > p
      <4>1. j = p + 1
        BY <1>1, <1>3, <2>1, <2>4, <3>4 DEF IInv, TypeOK
      <4>2. Taken(u, j) + 1 <= Taken(u, p)
        BY <1>1, <2>1, <2>4, <4>1, PassingLosesOne
      <4>3. Taken(u, p) <= LastSlot - p
        BY <2>1, <2>4
      <4> HIDE DEF p
      <4> QED
        BY <2>1, <2>2, <3>2, <4>1, <4>2, <4>3
    <3> HIDE DEF p
    <3> QED
      BY <2>1, <3>3, <3>4
  <2>5. CASE u # t
    <3>1. j \in 0 .. arg[u] /\ arg'[t] = p + 1
          /\ \A v \in Threads \ {t} : arg'[v] = arg[v]
      BY <1>1, <2>5 DEF IInv, TypeOK
    <3>2. CASE j # p + 1
      <4>0. p + 1 >= j <=> p >= j
        BY <2>1, <3>2
      <4>1. Contenders(u, j)' = Contenders(u, j)
        BY <1>1, <3>1, <4>0 DEF Contenders, Busy
      <4>2. Taken(u, j)' = Taken(u, j)
        BY <2>3, <4>1 DEF Taken
      <4> QED
        BY <2>1, <3>1, <4>2
    <3>3. CASE j = p + 1
      <4>0. p + 1 >= j /\ ~(p >= j)
        BY <2>1, <3>3
      <4>1. t \notin Contenders(u, j) /\ Contenders(u, j)' = Contenders(u, j) \cup {t}
        BY <1>1, <2>5, <3>1, <4>0 DEF Contenders, Busy
      <4>2. Cardinality(Contenders(u, j)') = Cardinality(Contenders(u, j)) + 1
        BY <4>1, TakenIsNat, FiniteParts, FS_AddElement DEF IInv
      <4>3. Taken(u, j)' = Taken(u, j) + 1
        BY <2>3, <4>2, TakenIsNat, FiniteParts DEF IInv, Taken
      <4>4. Taken(u, j) + 2 <= Taken(u, p)
        BY <1>1, <2>1, <2>5, <3>3, PassingLosesOne
      <4>5. Taken(u, p) <= LastSlot - p
        <5>1. p \in 0 .. arg[u]
          BY <2>1, <3>1, <3>3
        <5> QED
          BY <2>1, <5>1
      <4> HIDE DEF p
      <4> QED
        BY <2>1, <2>2, <3>3, <4>3, <4>4, <4>5
    <3> QED
      BY <3>2, <3>3
  <2> QED
    BY <2>4, <2>5
<1> QED
  <2>1. ScanBound'
    BY <1>3 DEF ScanBound
  <2> QED
    BY <1>1, <1>2, <2>1, ObserveType DEF CapInv

(* At the last slot a scan within the capacity has nothing against it, so  *)
(* the slot is FREE: a scan that fails was not within it.                  *)
LEMMA OpenFailCap ==
  ASSUME IInv, TypeOK', CapInv, NEW t \in Threads, OpenFail(t)
  PROVE  CapInv'
<1>1. /\ pc[t] = "scan" /\ pc' = [pc EXCEPT ![t] = "enfile"] /\ tooMany' = tooMany
      /\ arg' = arg /\ held' = held /\ arg[t] = LastSlot
      /\ LastSlot \in Fds /\ state[LastSlot] # "FREE"
  <2>1. arg[t] \in Fds /\ arg[t] >= LastSlot /\ state[arg[t]] # "FREE"
    BY DEF OpenFail, IInv, TypeOK
  <2>2. arg[t] = LastSlot /\ LastSlot \in Fds
    BY <2>1, FakeFdAssumption DEF Fds, LastSlot
  <2> QED
    BY <2>1, <2>2 DEF OpenFail
<1>2. tooMany[t]
  <2> SUFFICES ASSUME ~tooMany[t] PROVE FALSE
    BY DEF CapInv
  <2>1. Taken(t, LastSlot) <= LastSlot - LastSlot
    <3>1. LastSlot \in 0 .. LastSlot
      BY <1>1 DEF Fds
    <3> QED
      BY <1>1, <3>1 DEF CapInv, ScanBound
  <2>2. Taken(t, LastSlot + 1) + 1 <= Taken(t, LastSlot)
    BY <1>1, PassingLosesOne
  <2> QED
    BY <2>1, <2>2, TakenIsNat, FakeFdAssumption DEF IInv, LastSlot
<1>3. FailsOnlyBeyondCapacity'
  BY <1>1, <1>2 DEF IInv, TypeOK, CapInv, FailsOnlyBeyondCapacity
<1>4. /\ \A u \in Threads \ {t} : pc'[u] = pc[u] /\ arg'[u] = arg[u]
      /\ pc'[t] = "enfile" /\ pc'[t] # "scan" /\ ~Busy(t)'
      /\ tooMany' \in [Threads -> BOOLEAN]
  BY <1>1 DEF IInv, TypeOK, CapInv, Busy
<1> QED
  BY <1>1, <1>3, <1>4, CapStandsBack DEF IInv

(* Transfers and seeks have no part in it.                                 *)
LEMMA CallCap ==
  ASSUME TypeOK, TypeOK', CapInv, NEW t \in Threads, UNCHANGED <<held, tooMany>>,
         NEW c \in {"idle", "io", "advance", "seek"}, pc' = [pc EXCEPT ![t] = c],
         NEW i, arg' = [arg EXCEPT ![t] = i]
  PROVE  CapInv'
<1>1. FailsOnlyBeyondCapacity'
  BY DEF TypeOK, CapInv, FailsOnlyBeyondCapacity
<1>2. /\ \A u \in Threads \ {t} : pc'[u] = pc[u] /\ arg'[u] = arg[u]
      /\ pc'[t] # "scan" /\ ~Busy(t)' /\ tooMany' \in [Threads -> BOOLEAN]
  BY DEF TypeOK, CapInv, Busy
<1> QED
  BY <1>1, <1>2, CapStandsBack

LEMMA IoCap ==
  ASSUME TypeOK, TypeOK', CapInv, NEW t \in Threads,
         \/ \E fd \in Fds, c \in Counts : IoBegin(t, fd, c)
         \/ IoPerform(t) \/ IoNoEmulator(t) \/ IoAdvance(t) \/ SeekStore(t)
         \/ \E fd \in Fds, base, off \in Int : SeekBegin(t, fd, base, off)
  PROVE  CapInv'
<1>1. UNCHANGED <<held, tooMany>>
  BY DEF IoBegin, IoPerform, IoNoEmulator, IoDone, IoAdvance, SeekBegin, SeekStore
<1>2. /\ \E c \in {"idle", "io", "advance", "seek"} : pc' = [pc EXCEPT ![t] = c]
      /\ \E i : arg' = [arg EXCEPT ![t] = i]
  <2>1. CASE \E fd \in Fds, c \in Counts : IoBegin(t, fd, c)
    BY <2>1 DEF IoBegin
  <2>2. CASE IoPerform(t) \/ IoNoEmulator(t)
    <3>1. pc' = [pc EXCEPT ![t] = "advance"] /\ arg' = arg
      BY <2>2 DEF IoPerform, IoNoEmulator, IoDone
    <3>2. arg' = [arg EXCEPT ![t] = arg[t]]
      BY <3>1 DEF TypeOK
    <3> QED
      BY <3>1, <3>2
  <2>3. CASE IoAdvance(t) \/ SeekStore(t)
    BY <2>3 DEF IoAdvance, SeekStore, Return
  <2>4. CASE \E fd \in Fds, base, off \in Int : SeekBegin(t, fd, base, off)
    BY <2>4 DEF SeekBegin
  <2> QED
    BY <2>1, <2>2, <2>3, <2>4
<1> QED
  BY <1>1, <1>2, CallCap

LEMMA NextCapInv == IInv /\ TypeOK' /\ CapInv /\ [Next]_vars => CapInv'
<1> SUFFICES ASSUME IInv, TypeOK', CapInv, [Next]_vars PROVE CapInv'
  OBVIOUS
<1>0. TypeOK
  BY DEF IInv
<1>1. ASSUME Next PROVE CapInv'
  <2>1. PICK t \in Threads :
          \/ OpenBegin(t) \/ OpenClaim(t) \/ OpenSkip(t) \/ OpenFail(t)
          \/ OpenFailReturn(t) \/ OpenInit(t)
          \/ \E fd \in Fds : CloseLookup(t, fd)
          \/ CloseRelease(t)
          \/ \E fd \in Fds, c \in Counts : IoBegin(t, fd, c)
          \/ IoPerform(t) \/ IoNoEmulator(t) \/ IoAdvance(t)
          \/ \E fd \in Fds, off \in SeekOffsets :
               SeekSet(t, fd, off) \/ SeekCur(t, fd, off) \/ SeekEnd(t, fd, off)
          \/ SeekStore(t)
    BY <1>1 DEF Next
  <2>2. CASE OpenBegin(t) \/ OpenClaim(t) \/ OpenSkip(t) \/ OpenFail(t)
               \/ OpenFailReturn(t) \/ OpenInit(t)
    BY <1>0, <2>2, OpenBeginCap, OpenClaimCap, OpenSkipCap, OpenFailCap,
       OpenFailReturnCap, OpenInitCap, Zenon
  <2>3. CASE CloseRelease(t) \/ \E fd \in Fds : CloseLookup(t, fd)
    BY <1>0, <2>3, CloseLookupCap, CloseReleaseCap, Zenon
  <2>4. CASE \/ \E fd \in Fds, c \in Counts : IoBegin(t, fd, c)
             \/ IoPerform(t) \/ IoNoEmulator(t) \/ IoAdvance(t) \/ SeekStore(t)
    BY <1>0, <2>4, IoCap, Zenon
  <2>5. CASE \E fd \in Fds, off \in SeekOffsets :
               SeekSet(t, fd, off) \/ SeekCur(t, fd, off) \/ SeekEnd(t, fd, off)
    <3>1. \E fd \in Fds, base, off \in Int : SeekBegin(t, fd, base, off)
      BY <2>5, SeekIsBegin DEF IInv
    <3> QED
      BY <1>0, <3>1, IoCap, Zenon
  <2> QED
    BY <2>1, <2>2, <2>3, <2>4, <2>5
<1>2. CASE UNCHANGED vars
  BY <1>2 DEF vars, table, local, CapInv, ScanBound, FailsOnlyBeyondCapacity,
              Taken, Contenders, HeldFrom, Busy
<1> QED
  BY <1>1, <1>2

(* An open fails with ENFILE only if, at some time while it was under way, *)
(* the FDs and the opens together exceeded the table, for any number of    *)
(* threads and slots: no interleaving of scans and closes makes a scan     *)
(* miss a slot that was its to have.                                       *)
THEOREM ScanMissesNothing == Spec => []FailsOnlyBeyondCapacity
<1>1. IInv /\ CapInv /\ [Next]_vars => CapInv'
  BY NextIInv, NextCapInv DEF IInv
<1>2. CapInv => FailsOnlyBeyondCapacity
  BY DEF CapInv
<1> QED
  BY <1>1, <1>2, InitIInv, NextIInv, InitCapInv, PTL DEF Spec

-----------------------------------------------------------------------------
(* The file position: the table implements OpenFiles.                      *)

CallsOnHeld == \A t \in Threads : InIo(t) => arg[t] \in held

AloneUnlessShared ==
  \A t, u \in Threads :
    t # u /\ InIo(t) /\ InIo(u) /\ arg[t] = arg[u] => arg[t] \in SharedFds

(* An I/O under way is at the position, or on a shared FD at one it had.   *)
(* A seek under way goes where the position, which waits for it, tells it. *)
AtPosition(t) ==
  /\ pc[t] = "io" =>
       /\ count[t] \in Counts
       /\ 0 <= pos[t] /\ pos[t] <= file_pos[arg[t]]
       /\ arg[t] \notin SharedFds => pos[t] = file_pos[arg[t]]
  /\ pc[t] = "seek" =>
       /\ arg[t] \notin SharedFds
       /\ \E base \in {0, file_pos[arg[t]], MOCK_FILE_SIZE}, off \in SeekOffsets :
            pos[t] = base + off

PosInv ==
  /\ CallsOnHeld
  /\ AloneUnlessShared
  /\ \A t \in Threads : AtPosition(t)
  /\ \A fd \in Fds : file_pos[fd] >= 0 /\ IsFiniteSet(Pending(fd))

-----------------------------------------------------------------------------
(* What is pending, and how a step changes it.                             *)

LEMMA UnitsOf ==
  ASSUME NEW t, NEW m \in Int
  PROVE  /\ IsFiniteSet({t} \X (1 .. m))
         /\ Cardinality({t} \X (1 .. m)) = IF m > 0 THEN m ELSE 0
<1>1. IsFiniteSet(1 .. m) /\ Cardinality(1 .. m) = IF 1 > m THEN 0 ELSE m - 1 + 1
  BY FS_Interval
<1>2. IsFiniteSet({t}) /\ Cardinality({t}) = 1
  BY FS_Singleton
<1>3. /\ IsFiniteSet({t} \X (1 .. m))
      /\ Cardinality({t} \X (1 .. m)) = 1 * Cardinality(1 .. m)
  BY <1>1, <1>2, FS_Product
<1> QED
  BY <1>1, <1>3

LEMMA NothingPending ==
  ASSUME NEW fd, \A t \in Threads : pc[t] = "advance" => arg[t] # fd
  PROVE  Pending(fd) = {} /\ Cardinality(Pending(fd)) = 0
<1>1. Pending(fd) = {}
  BY DEF Pending
<1> QED
  BY <1>1, FS_EmptySet

LEMMA PendingKept ==
  ASSUME NEW fd,
         \A t \in Threads :
           /\ pc'[t] = "advance" /\ arg'[t] = fd <=> pc[t] = "advance" /\ arg[t] = fd
           /\ pc[t] = "advance" /\ arg[t] = fd => n'[t] = n[t]
  PROVE  Pending(fd)' = Pending(fd)
BY DEF Pending

LEMMA PositionsAt ==
  ASSUME TypeOK, PosInv, NEW fd \in held
  PROVE  /\ fd \in Fds /\ file_pos[fd] \in Nat /\ Cardinality(Pending(fd)) \in Nat
         /\ PositionOf(fd) = file_pos[fd] + Cardinality(Pending(fd))
<1>1. fd \in Fds /\ file_pos[fd] \in Nat /\ IsFiniteSet(Pending(fd))
  BY DEF TypeOK, PosInv
<1> QED
  BY <1>1, FS_CardinalityType DEF PositionOf

(* An I/O adds what it transferred, which the fetch_add takes away again.  *)
LEMMA PendingGrows ==
  ASSUME TypeOK, PosInv, NEW t \in Threads, NEW got \in Int, pc[t] = "io", IoDone(t, got),
         NEW fd \in Fds, fd = arg[t]
  PROVE  /\ \A g : g # fd => Pending(g)' = Pending(g)
         /\ IsFiniteSet(Pending(fd)')
         /\ Cardinality(Pending(fd)')
              = Cardinality(Pending(fd)) + IF got > 0 THEN got ELSE 0
<1> DEFINE P == {t} \X (1 .. got)
<1>1. /\ arg' = arg /\ n'[t] = got /\ pc'[t] = "advance"
      /\ \A u \in Threads \ {t} : pc'[u] = pc[u] /\ n'[u] = n[u]
  BY DEF TypeOK, IoDone
<1>2. ASSUME NEW g, g # fd PROVE Pending(g)' = Pending(g)
  BY <1>1, <1>2, PendingKept
<1>3. Pending(fd)' = Pending(fd) \cup P
  BY <1>1 DEF Pending
<1>4. Pending(fd) \cap P = {}
  BY DEF Pending
<1>5. /\ IsFiniteSet(P) /\ Cardinality(P) = IF got > 0 THEN got ELSE 0
  BY UnitsOf
<1>6. IsFiniteSet(Pending(fd)) /\ Cardinality(Pending(fd)) \in Nat
  BY FS_CardinalityType DEF TypeOK, PosInv
<1> HIDE DEF P
<1>7. Cardinality(Pending(fd) \cap P) = 0
  BY <1>4, FS_EmptySet
<1>8. /\ IsFiniteSet(Pending(fd) \cup P)
      /\ Cardinality(Pending(fd) \cup P)
           = Cardinality(Pending(fd)) + Cardinality(P) - Cardinality(Pending(fd) \cap P)
  BY <1>5, <1>6, FS_Union
<1>9. Cardinality(Pending(fd)') = Cardinality(Pending(fd)) + IF got > 0 THEN got ELSE 0
  BY <1>3, <1>5, <1>6, <1>7, <1>8
<1> QED
  BY <1>2, <1>3, <1>8, <1>9

LEMMA PendingShrinks ==
  ASSUME TypeOK, PosInv, NEW t \in Threads, IoAdvance(t),
         NEW fd \in Fds, fd = arg[t]
  PROVE  /\ \A g : g # fd => Pending(g)' = Pending(g)
         /\ IsFiniteSet(Pending(fd)')
         /\ Cardinality(Pending(fd)')
              = Cardinality(Pending(fd)) - IF n[t] > 0 THEN n[t] ELSE 0
<1> DEFINE P == {t} \X (1 .. n[t])
<1>1. /\ pc[t] = "advance" /\ pc'[t] = "idle" /\ n[t] \in Int
      /\ \A u \in Threads \ {t} : UNCHANGED <<pc[u], arg[u], n[u]>>
  BY DEF TypeOK, IoAdvance, Return
<1>2. ASSUME NEW g, g # fd PROVE Pending(g)' = Pending(g)
  BY <1>1, <1>2, PendingKept
<1>3. Pending(fd)' = Pending(fd) \ P
  <2> SUFFICES ASSUME NEW x PROVE x \in Pending(fd)' <=> x \in Pending(fd) /\ x \notin P
    OBVIOUS
  <2>1. x \in Pending(fd) <=>
          \E u \in Threads : pc[u] = "advance" /\ arg[u] = fd /\ x \in {u} \X (1 .. n[u])
    BY DEF Pending
  <2>2. x \in Pending(fd)' <=>
          \E u \in Threads \ {t} :
            pc[u] = "advance" /\ arg[u] = fd /\ x \in {u} \X (1 .. n[u])
    BY <1>1 DEF Pending
  <2>3. \A u \in Threads \ {t} : x \in {u} \X (1 .. n[u]) => x \notin P
    OBVIOUS
  <2> QED
    BY <2>1, <2>2, <2>3
<1>4. Pending(fd) \cap P = P
  BY <1>1 DEF Pending
<1>5. /\ IsFiniteSet(P) /\ Cardinality(P) = IF n[t] > 0 THEN n[t] ELSE 0
  BY <1>1, UnitsOf
<1>6. IsFiniteSet(Pending(fd))
  BY DEF TypeOK, PosInv
<1> HIDE DEF P
<1>7. /\ IsFiniteSet(Pending(fd) \ P)
      /\ Cardinality(Pending(fd) \ P)
           = Cardinality(Pending(fd)) - Cardinality(Pending(fd) \cap P)
  BY <1>6, FS_Difference
<1>8. Cardinality(Pending(fd)') = Cardinality(Pending(fd)) - IF n[t] > 0 THEN n[t] ELSE 0
  BY <1>3, <1>4, <1>5, <1>7
<1> QED
  BY <1>2, <1>3, <1>7, <1>8

-----------------------------------------------------------------------------
(* Steps that touch no position.                                           *)

LEMMA CallKept ==
  ASSUME NEW u \in Threads, AtPosition(u), pc'[u] = pc[u], arg'[u] = arg[u],
         pos'[u] = pos[u], count'[u] = count[u], file_pos'[arg[u]] = file_pos[arg[u]]
  PROVE  AtPosition(u)'
BY DEF AtPosition

(* The calls between others' open and close: nothing that counts moves.    *)
LEMMA PosUntouched ==
  ASSUME TypeOK, PosInv, NEW t \in Threads, ~InIo(t), ~InIo(t)',
         \A u \in Threads \ {t} :
           UNCHANGED <<pc[u], arg[u], pos[u], count[u], n[u]>>
  PROVE  /\ \A u \in Threads : InIo(u)' <=> InIo(u)
         /\ \A u \in Threads : InIo(u) => arg'[u] = arg[u]
         /\ AloneUnlessShared'
         /\ \A fd : Pending(fd)' = Pending(fd)
         /\ (\A u \in Threads : InIo(u) => file_pos'[arg[u]] = file_pos[arg[u]])
              => \A u \in Threads : AtPosition(u)'
<1>1. \A u \in Threads : InIo(u)' <=> InIo(u)
  BY DEF InIo
<1>2. \A u \in Threads : InIo(u) => arg'[u] = arg[u]
  OBVIOUS
<1>3. AloneUnlessShared'
  BY <1>1, <1>2 DEF PosInv, AloneUnlessShared
<1>4. ASSUME NEW fd PROVE Pending(fd)' = Pending(fd)
  <2>1. pc[t] # "advance" /\ pc'[t] # "advance"
    BY DEF InIo
  <2> QED
    BY <2>1, PendingKept
<1>5. ASSUME \A u \in Threads : InIo(u) => file_pos'[arg[u]] = file_pos[arg[u]],
             NEW u \in Threads
      PROVE  AtPosition(u)'
  <2>1. CASE ~InIo(u)
    BY <1>1, <2>1 DEF InIo, AtPosition
  <2>2. CASE InIo(u)
    BY <1>5, <2>2, CallKept DEF PosInv
  <2> QED
    BY <2>1, <2>2
<1> QED
  BY <1>1, <1>2, <1>3, <1>4, <1>5

LEMMA SilentPos ==
  ASSUME TypeOK, PosInv, NEW t \in Threads,
         OpenBegin(t) \/ OpenClaim(t) \/ OpenSkip(t) \/ OpenFail(t) \/ OpenFailReturn(t)
           \/ CloseRelease(t)
  PROVE  PosInv' /\ UNCHANGED <<held, Positions>>
<1>1. UNCHANGED <<file_pos, held>>
  BY DEF OpenBegin, OpenClaim, OpenSkip, OpenFail, OpenFailReturn, CloseRelease, table
<1>2. /\ \A u \in Threads \ {t} : UNCHANGED <<pc[u], arg[u], pos[u], count[u], n[u]>>
      /\ ~InIo(t) /\ ~InIo(t)'
  BY DEF TypeOK, OpenBegin, OpenClaim, OpenSkip, OpenFail, OpenFailReturn, CloseRelease,
         Return, InIo
<1>3. /\ \A u \in Threads : InIo(u)' <=> InIo(u)
      /\ \A u \in Threads : InIo(u) => arg'[u] = arg[u]
      /\ AloneUnlessShared'
      /\ \A fd : Pending(fd)' = Pending(fd)
      /\ \A u \in Threads : AtPosition(u)'
  BY <1>1, <1>2, PosUntouched
<1>4. CallsOnHeld'
  BY <1>1, <1>3 DEF PosInv, CallsOnHeld
<1>5. PosInv'
  BY <1>1, <1>3, <1>4 DEF PosInv
<1>6. Positions' = Positions
  BY <1>1, <1>3 DEF Positions, PositionOf
<1> QED
  BY <1>1, <1>5, <1>6

-----------------------------------------------------------------------------
(* open and close.                                                         *)

LEMMA PositionMoves ==
  ASSUME NEW fd \in Fds, \A g \in Fds \ {fd} : PositionOf(g)' = PositionOf(g)
  PROVE  Positions' = [Positions EXCEPT ![fd] = PositionOf(fd)']
BY DEF Positions

(* An FD begins at 0, with no call on it: its slot was not held.           *)
LEMMA OpenInitPos ==
  ASSUME IInv, PosInv, NEW t \in Threads, OpenInit(t)
  PROVE  PosInv' /\ Files!Open(arg[t])
<1>0. PICK i \in Fds : i = arg[t]
  BY DEF IInv, TypeOK
<1>1. /\ i \notin held /\ held' = held \cup {i}
      /\ file_pos' = [file_pos EXCEPT ![i] = 0]
  BY <1>0 DEF IInv, TypeOK, CallsExclusive, Owns, OpenInit, InitialPos
<1>2. /\ \A u \in Threads \ {t} : UNCHANGED <<pc[u], arg[u], pos[u], count[u], n[u]>>
      /\ ~InIo(t) /\ ~InIo(t)'
  BY DEF IInv, TypeOK, OpenInit, Return, InIo
<1>3. \A u \in Threads : InIo(u) => arg[u] \in held /\ arg[u] # i
  BY <1>1 DEF PosInv, CallsOnHeld
<1>4. \A g \in Fds : file_pos'[g] = IF g = i THEN 0 ELSE file_pos[g]
  BY <1>1 DEF IInv, TypeOK
<1>5. \A u \in Threads : InIo(u) => file_pos'[arg[u]] = file_pos[arg[u]]
  BY <1>3, <1>4 DEF IInv, TypeOK
<1>6. /\ \A u \in Threads : InIo(u)' <=> InIo(u)
      /\ \A u \in Threads : InIo(u) => arg'[u] = arg[u]
      /\ AloneUnlessShared'
      /\ \A fd : Pending(fd)' = Pending(fd)
      /\ \A u \in Threads : AtPosition(u)'
  BY <1>2, <1>5, PosUntouched DEF IInv
<1>7. CallsOnHeld'
  BY <1>1, <1>3, <1>6 DEF CallsOnHeld
<1>8. PosInv'
  BY <1>4, <1>6, <1>7 DEF PosInv
<1>9. Cardinality(Pending(i)') = 0
  <2>1. \A u \in Threads : pc[u] = "advance" => arg[u] # i
    BY <1>3 DEF InIo
  <2> QED
    BY <1>6, <2>1, NothingPending
<1>10. PositionOf(i)' = 0
  BY <1>1, <1>4, <1>9 DEF PositionOf
<1>11. \A g \in Fds \ {i} : PositionOf(g)' = PositionOf(g)
  BY <1>1, <1>4, <1>6 DEF PositionOf
<1>12. Positions' = [Positions EXCEPT ![i] = 0]
  BY <1>1, <1>10, <1>11, PositionMoves
<1>13. Files!Open(i)
  BY <1>1, <1>12 DEF Files!Open
<1> QED
  BY <1>0, <1>8, <1>13

(* The application closes an FD it has no call on.                         *)
LEMMA CloseLookupPos ==
  ASSUME TypeOK, PosInv, NEW t \in Threads, NEW fd \in Fds, CloseLookup(t, fd)
  PROVE  PosInv' /\ Files!Close(fd)
<1>1. /\ file_pos' = file_pos /\ fd \in held /\ held' = held \ {fd}
      /\ \A u \in Threads : InIo(u) => arg[u] # fd
  BY DEF CloseLookup, table
<1>2. /\ \A u \in Threads \ {t} : UNCHANGED <<pc[u], arg[u], pos[u], count[u], n[u]>>
      /\ ~InIo(t) /\ ~InIo(t)'
  BY DEF TypeOK, CloseLookup, InIo
<1>3. /\ \A u \in Threads : InIo(u)' <=> InIo(u)
      /\ \A u \in Threads : InIo(u) => arg'[u] = arg[u]
      /\ AloneUnlessShared'
      /\ \A g : Pending(g)' = Pending(g)
      /\ \A u \in Threads : AtPosition(u)'
  BY <1>1, <1>2, PosUntouched
<1>4. CallsOnHeld'
  BY <1>1, <1>3 DEF PosInv, CallsOnHeld
<1>5. PosInv'
  BY <1>1, <1>3, <1>4 DEF PosInv
<1>6. PositionOf(fd)' = 0 /\ \A g \in Fds \ {fd} : PositionOf(g)' = PositionOf(g)
  BY <1>1, <1>3 DEF PositionOf
<1>7. Positions' = [Positions EXCEPT ![fd] = 0]
  BY <1>6, PositionMoves
<1> QED
  BY <1>1, <1>5, <1>7 DEF Files!Close

-----------------------------------------------------------------------------
(* read and write.                                                         *)

(* A call that starts on a held FD, alone unless it is a shared one.       *)
LEMMA CallStarts ==
  ASSUME TypeOK, PosInv, NEW t \in Threads, NEW fd \in Fds, Usable(fd),
         pc[t] = "idle", pc'[t] \in {"io", "seek"}, arg'[t] = fd, AtPosition(t)',
         UNCHANGED <<file_pos, held, n>>,
         \A u \in Threads \ {t} : UNCHANGED <<pc[u], arg[u], pos[u], count[u]>>
  PROVE  PosInv' /\ UNCHANGED <<held, Positions>>
<1>1. \A u \in Threads : InIo(u)' <=> InIo(u) \/ u = t
  BY DEF InIo
<1>2. CallsOnHeld' /\ AloneUnlessShared'
  BY <1>1 DEF PosInv, CallsOnHeld, AloneUnlessShared, Usable
<1>3. \A u \in Threads : AtPosition(u)'
  BY CallKept DEF PosInv
<1>4. \A g : Pending(g)' = Pending(g)
  <2>1. \A u \in Threads : /\ pc'[u] = "advance" <=> pc[u] = "advance"
                           /\ pc[u] = "advance" => arg'[u] = arg[u] /\ n'[u] = n[u]
    OBVIOUS
  <2> QED
    BY <2>1, PendingKept
<1>5. Positions' = Positions
  BY <1>4 DEF Positions, PositionOf
<1> QED
  BY <1>2, <1>3, <1>4, <1>5 DEF PosInv

LEMMA IoBeginPos ==
  ASSUME TypeOK, PosInv, NEW t \in Threads, NEW fd \in Fds, NEW c \in Counts,
         IoBegin(t, fd, c)
  PROVE  PosInv' /\ UNCHANGED <<held, Positions>>
<1>1. /\ Usable(fd) /\ pc[t] = "idle" /\ pc'[t] = "io" /\ arg'[t] = fd
      /\ count'[t] = c /\ pos'[t] = file_pos[fd]
      /\ UNCHANGED <<file_pos, held, n>>
      /\ \A u \in Threads \ {t} : UNCHANGED <<pc[u], arg[u], pos[u], count[u]>>
  BY DEF TypeOK, IoBegin, table
<1>2. AtPosition(t)'
  BY <1>1 DEF AtPosition, TypeOK, PosInv
<1> QED
  BY <1>1, <1>2, CallStarts

(* The I/O is over and what it transferred is pending.                     *)
LEMMA IoDonePos ==
  ASSUME TypeOK, PosInv, NEW t \in Threads, NEW got \in Int, pc[t] = "io", IoDone(t, got),
         NEW fd \in Fds, fd = arg[t]
  PROVE  /\ PosInv' /\ fd \in held /\ held' = held
         /\ PositionOf(fd)' = PositionOf(fd) + IF got > 0 THEN got ELSE 0
         /\ Positions' = [Positions EXCEPT ![fd] = PositionOf(fd)']
<1>1. /\ UNCHANGED <<file_pos, arg, count, pos, held>> /\ fd \in held
      /\ pc'[t] = "advance"
      /\ \A u \in Threads \ {t} : pc'[u] = pc[u]
  BY DEF TypeOK, PosInv, CallsOnHeld, InIo, IoDone, table
<1>2. \A u \in Threads : InIo(u)' <=> InIo(u)
  BY <1>1 DEF InIo
<1>3. CallsOnHeld' /\ AloneUnlessShared'
  BY <1>1, <1>2 DEF PosInv, CallsOnHeld, AloneUnlessShared
<1>4. \A u \in Threads : AtPosition(u)'
  <2> SUFFICES ASSUME NEW u \in Threads PROVE AtPosition(u)'
    OBVIOUS
  <2>1. CASE u = t
    BY <1>1, <2>1 DEF AtPosition
  <2>2. CASE u # t
    BY <1>1, <2>2, CallKept DEF PosInv
  <2> QED
    BY <2>1, <2>2
<1>5. /\ \A g : g # fd => Pending(g)' = Pending(g)
      /\ IsFiniteSet(Pending(fd)')
      /\ Cardinality(Pending(fd)') = Cardinality(Pending(fd)) + IF got > 0 THEN got ELSE 0
  BY PendingGrows
<1>6. PosInv'
  BY <1>1, <1>3, <1>4, <1>5 DEF PosInv
<1>7. PositionOf(fd)' = PositionOf(fd) + IF got > 0 THEN got ELSE 0
  <2>1. /\ file_pos[fd] \in Nat /\ Cardinality(Pending(fd)) \in Nat
        /\ PositionOf(fd) = file_pos[fd] + Cardinality(Pending(fd))
    BY <1>1, PositionsAt
  <2>2. PositionOf(fd)' = file_pos[fd] + Cardinality(Pending(fd)')
    BY <1>1 DEF PositionOf
  <2> QED
    BY <1>5, <2>1, <2>2
<1>8. \A g \in Fds \ {fd} : PositionOf(g)' = PositionOf(g)
  BY <1>1, <1>5 DEF PositionOf
<1> QED
  BY <1>1, <1>6, <1>7, <1>8, PositionMoves

(* It finds what is left at the position it loaded: no less than what is   *)
(* left at the position by now, and as much unless the FD is shared.       *)
LEMMA IoPerformPos ==
  ASSUME IInv, PosInv, NEW t \in Threads, IoPerform(t)
  PROVE  PosInv' /\ \E fd \in Fds, c \in Counts : Files!Transfer(fd, c)
<1>0. PICK fd \in Fds : fd = arg[t]
  BY DEF IInv, TypeOK
<1>1. PICK c \in Counts : c = count[t]
  BY DEF PosInv, AtPosition, IoPerform
<1>2. PICK p : p = pos[t]
  OBVIOUS
<1>3. PICK got : got = Clamp(fd, p, c)
  OBVIOUS
<1>4. /\ pc[t] = "io" /\ IoDone(t, got) /\ fd \in held
      /\ p >= 0 /\ p <= file_pos[fd] /\ p \in Int /\ c \in Nat
      /\ fd \notin SharedFds => p = file_pos[fd]
  BY <1>0, <1>1, <1>2, <1>3, FakeFdAssumption
     DEF IoPerform, IInv, TypeOK, PosInv, AtPosition, CallsOnHeld, InIo
<1>5. /\ file_pos[fd] \in Nat /\ Cardinality(Pending(fd)) \in Nat
      /\ PositionOf(fd) = file_pos[fd] + Cardinality(Pending(fd))
  BY <1>4, PositionsAt DEF IInv
<1>6. fd \notin SharedFds => PositionOf(fd) = p
  <2>1. ASSUME fd \notin SharedFds PROVE Cardinality(Pending(fd)) = 0
    <3>1. \A u \in Threads : pc[u] = "advance" => arg[u] # fd
      BY <1>0, <1>4, <2>1 DEF PosInv, AloneUnlessShared, InIo
    <3> QED
      BY <3>1, NothingPending
  <2> QED
    BY <1>4, <1>5, <2>1
<1>7. MOCK_FILE_SIZE \in Nat /\ file_size[fd] = MOCK_FILE_SIZE
  BY <1>4, FakeFdAssumption DEF IInv, HeldReady
<1>8. /\ got \in Nat
      /\ got \in Files!Left(PositionOf(fd), c) .. c
      /\ fd \notin SharedFds => got = Files!Left(PositionOf(fd), c)
  <2>1. got = IF p >= MOCK_FILE_SIZE THEN 0
              ELSE IF c <= MOCK_FILE_SIZE - p THEN c ELSE MOCK_FILE_SIZE - p
    BY <1>3, <1>4, <1>7 DEF Clamp, Smaller
  <2>2. Files!Left(PositionOf(fd), c)
          = IF PositionOf(fd) >= MOCK_FILE_SIZE THEN 0
            ELSE IF c <= MOCK_FILE_SIZE - PositionOf(fd) THEN c
                 ELSE MOCK_FILE_SIZE - PositionOf(fd)
    BY DEF Files!Left
  <2>3. PositionOf(fd) \in Nat /\ p <= PositionOf(fd)
    BY <1>4, <1>5
  <2> QED
    BY <1>4, <1>6, <1>7, <2>1, <2>2, <2>3
<1>9. /\ PosInv' /\ held' = held
      /\ PositionOf(fd)' = PositionOf(fd) + IF got > 0 THEN got ELSE 0
      /\ Positions' = [Positions EXCEPT ![fd] = PositionOf(fd)']
  BY <1>0, <1>4, <1>8, IoDonePos DEF IInv
<1>10. PositionOf(fd)' = PositionOf(fd) + got /\ Positions[fd] = PositionOf(fd)
  BY <1>5, <1>8, <1>9 DEF Positions
<1>11. Files!Transfer(fd, c)
  BY <1>4, <1>8, <1>9, <1>10 DEF Files!Transfer
<1> QED
  BY <1>9, <1>11

LEMMA IoNoEmulatorPos ==
  ASSUME TypeOK, PosInv, NEW t \in Threads, IoNoEmulator(t)
  PROVE  PosInv' /\ UNCHANGED <<held, Positions>>
<1>1. PICK fd \in Fds : fd = arg[t]
  BY DEF TypeOK
<1>2. /\ PosInv' /\ fd \in held /\ held' = held
      /\ PositionOf(fd)' = PositionOf(fd) + 0
      /\ Positions' = [Positions EXCEPT ![fd] = PositionOf(fd)']
  BY <1>1, IoDonePos DEF IoNoEmulator
<1>3. PositionOf(fd) + 0 = PositionOf(fd)
  BY <1>2, PositionsAt
<1> QED
  BY <1>2, <1>3 DEF Positions

(* The fetch_add: what was pending is in file_pos.                         *)
LEMMA IoAdvancePos ==
  ASSUME TypeOK, PosInv, NEW t \in Threads, IoAdvance(t)
  PROVE  PosInv' /\ UNCHANGED <<held, Positions>>
<1>0. PICK fd \in Fds : fd = arg[t]
  BY DEF TypeOK
<1>1. /\ held' = held /\ fd \in held /\ n[t] \in Int
      /\ pc[t] = "advance" /\ pc'[t] = "idle"
      /\ file_pos' = [file_pos EXCEPT ![fd] = IF n[t] > 0 THEN file_pos[fd] + n[t] ELSE @]
      /\ \A u \in Threads \ {t} : UNCHANGED <<pc[u], arg[u], pos[u], count[u], n[u]>>
  BY <1>0 DEF TypeOK, PosInv, CallsOnHeld, InIo, IoAdvance, Advanced, Return
<1>2. /\ \A g \in Fds \ {fd} : file_pos'[g] = file_pos[g]
      /\ file_pos'[fd] = file_pos[fd] + IF n[t] > 0 THEN n[t] ELSE 0
      /\ \A g \in Fds : file_pos[g] \in Nat
      /\ \A g \in Fds : file_pos'[g] >= 0
  BY <1>1 DEF TypeOK, PosInv
<1>3. \A u \in Threads : InIo(u)' <=> InIo(u) /\ u # t
  BY <1>1 DEF InIo
<1>4. CallsOnHeld' /\ AloneUnlessShared'
  BY <1>1, <1>3 DEF PosInv, CallsOnHeld, AloneUnlessShared
<1>5. \A u \in Threads : AtPosition(u)'
  <2> SUFFICES ASSUME NEW u \in Threads, InIo(u), u # t PROVE AtPosition(u)'
    BY <1>3 DEF AtPosition, InIo
  <2>1. arg[u] \in Fds
    BY DEF TypeOK
  <2>2. CASE arg[u] # fd
    BY <1>1, <1>2, <2>1, <2>2, CallKept DEF PosInv
  <2>3. CASE arg[u] = fd
    <3>1. fd \in SharedFds
      BY <1>0, <1>1, <2>3 DEF PosInv, AloneUnlessShared, InIo
    <3>2. AtPosition(u) /\ pos[u] \in Int
      BY DEF PosInv, TypeOK
    <3>3. file_pos'[fd] >= file_pos[fd] /\ file_pos'[fd] \in Int
      BY <1>1, <1>2
    <3>4. /\ pc'[u] = pc[u] /\ arg'[u] = fd /\ pos'[u] = pos[u] /\ count'[u] = count[u]
          /\ file_pos[fd] \in Int
      BY <1>1, <1>2, <2>3
    <3> QED
      BY <2>3, <3>1, <3>2, <3>3, <3>4 DEF AtPosition
  <2> QED
    BY <2>2, <2>3
<1>6. /\ \A g : g # fd => Pending(g)' = Pending(g)
      /\ IsFiniteSet(Pending(fd)')
      /\ Cardinality(Pending(fd)') = Cardinality(Pending(fd)) - IF n[t] > 0 THEN n[t] ELSE 0
  BY <1>0, PendingShrinks
<1>7. PosInv'
  BY <1>2, <1>4, <1>5, <1>6 DEF PosInv
<1>8. PositionOf(fd)' = PositionOf(fd)
  <2>1. Cardinality(Pending(fd)) \in Nat
    BY <1>1, PositionsAt
  <2> QED
    BY <1>1, <1>2, <1>6, <2>1 DEF PositionOf
<1>9. \A g \in Fds \ {fd} : PositionOf(g)' = PositionOf(g)
  BY <1>1, <1>2, <1>6 DEF PositionOf
<1> QED
  BY <1>1, <1>7, <1>8, <1>9 DEF Positions

-----------------------------------------------------------------------------
(* lseek64.                                                                *)

(* A seek waits alone on its FD: position and file_pos are the same.       *)
LEMMA Alone ==
  ASSUME TypeOK, PosInv, NEW t \in Threads, pc[t] = "seek", NEW fd \in Fds, fd = arg[t]
  PROVE  /\ fd \in held \ SharedFds
         /\ \A u \in Threads \ {t} : InIo(u) => arg[u] # fd
         /\ Pending(fd) = {} /\ Cardinality(Pending(fd)) = 0
<1>1. fd \in held \ SharedFds /\ \A u \in Threads \ {t} : InIo(u) => arg[u] # fd
  BY DEF PosInv, CallsOnHeld, AloneUnlessShared, AtPosition, InIo
<1>2. \A u \in Threads : pc[u] = "advance" => arg[u] # fd
  BY <1>1 DEF InIo
<1> QED
  BY <1>1, <1>2, NothingPending

LEMMA SeekBeginPos ==
  ASSUME IInv, PosInv, NEW t \in Threads, NEW fd \in Fds, NEW off \in SeekOffsets,
         SeekSet(t, fd, off) \/ SeekCur(t, fd, off) \/ SeekEnd(t, fd, off)
  PROVE  PosInv' /\ UNCHANGED <<held, Positions>>
<1>1. PICK base \in {0, file_pos[fd], MOCK_FILE_SIZE} : SeekBegin(t, fd, base, off)
  <2>1. CASE SeekSet(t, fd, off) \/ SeekCur(t, fd, off)
    BY <2>1 DEF SeekSet, SeekCur
  <2>2. CASE SeekEnd(t, fd, off)
    <3>1. SeekBegin(t, fd, file_size[fd], off) /\ file_size[fd] = MOCK_FILE_SIZE
      BY <2>2 DEF SeekEnd, SeekBegin, Usable, IInv, HeldReady
    <3> QED
      BY <3>1
  <2> QED
    BY <2>1, <2>2
<1>2. /\ Usable(fd) /\ fd \notin SharedFds /\ pc[t] = "idle" /\ pc'[t] = "seek"
      /\ arg'[t] = fd /\ pos'[t] = base + off
      /\ UNCHANGED <<file_pos, held, n>>
      /\ \A u \in Threads \ {t} : UNCHANGED <<pc[u], arg[u], pos[u], count[u]>>
  BY <1>1 DEF IInv, TypeOK, SeekBegin, table
<1>3. AtPosition(t)'
  BY <1>2 DEF AtPosition
<1> QED
  BY <1>2, <1>3, CallStarts DEF IInv

(* The store is the moment of the seek.  One before the start of the file  *)
(* is no seek at all.                                                      *)
LEMMA SeekStorePos ==
  ASSUME TypeOK, PosInv, NEW t \in Threads, SeekStore(t)
  PROVE  /\ PosInv'
         /\ \/ UNCHANGED <<held, Positions>>
            \/ \E fd \in Fds, off \in SeekOffsets : Files!Seek(fd, off)
<1>0. PICK fd \in Fds : fd = arg[t]
  BY DEF TypeOK
<1>1. PICK p \in Int : p = pos[t]
  BY DEF TypeOK
<1>2. /\ held' = held /\ pc[t] = "seek" /\ pc'[t] = "idle"
      /\ file_pos' = [file_pos EXCEPT ![fd] = IF p < 0 THEN file_pos[fd] ELSE p]
      /\ \A u \in Threads \ {t} : UNCHANGED <<pc[u], arg[u], pos[u], count[u], n[u]>>
  BY <1>0, <1>1 DEF TypeOK, SeekStore, SeekTarget, Return
<1>3. /\ fd \in held \ SharedFds
      /\ \A u \in Threads \ {t} : InIo(u) => arg[u] # fd
      /\ Pending(fd) = {} /\ Cardinality(Pending(fd)) = 0
  BY <1>0, <1>2, Alone
<1>4. /\ \A g \in Fds \ {fd} : file_pos'[g] = file_pos[g]
      /\ file_pos'[fd] = IF p < 0 THEN file_pos[fd] ELSE p
      /\ \A g \in Fds : file_pos'[g] >= 0
  BY <1>2 DEF TypeOK, PosInv
<1>5. \A u \in Threads : InIo(u)' <=> InIo(u) /\ u # t
  BY <1>2 DEF InIo
<1>6. CallsOnHeld' /\ AloneUnlessShared'
  BY <1>2, <1>5 DEF PosInv, CallsOnHeld, AloneUnlessShared
<1>7. \A u \in Threads : AtPosition(u)'
  <2> SUFFICES ASSUME NEW u \in Threads, InIo(u), u # t PROVE AtPosition(u)'
    BY <1>5 DEF AtPosition, InIo
  <2>1. arg[u] \in Fds \ {fd}
    BY <1>3 DEF TypeOK
  <2> QED
    BY <1>2, <1>4, <2>1, CallKept DEF PosInv
<1>8. \A g : Pending(g)' = Pending(g)
  <2>1. \A u \in Threads :
          /\ pc'[u] = "advance" <=> pc[u] = "advance"
          /\ pc[u] = "advance" => arg'[u] = arg[u] /\ n'[u] = n[u]
    BY <1>2
  <2> QED
    BY <2>1, PendingKept
<1>9. PosInv'
  BY <1>4, <1>6, <1>7, <1>8 DEF PosInv
<1>10. /\ PositionOf(fd) = file_pos[fd] /\ PositionOf(fd)' = file_pos'[fd]
       /\ \A g \in Fds \ {fd} : PositionOf(g)' = PositionOf(g)
  <2>1. file_pos[fd] \in Int /\ file_pos'[fd] \in Int
    BY <1>4 DEF TypeOK
  <2>2. Cardinality(Pending(fd)') = 0
    BY <1>3, <1>8
  <2>3. PositionOf(fd) = file_pos[fd] /\ PositionOf(fd)' = file_pos'[fd]
    BY <1>2, <1>3, <2>1, <2>2 DEF PositionOf
  <2>4. ASSUME NEW g \in Fds \ {fd} PROVE PositionOf(g)' = PositionOf(g)
    BY <1>2, <1>4, <1>8, <2>4 DEF PositionOf
  <2> QED
    BY <2>3, <2>4
<1>11. Positions[fd] = file_pos[fd] /\ Positions' = [Positions EXCEPT ![fd] = file_pos'[fd]]
  BY <1>10, PositionMoves DEF Positions
<1>12. CASE p < 0
  <2>1. \A g \in Fds : PositionOf(g)' = PositionOf(g)
    BY <1>4, <1>10, <1>12
  <2> QED
    BY <1>2, <1>9, <2>1 DEF Positions
<1>13. CASE p >= 0
  <2>1. PICK base \in {0, file_pos[fd], MOCK_FILE_SIZE}, off \in SeekOffsets : p = base + off
    BY <1>0, <1>1, <1>2 DEF PosInv, AtPosition
  <2>2. file_pos'[fd] = base + off /\ base + off >= 0
    BY <1>4, <1>13, <2>1
  <2>3. Files!Seek(fd, off)
    BY <1>2, <1>3, <1>11, <2>1, <2>2 DEF Files!Seek
  <2> QED
    BY <1>9, <2>3
<1> QED
  BY <1>12, <1>13

-----------------------------------------------------------------------------
LEMMA InitPosInv == Init => PosInv
<1> SUFFICES ASSUME Init PROVE PosInv
  OBVIOUS
<1>1. \A fd \in Fds : IsFiniteSet(Pending(fd))
  <2> SUFFICES ASSUME NEW fd \in Fds PROVE IsFiniteSet(Pending(fd))
    OBVIOUS
  <2>1. Pending(fd) = {}
    BY NothingPending DEF Init
  <2> QED
    BY <2>1, FS_EmptySet
<1> QED
  BY <1>1 DEF Init, PosInv, CallsOnHeld, AloneUnlessShared, AtPosition, InIo

LEMMA InitFiles == Init => Files!Init
BY DEF Init, Files!Init, Positions, PositionOf

(* The moment of an open is its last step, of a close its first, of a read *)
(* or write the I/O, and of a seek the store.                              *)
LEMMA NextFiles ==
  ASSUME IInv, PosInv, [Next]_vars
  PROVE  PosInv' /\ [Files!Next]_<<held, Positions>>
<1>0. TypeOK
  BY DEF IInv
<1>1. ASSUME NEW t \in Threads, OpenInit(t)
      PROVE  PosInv' /\ Files!Next
  BY <1>0, <1>1, OpenInitPos DEF Files!Next, TypeOK
<1>2. ASSUME NEW t \in Threads, NEW fd \in Fds, CloseLookup(t, fd)
      PROVE  PosInv' /\ Files!Next
  BY <1>0, <1>2, CloseLookupPos DEF Files!Next
<1>3. ASSUME NEW t \in Threads, IoPerform(t)
      PROVE  PosInv' /\ Files!Next
  BY <1>3, IoPerformPos DEF Files!Next
<1>4. ASSUME NEW t \in Threads, SeekStore(t)
      PROVE  PosInv' /\ (Files!Next \/ UNCHANGED <<held, Positions>>)
  BY <1>0, <1>4, SeekStorePos DEF Files!Next
<1>5. ASSUME NEW t \in Threads,
             \/ OpenBegin(t) \/ OpenClaim(t) \/ OpenSkip(t) \/ OpenFail(t)
             \/ OpenFailReturn(t) \/ CloseRelease(t) \/ IoNoEmulator(t) \/ IoAdvance(t)
             \/ \E fd \in Fds, c \in Counts : IoBegin(t, fd, c)
      PROVE  PosInv' /\ UNCHANGED <<held, Positions>>
  BY <1>0, <1>5, SilentPos, IoNoEmulatorPos, IoAdvancePos, IoBeginPos, Zenon
<1>6. ASSUME NEW t \in Threads,
             \E fd \in Fds, off \in SeekOffsets :
               SeekSet(t, fd, off) \/ SeekCur(t, fd, off) \/ SeekEnd(t, fd, off)
      PROVE  PosInv' /\ UNCHANGED <<held, Positions>>
  BY <1>6, SeekBeginPos, Zenon
<1>7. CASE UNCHANGED vars
  <2>1. \A fd : Pending(fd)' = Pending(fd)
    BY <1>7 DEF vars, local, Pending
  <2>2. PosInv'
    BY <1>7, <2>1 DEF vars, table, local, PosInv, CallsOnHeld, AloneUnlessShared,
                      AtPosition, InIo
  <2>3. UNCHANGED <<held, Positions>>
    BY <1>7, <2>1 DEF vars, table, Positions, PositionOf
  <2> QED
    BY <2>2, <2>3
<1>8. CASE Next
  BY <1>1, <1>2, <1>3, <1>4, <1>5, <1>6, <1>8, Zenon DEF Next
<1> QED
  BY <1>7, <1>8

(* The fake FDs implement OpenFiles for any number of threads, slots and   *)
(* sizes: POSIX's offset on an FD used by one thread at a time, and every  *)
(* transfer counted once on a shared one, in whatever order the loads and  *)
(* fetch_adds of the position, the opens and the closes come.              *)
THEOREM Refinement == Spec => ImplementsOpenFiles
<1>1. Init => IInv /\ PosInv /\ Files!Init
  BY InitIInv, InitPosInv, InitFiles
<1>2. IInv /\ PosInv /\ [Next]_vars => IInv' /\ PosInv' /\ [Files!Next]_<<held, Positions>>
  BY NextIInv, NextFiles
<1> QED
  BY <1>1, <1>2, PTL DEF Spec, ImplementsOpenFiles, Files!Spec
=============================================================================
