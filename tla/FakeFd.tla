------------------------------- MODULE FakeFd -------------------------------
(***************************************************************************)
(* The fake file descriptors of the LD_PRELOAD layer (src/intercept.cpp,   *)
(* include/dataplane_emu/intercept.hpp): FakeFdTable::alloc and release,   *)
(* and the libc entry points open, close, read, write and lseek64 on top   *)
(* of it, called by several application threads.  Every atomic access is a *)
(* step of its own, so that the scan of alloc, the lookup before a release *)
(* and the load and the fetch_add around the I/O of a read interleave.     *)
(*                                                                         *)
(* A fake FD is the index of its slot.  The application is a correct one:  *)
(* it uses an FD only between the open that returned it and the close that *)
(* ends it, and by one thread at a time unless it is one of SharedFds, on  *)
(* which any number of threads read and write, but do not seek.            *)
(***************************************************************************)
EXTENDS Integers, FiniteSets

CONSTANTS
  Threads,          (* application threads                                 *)
  FAKE_FD_COUNT,    (* slots of the table                                  *)
  MOCK_FILE_SIZE,   (* file_size of every fake file, 1 GB in the code      *)
  Counts,           (* sizes passed to read and write                      *)
  SeekOffsets,      (* offsets passed to lseek64                           *)
  MaxPos,           (* bound of the model: no I/O or seek beyond it        *)
  SharedFds         (* FDs several threads work on at a time               *)

ASSUME FakeFdAssumption ==
  /\ FAKE_FD_COUNT \in Nat \ {0}
  /\ MOCK_FILE_SIZE \in Nat
  /\ Counts \subseteq Nat
  /\ SeekOffsets \subseteq Int
  /\ MaxPos \in Nat
  /\ SharedFds \subseteq 0 .. (FAKE_FD_COUNT - 1)
  /\ IsFiniteSet(Threads)

Fds == 0 .. (FAKE_FD_COUNT - 1)

VARIABLES
  state,        (* per slot: "FREE" or "OPEN"                              *)
  file_size,    (* per slot                                                *)
  file_pos,     (* per slot                                                *)
  pc,           (* per thread: where it is in its call                     *)
  arg,          (* per thread: the slot it is working on                   *)
  count,        (* per thread: size asked for by its read or write         *)
  pos,          (* per thread: the position it loaded                      *)
  n,            (* per thread: result of its last I/O                      *)
  held,         (* FDs the application holds                               *)
  tooMany       (* per thread: opens and FDs exceeded the table meanwhile  *)

table == <<state, file_size, file_pos>>
local == <<pc, arg, count, pos, n>>
vars == <<table, local, held, tooMany>>

InIo(t) == pc[t] \in {"io", "advance", "seek"}

(* The call of thread t is over; its locals are gone.                      *)
Return(t) ==
  /\ pc' = [pc EXCEPT ![t] = "idle"]
  /\ arg' = [arg EXCEPT ![t] = 0]
  /\ count' = [count EXCEPT ![t] = 0]
  /\ pos' = [pos EXCEPT ![t] = 0]
  /\ n' = [n EXCEPT ![t] = 0]

(* May thread t start a call on fd?                                        *)
Usable(fd) ==
  /\ fd \in held
  /\ fd \in SharedFds \/ \A u \in Threads : InIo(u) => arg[u] # fd

Smaller(a, b) == IF a <= b THEN a ELSE b

-----------------------------------------------------------------------------
Init ==
  /\ state = [i \in Fds |-> "FREE"]
  /\ file_size = [i \in Fds |-> 0]
  /\ file_pos = [i \in Fds |-> 0]
  /\ pc = [t \in Threads |-> "idle"]
  /\ arg = [t \in Threads |-> 0]
  /\ count = [t \in Threads |-> 0]
  /\ pos = [t \in Threads |-> 0]
  /\ n = [t \in Threads |-> 0]
  /\ held = {}
  /\ tooMany = [t \in Threads |-> FALSE]

(* Did opens and FDs together exceed the table while an open was under     *)
(* way?  Evaluated on the next state, at every step that changes either.   *)
Observe ==
  LET opening == {t \in Threads : pc'[t] \in {"scan", "init"}}
      closing == {t \in Threads : pc'[t] = "release"}
      demand == Cardinality(opening) + Cardinality(closing) + Cardinality(held')
  IN tooMany' = [t \in Threads |->
        \/ t \in opening /\ (tooMany[t] \/ demand > FAKE_FD_COUNT)
        \/ pc'[t] = "enfile" /\ tooMany[t]]

-----------------------------------------------------------------------------
(* open of a dataplane path: FakeFdTable::alloc.                           *)
OpenBegin(t) ==
  /\ pc[t] = "idle"
  /\ pc' = [pc EXCEPT ![t] = "scan"]
  /\ arg' = [arg EXCEPT ![t] = 0]
  /\ UNCHANGED <<table, count, pos, n, held>>
  /\ Observe

(* compare_exchange_strong(FREE -> OPEN) on the slot under the scan.       *)
ClaimLoadOnly(i) == state[i] = "FREE" /\ state' = state
Claim(i) == state[i] = "FREE" /\ state' = [state EXCEPT ![i] = "OPEN"]

OpenClaim(t) ==
  /\ pc[t] = "scan"
  /\ Claim(arg[t])
  /\ pc' = [pc EXCEPT ![t] = "init"]
  /\ UNCHANGED <<file_size, file_pos, arg, count, pos, n, held>>
  /\ Observe

(* The exchange failed: next slot.                                         *)
LastSlotShort == FAKE_FD_COUNT - 2
LastSlot == FAKE_FD_COUNT - 1

OpenSkip(t) ==
  /\ pc[t] = "scan"
  /\ state[arg[t]] # "FREE"
  /\ arg[t] < LastSlot
  /\ arg' = [arg EXCEPT ![t] = @ + 1]
  /\ UNCHANGED <<table, pc, count, pos, n, held>>
  /\ Observe

(* No slot was free when it was looked at: -1, and open sets ENFILE.       *)
OpenFail(t) ==
  /\ pc[t] = "scan"
  /\ state[arg[t]] # "FREE"
  /\ arg[t] >= LastSlot
  /\ pc' = [pc EXCEPT ![t] = "enfile"]
  /\ UNCHANGED <<table, arg, count, pos, n, held, tooMany>>

OpenFailReturn(t) ==
  /\ pc[t] = "enfile"
  /\ Return(t)
  /\ UNCHANGED <<table, held>>
  /\ Observe

(* The slot is already OPEN when its fields are set; then open returns.    *)
InitialPos(i) == 0

OpenInit(t) ==
  LET i == arg[t] IN
  /\ pc[t] = "init"
  /\ file_size' = [file_size EXCEPT ![i] = MOCK_FILE_SIZE]
  /\ file_pos' = [file_pos EXCEPT ![i] = InitialPos(i)]
  /\ held' = held \cup {i}
  /\ Return(t)
  /\ UNCHANGED state
  /\ Observe

(* close: the lookup, then release, whose result is ignored.  The          *)
(* application lets go of the FD when it calls close.                      *)
CloseLookup(t, fd) ==
  /\ pc[t] = "idle"
  /\ fd \in held
  /\ \A u \in Threads : InIo(u) => arg[u] # fd
  /\ state[fd] = "OPEN"
  /\ held' = held \ {fd}
  /\ pc' = [pc EXCEPT ![t] = "release"]
  /\ arg' = [arg EXCEPT ![t] = fd]
  /\ UNCHANGED <<table, count, pos, n>>
  /\ Observe

Released(i) == [state EXCEPT ![i] = IF @ = "OPEN" THEN "FREE" ELSE @]

CloseRelease(t) ==
  /\ pc[t] = "release"
  /\ state' = Released(arg[t])
  /\ Return(t)
  /\ UNCHANGED <<file_size, file_pos, held>>
  /\ Observe

-----------------------------------------------------------------------------
(* read and write: lookup, load of file_pos, then pread or pwrite at that  *)
(* position, then fetch_add of what it returned.                           *)
IoBegin(t, fd, c) ==
  /\ pc[t] = "idle"
  /\ Usable(fd)
  /\ state[fd] = "OPEN"
  /\ pc' = [pc EXCEPT ![t] = "io"]
  /\ arg' = [arg EXCEPT ![t] = fd]
  /\ count' = [count EXCEPT ![t] = c]
  /\ pos' = [pos EXCEPT ![t] = file_pos[fd]]
  /\ UNCHANGED <<table, n, held, tooMany>>

(* pread and pwrite clamp to the file size and give 0 at the end.  The     *)
(* comparison is made on uint64_t, so a negative offset is also beyond it. *)
Clamp(fd, p, c) ==
  IF p < 0 \/ p >= file_size[fd] THEN 0 ELSE Smaller(c, file_size[fd] - p)

(* The I/O itself: it takes all that was asked, or fails with EAGAIN when  *)
(* the calling thread gets no emulator.                                    *)
IoDone(t, got) ==
  /\ n' = [n EXCEPT ![t] = got]
  /\ pc' = [pc EXCEPT ![t] = "advance"]
  /\ UNCHANGED <<table, arg, count, pos, held, tooMany>>

IoPerform(t) ==
  /\ pc[t] = "io"
  /\ IoDone(t, Clamp(arg[t], pos[t], count[t]))

IoNoEmulator(t) ==
  /\ pc[t] = "io"
  /\ pos[t] < file_size[arg[t]]
  /\ IoDone(t, -1)

(* fetch_add(n) if anything was transferred.                               *)
AdvancedStore(t) == pos[t] + n[t]
Advanced(t) == file_pos[arg[t]] + n[t]

IoAdvance(t) ==
  /\ pc[t] = "advance"
  /\ file_pos' = [file_pos EXCEPT ![arg[t]] = IF n[t] > 0 THEN Advanced(t) ELSE @]
  /\ Return(t)
  /\ UNCHANGED <<state, file_size, held, tooMany>>

-----------------------------------------------------------------------------
(* lseek64.  SEEK_SET and SEEK_END do not read the position; SEEK_CUR      *)
(* loads it and stores the sum in a later step.  A negative target is      *)
(* EINVAL and leaves the position alone.                                   *)
SeekBegin(t, fd, base, off) ==
  /\ pc[t] = "idle"
  /\ Usable(fd) /\ fd \notin SharedFds
  /\ state[fd] = "OPEN"
  /\ base + off <= MaxPos
  /\ pc' = [pc EXCEPT ![t] = "seek"]
  /\ arg' = [arg EXCEPT ![t] = fd]
  /\ pos' = [pos EXCEPT ![t] = base + off]
  /\ UNCHANGED <<table, count, n, held, tooMany>>

SeekSet(t, fd, off) == SeekBegin(t, fd, 0, off)
SeekCur(t, fd, off) == SeekBegin(t, fd, file_pos[fd], off)
SeekEnd(t, fd, off) == SeekBegin(t, fd, file_size[fd], off)

SeekTarget(t) == IF pos[t] < 0 THEN file_pos[arg[t]] ELSE pos[t]

SeekStore(t) ==
  /\ pc[t] = "seek"
  /\ file_pos' = [file_pos EXCEPT ![arg[t]] = SeekTarget(t)]
  /\ Return(t)
  /\ UNCHANGED <<state, file_size, held, tooMany>>

-----------------------------------------------------------------------------
Next ==
  \E t \in Threads :
    \/ OpenBegin(t)
    \/ OpenClaim(t)
    \/ OpenSkip(t)
    \/ OpenFail(t)
    \/ OpenFailReturn(t)
    \/ OpenInit(t)
    \/ \E fd \in Fds : CloseLookup(t, fd)
    \/ CloseRelease(t)
    \/ \E fd \in Fds, c \in Counts : IoBegin(t, fd, c)
    \/ IoPerform(t)
    \/ IoNoEmulator(t)
    \/ IoAdvance(t)
    \/ \E fd \in Fds, off \in SeekOffsets :
         SeekSet(t, fd, off) \/ SeekCur(t, fd, off) \/ SeekEnd(t, fd, off)
    \/ SeekStore(t)

Spec == Init /\ [][Next]_vars

-----------------------------------------------------------------------------
(* Properties.                                                             *)

(* Who may use a slot, whatever opens, failures and closes interleave.  A  *)
(* slot an open has won is not held and no other open or close works on    *)
(* it, so no two live opens share an FD.  An FD the application holds is   *)
(* OPEN with its size set, so that no call on it falls through to libc.    *)
(* And a slot is OPEN only for one of these, so that none leaks.           *)
SlotOwnership ==
  /\ \A t \in Threads : pc[t] = "init" =>
       /\ arg[t] \notin held
       /\ \A u \in Threads \ {t} : pc[u] \in {"init", "release"} => arg[u] # arg[t]
  /\ \A fd \in held : state[fd] = "OPEN" /\ file_size[fd] = MOCK_FILE_SIZE
  /\ \A fd \in Fds : state[fd] = "OPEN" =>
       \/ fd \in held
       \/ \E t \in Threads : pc[t] \in {"init", "release"} /\ arg[t] = fd

(* open fails only if, at some time during the call, the FDs not yet       *)
(* released and the opens under way together exceeded the table: the scan  *)
(* from slot 0 cannot miss a slot for fewer contenders.  (It can for as    *)
(* many: a slot freed behind the scan while a later one is taken.)         *)
FailsOnlyBeyondCapacity ==
  \A t \in Threads : pc[t] = "enfile" => tooMany[t]

-----------------------------------------------------------------------------
(* The calls of the threads against what they promise.                     *)

(* The units transferred on fd that have not reached file_pos yet.         *)
Pending(fd) ==
  UNION {{t} \X (1 .. n[t]) : t \in {u \in Threads : pc[u] = "advance" /\ arg[u] = fd}}

(* The position the calls done so far amount to.                           *)
PositionOf(fd) ==
  IF fd \in held THEN file_pos[fd] + Cardinality(Pending(fd)) ELSE 0

Positions == [fd \in Fds |-> PositionOf(fd)]

Files == INSTANCE OpenFiles WITH
  Size <- MOCK_FILE_SIZE,
  open <- held,
  position <- Positions

(* The table implements OpenFiles, however the atomic accesses of the      *)
(* threads interleave.  On an FD used by one thread at a time every call   *)
(* moves the offset as POSIX says: short reads at the end of the file,     *)
(* seeks beyond it, failed seeks and failed I/Os included.  On a shared FD *)
(* each transfer counts once: none is lost between the load of file_pos    *)
(* and the fetch_add, and none is counted on an FD that was closed and     *)
(* opened again.                                                           *)
ImplementsOpenFiles == Files!Spec
=============================================================================
