----------------------------- MODULE OpenFiles ------------------------------
(***************************************************************************)
(* What a program may expect of open, close, read, write and lseek: every  *)
(* open file has an offset, and each call acts on it in one step, at some  *)
(* moment between the call and its return.  Buffers and contents are left  *)
(* out: a transfer is its size.                                            *)
(*                                                                         *)
(* Calls of several threads on a shared file are the weak point.  The size *)
(* of each transfer counts in the offset, but a transfer may start behind  *)
(* the offset, at one it had before, and so find more left in the file.    *)
(***************************************************************************)
EXTENDS Integers

CONSTANTS
  Fds,              (* file descriptors                                    *)
  Size,             (* of every file                                       *)
  Counts,           (* sizes asked of a transfer                           *)
  SeekOffsets,      (* offsets asked of a seek                             *)
  SharedFds         (* FDs several threads transfer on at a time           *)

VARIABLES
  open,             (* the FDs that are open                               *)
  position          (* per FD: its offset, 0 while it is closed            *)

Init ==
  /\ open = {}
  /\ position = [fd \in Fds |-> 0]

(* A file is opened on an FD that is not in use, at its start.             *)
Open(fd) ==
  /\ fd \notin open
  /\ open' = open \cup {fd}
  /\ position' = [position EXCEPT ![fd] = 0]

Close(fd) ==
  /\ fd \in open
  /\ open' = open \ {fd}
  /\ position' = [position EXCEPT ![fd] = 0]

(* What a transfer of c at offset p finds in the file.                     *)
Left(p, c) ==
  IF p >= Size THEN 0
  ELSE IF c <= Size - p THEN c ELSE Size - p

Transfer(fd, c) ==
  /\ fd \in open
  /\ \E k \in Left(position[fd], c) .. c :
       /\ fd \notin SharedFds => k = Left(position[fd], c)
       /\ position' = [position EXCEPT ![fd] = position[fd] + k]
  /\ UNCHANGED open

(* SEEK_SET, SEEK_CUR or SEEK_END; there is no offset before the start.    *)
Seek(fd, off) ==
  /\ fd \in open \ SharedFds
  /\ \E base \in {0, position[fd], Size} :
       /\ base + off >= 0
       /\ position' = [position EXCEPT ![fd] = base + off]
  /\ UNCHANGED open

Next ==
  \E fd \in Fds :
    \/ Open(fd)
    \/ Close(fd)
    \/ \E c \in Counts : Transfer(fd, c)
    \/ \E off \in SeekOffsets : Seek(fd, off)

Spec == Init /\ [][Next]_<<open, position>>
=============================================================================
