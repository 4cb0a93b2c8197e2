-------------------------- MODULE VoiceoverWorker --------------------------
(***************************************************************************)
(* The voice of the demo agent (vibe_demo_agent/vibe_demo_agent.py): speak, *)
(* called by the main thread and by the daemon thread of a VoiceoverWorker *)
(* which takes texts from a FIFO queue.  A voice line is synthesised,      *)
(* written to /tmp/vibe_demo_voice_<index>.wav and played by a child       *)
(* process.  Each thread is one speaker.                                   *)
(***************************************************************************)
EXTENDS Naturals, Sequences

CONSTANT Indices     (* the indices a voice file can have                  *)
ASSUME IndicesAssumption == Indices \subseteq Nat

Speakers == {"main", "worker"}
None == "None"       (* the sentinel in the queue                          *)

VARIABLES
  voice,             (* per speaker: where its call of speak is            *)
  index,             (* per speaker: the file of that call                 *)
  files,             (* per index: nothing, or how far the file got        *)
  queue,             (* of the worker                                      *)
  next_index,        (* of the worker                                      *)
  worker,            (* the thread: none, in get, in speak, ended          *)
  tried              (* texts the worker has taken (history)               *)

voiceVars == <<voice, index, files, queue, next_index, worker, tried>>
workerVars == <<queue, next_index, worker, tried>>

VoiceInit ==
  /\ voice = [s \in Speakers |-> "silent"]
  /\ index = [s \in Speakers |-> 0]
  /\ files = [i \in Indices |-> "absent"]
  /\ queue = <<>> /\ next_index = 0
  /\ worker = "none" /\ tried = <<>>

-----------------------------------------------------------------------------
(* speak.                                                                  *)
Speaking(s) == voice[s] \in {"synthesis", "playing"}

SpeakBegin(s, i) ==
  /\ voice[s] = "silent"
  /\ voice' = [voice EXCEPT ![s] = "synthesis"]
  /\ index' = [index EXCEPT ![s] = i]
  /\ UNCHANGED files

To(s, from, to) ==
  /\ voice[s] = from
  /\ voice' = [voice EXCEPT ![s] = to]
  /\ UNCHANGED <<index, workerVars>>

(* No key, or a synthesis that did not complete: there is no voice line.   *)
Skips(s) == To(s, "synthesis", "returned") /\ UNCHANGED files

Plays(s) ==
  /\ To(s, "synthesis", "playing")
  /\ files' = [files EXCEPT ![index[s]] = "written"]

Finishes(s) ==
  /\ To(s, "playing", "returned")
  /\ files' = [files EXCEPT ![index[s]] = "played"]

(* The speech service, the file system or the start of the player raises.  *)
Raises(s) ==
  /\ \/ To(s, "synthesis", "raised")
     \/ To(s, "playing", "raised")
  /\ UNCHANGED files

SpeakStep == \E s \in Speakers : Skips(s) \/ Plays(s) \/ Finishes(s) \/ Raises(s)

-----------------------------------------------------------------------------
(* The thread of the worker.                                               *)
WorkerTakes ==
  /\ worker = "get" /\ queue # <<>>
  /\ queue' = Tail(queue)
  /\ \/ /\ Head(queue) = None
        /\ worker' = "ended"
        /\ UNCHANGED <<voice, index, files, tried>>
     \/ /\ Head(queue) # None
        /\ worker' = "speaking"
        /\ tried' = Append(tried, Head(queue))
        /\ SpeakBegin("worker", next_index)
  /\ UNCHANGED next_index

NextIndexKept(i) == i
NextIndex(i) == i + 1

WorkerSpoke ==
  /\ worker = "speaking" /\ voice["worker"] = "returned"
  /\ next_index' = NextIndex(next_index)
  /\ worker' = "get"
  /\ voice' = [voice EXCEPT !["worker"] = "silent"]
  /\ UNCHANGED <<index, files, queue, tried>>

WorkerWarns ==
  /\ worker = "speaking" /\ voice["worker"] = "raised"
  /\ worker' = "get"
  /\ voice' = [voice EXCEPT !["worker"] = "silent"]
  /\ UNCHANGED <<index, files, queue, next_index, tried>>

WorkerStep == WorkerTakes \/ WorkerSpoke \/ WorkerWarns

-----------------------------------------------------------------------------
(* What the main thread does with a worker.                                *)
StartWorker(start_index) ==
  /\ worker' = "get"
  /\ queue' = <<>> /\ next_index' = start_index /\ tried' = <<>>
  /\ UNCHANGED <<voice, index, files>>

Enqueue(text) ==
  /\ queue' = Append(queue, text)
  /\ UNCHANGED <<voice, index, files, next_index, worker, tried>>

(* close: the sentinel, then join.                                         *)
NoSentinel(q) == q
WithSentinel(q) == Append(q, None)

PutSentinel ==
  /\ queue' = WithSentinel(queue)
  /\ UNCHANGED <<voice, index, files, next_index, worker, tried>>

JoinedAtOnce == TRUE
Joined == worker = "ended"

-----------------------------------------------------------------------------
(* A voice line has a file of its own: one that was played to its end is   *)
(* not written again by a later line of either thread.  The worker takes   *)
(* its first index from the script and gives the next one back, and the    *)
(* AWS part counts on 102 and up not to reach 110.                         *)
FilesKept ==
  [][\A i \in Indices : files[i] = "played" => files'[i] = "played"]_voiceVars
=============================================================================
