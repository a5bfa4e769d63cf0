------------------------------- MODULE PcmStream -------------------------------
(***************************************************************************)
(* The sound of a Dollchan track (bytebeat_stream.c, and its owner in      *)
(* hooks.c): a thread renders blocks of samples into a ring, the audio     *)
(* callback reads them one at a time, and the game thread replaces the     *)
(* track, joins the old thread and frees the stream.                       *)
(*                                                                         *)
(* Ring positions are words that wrap; a sample is its number, modulo the  *)
(* same word.  The callback's lock is tried, the game thread's is waited   *)
(* for.  The producer waits for an event for 25 ms at most, so that a lost *)
(* one only delays it.                                                     *)
(***************************************************************************)
EXTENDS Integers

CONSTANTS
    Stream,             \* identities of streams
    NoStream,
    Block,              \* BYTEBEAT_STREAM_BLOCK_FRAMES
    Blocks,             \* BYTEBEAT_STREAM_BLOCK_COUNT
    Modulus             \* 2^32

Capacity == Block * Blocks

ASSUME StreamAssumption ==
    /\ NoStream \notin Stream /\ \E i, j \in Stream : i # j
    /\ Block \in Nat \ {0} /\ Blocks \in Nat \ {0}
    /\ Modulus \in Nat /\ Modulus % Capacity = 0 /\ Modulus > Capacity

VARIABLES
    stream,             \* the records of the streams
    tune,               \* g_framework_tune.js_stream
    callback,           \* where the audio callback is
    pump                \* the stream whose thread the game thread waits for

soundVars == <<stream, tune, callback, pump>>

Position == 0 .. Capacity - 1
Torn == -1

Unused == [at |-> "none", stop |-> FALSE, ready |-> FALSE, failed |-> FALSE,
           read |-> 0, write |-> 0, used |-> 0, pcm |-> [k \in Position |-> Torn]]

\* bytebeat_stream_create
New == [Unused EXCEPT !.at = "load"]

SoundInit ==
    /\ stream = [i \in Stream |-> Unused]
    /\ tune = NoStream /\ callback = "idle" /\ pump = NoStream

Word(n) == n % Modulus
PositionOf(n) == n % Capacity

-----------------------------------------------------------------------------
(* bytebeat_stream_thread *)

Producer(i, s) ==
    /\ stream' = [stream EXCEPT ![i] = s]
    /\ UNCHANGED <<tune, callback, pump>>

\* One look at both sequences; the consumer may move on at once.
Sequences(i) ==
    LET s == stream[i]
    IN /\ s.at = "load"
       /\ Producer(i, IF s.stop THEN [Unused EXCEPT !.at = "exit"]
                      ELSE [s EXCEPT !.at = "decide", !.used = Word(s.write - s.read)])

\* Mutant: any free position will do.
RoomForOne(used) == used < Capacity

Room(used) == Capacity - used >= Block

\* No room: a full ring may be played from now on.
Wait(i) ==
    LET s == stream[i]
    IN /\ s.at = "decide" /\ ~Room(s.used)
       /\ Producer(i, [s EXCEPT !.at = "wait", !.used = 0,
                                !.ready = @ \/ s.used = Capacity])

Wake(i) ==
    /\ stream[i].at = "wait"
    /\ Producer(i, [stream[i] EXCEPT !.at = "load"])

BlockAt(n) == {PositionOf(n + k) : k \in 0 .. Block - 1}

\* The block is written over, sample by sample.
Render(i) ==
    LET s == stream[i]
    IN /\ s.at = "decide" /\ Room(s.used)
       /\ Producer(i, [s EXCEPT !.at = "render",
                                !.pcm = [k \in Position |->
                                            IF k \in BlockAt(s.write) THEN Torn ELSE @[k]]])

\* And published when it is complete.
PublishBlock(i) ==
    LET s == stream[i]
        full == [k \in Position |->
                    IF k \in BlockAt(s.write) THEN Word(s.write + ((k - s.write) % Capacity))
                    ELSE s.pcm[k]]
    IN /\ s.at = "render"
       /\ Producer(i, [s EXCEPT !.at = "load", !.pcm = full, !.write = Word(@ + Block),
                                !.used = 0, !.ready = @ \/ s.used + Block = Capacity])

\* The track's program fails: bytebeat_stream_fail.
FailStream(i) ==
    /\ stream[i].at = "render"
    /\ Producer(i, [stream[i] EXCEPT !.at = "exit", !.failed = TRUE, !.ready = TRUE])

-----------------------------------------------------------------------------
(* framework_tune_audio_callback and bytebeat_stream_read *)

\* bytebeat_stream_ready
Ready(s) == s.ready /\ ~s.failed

\* The lock is free: nobody but the callback keeps it over a step.
Enter ==
    /\ callback = "idle"
    /\ tune # NoStream /\ Ready(stream[tune])
    /\ callback' = "frame"
    /\ UNCHANGED <<stream, tune, pump>>

\* There is a sample, or this frame is silent.
Look ==
    LET s == stream[tune]
    IN /\ callback = "frame" /\ Ready(s) /\ s.read # s.write
       /\ callback' = "copy"
       /\ UNCHANGED <<stream, tune, pump>>

Copy ==
    /\ callback = "copy" /\ callback' = "frame"
    /\ stream' = [stream EXCEPT ![tune].read = Word(@ + 1)]
    /\ UNCHANGED <<tune, pump>>

Leave ==
    /\ callback = "frame" /\ callback' = "idle"
    /\ UNCHANGED <<stream, tune, pump>>

-----------------------------------------------------------------------------
(* framework_tune_pump and framework_tune_deactivate *)

Stopping(s) == [Unused EXCEPT !.stop = TRUE, !.at = s.at, !.used = s.used]

\* Another track, or none, takes the place of the old one under the lock; what
\* its producer does before that nobody sees.  The old one is told to stop, and what it holds
\* nobody reads any more.
Change ==
    /\ pump = NoStream /\ callback = "idle"
    /\ \/ tune # NoStream /\ tune' = NoStream
       \/ tune' = CHOOSE i \in Stream : i # tune /\ stream[i].at = "none"
    /\ stream' = [i \in Stream |-> CASE i = tune' -> New
                                     [] i = tune  -> Stopping(stream[i])
                                     [] OTHER     -> stream[i]]
    /\ pump' = tune
    /\ UNCHANGED callback

\* bytebeat_stream_destroy: its thread is gone.
Free ==
    /\ pump # NoStream /\ stream[pump].at = "exit"
    /\ pump' = NoStream
    /\ stream' = [stream EXCEPT ![pump] = Unused]
    /\ UNCHANGED <<tune, callback>>

-----------------------------------------------------------------------------
SoundNext ==
    \/ \E i \in Stream :
        \/ Sequences(i) \/ Wait(i) \/ Wake(i)
        \/ Render(i) \/ PublishBlock(i) \/ FailStream(i)
    \/ Enter \/ Look \/ Copy \/ Leave
    \/ Change \/ Free

SoundSpec == SoundInit /\ [][SoundNext]_soundVars

-----------------------------------------------------------------------------
(***************************************************************************)
(* Properties.                                                             *)
(***************************************************************************)
\* The sample the callback copies is the next one of the track it plays, whole
\* and not yet overwritten, and the stream is not freed under it; the producer
\* never meets the overflow it guards against.
PlaysInOrder ==
    /\ callback = "copy" =>
        /\ tune # NoStream /\ stream[tune].at # "none"
        /\ LET s == stream[tune] IN s.pcm[PositionOf(s.read)] = s.read
    /\ \A i \in Stream : stream[i].used <= Capacity
=============================================================================
