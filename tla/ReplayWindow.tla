------------------------------ MODULE ReplayWindow -----------------------------
(***************************************************************************)
(* What authentication remembers of the datagrams it has let through       *)
(* (ggpo_net_authenticate_received): the sender's session, the highest     *)
(* sequence number of it, and a table of the last Window ones.             *)
(*                                                                         *)
(* The sender numbers the datagrams of a session from 1 and may start over *)
(* in a new session until the match has begun.  The link repeats, reorders *)
(* and delays what was ever sent.  Only genuine datagrams are modelled:    *)
(* keys and tags are not, and the endpoint a datagram comes from is that   *)
(* of its session.                                                         *)
(***************************************************************************)
EXTENDS Integers

CONSTANTS
    Window,             \* GGPO_NET_REPLAY_WINDOW
    Retained,           \* entries of retired_remote_session_ids
    MaxSession,         \* bound: sessions of the sender
    MaxSequence,        \* bound: datagrams of one session
    Hello               \* the sequence numbers that carry a HELLO

\* A client gives up after so few attempts that no retired session is forgotten.
ASSUME WindowAssumption ==
    /\ Window \in Nat \ {0} /\ Retained \in Nat
    /\ MaxSession \in 1 .. Retained + 1 /\ MaxSequence \in Nat
    /\ Hello \subseteq Nat

Session == 1 .. MaxSession

VARIABLES
    sending,            \* the sender's session
    count,              \* count[s]: auth_send_sequence of session s
    rx,                 \* auth_rx_session, 0 before there is one
    highest,            \* auth_rx_highest_sequence
    seen,               \* auth_rx_seen
    retired,            \* retired_remote_session_ids
    started,            \* no HELLO may move this peer any more
    passed              \* every datagram let through so far

windowVars == <<sending, count, rx, highest, seen, retired, started, passed>>

Sequence(s) == 1 .. count[s]
Entry == 0 .. Window - 1
Unseen == [e \in Entry |-> 0]
SlotOf(n) == n % Window

WindowInit ==
    /\ sending = 1 /\ count = [s \in Session |-> 0]
    /\ rx = 0 /\ highest = 0 /\ seen = Unseen
    /\ retired = {} /\ started = FALSE /\ passed = {}

-----------------------------------------------------------------------------
\* ggpo_net_send_bytes: every datagram takes the next number.
Send ==
    /\ count[sending] < MaxSequence
    /\ count' = [count EXCEPT ![sending] = @ + 1]
    /\ UNCHANGED <<sending, rx, highest, seen, retired, started, passed>>

\* The sender's session is replaced by the next one of its retry machine.
Restart ==
    /\ sending < MaxSession
    /\ sending' = sending + 1
    /\ UNCHANGED <<count, rx, highest, seen, retired, started, passed>>

\* Mutant: the table alone tells what was let through.
TooOldNever(n) == FALSE

\* Left of the window.
TooOld(n) == n <= highest /\ highest - n >= Window

\* A datagram of the session followed, or a HELLO of one not left yet.
Passes(s, n) ==
    \/ s = rx /\ ~TooOld(n) /\ seen[SlotOf(n)] # n
    \/ s # rx /\ s \notin retired /\ n \in Hello /\ ~started

\* One authentic datagram is let through.  With a new session the window
\* starts anew, and the handler retires the session it leaves
\* (ggpo_net_accept_packet_source).
Authenticate(s, n) ==
    /\ n \in Sequence(s) /\ Passes(s, n)
    /\ seen' = [(IF s = rx THEN seen ELSE Unseen) EXCEPT ![SlotOf(n)] = n]
    /\ highest' = IF s = rx /\ n <= highest THEN highest ELSE n
    /\ rx' = s
    /\ retired' = retired \cup ({rx} \ {0, s})
    /\ passed' = passed \cup {<<s, n>>}
    /\ UNCHANGED <<sending, count, started>>

\* The link is confirmed for good, or the start state has been loaded.
Begin ==
    /\ rx # 0 /\ ~started
    /\ started' = TRUE
    /\ UNCHANGED <<sending, count, rx, highest, seen, retired, passed>>

WindowNext ==
    \/ Send \/ Restart \/ Begin
    \/ \E s \in Session : \E n \in Sequence(s) : Authenticate(s, n)

WindowSpec == WindowInit /\ [][WindowNext]_windowVars

-----------------------------------------------------------------------------
(***************************************************************************)
(* Properties.                                                             *)
(***************************************************************************)
\* In whatever order the link repeats datagrams, and across changes of session,
\* none is let through twice, and one of the session followed that was not let
\* through yet is, unless Window newer numbers have overtaken it.
FreshPassesOnce ==
    \A s \in Session : \A n \in Sequence(s) :
        /\ Passes(s, n) => <<s, n>> \notin passed
        /\ s = rx /\ <<s, n>> \notin passed /\ highest - n < Window => Passes(s, n)

WindowTypeOK ==
    /\ sending \in Session /\ count \in [Session -> Nat]
    /\ rx \in Session \cup {0} /\ highest \in Nat /\ seen \in [Entry -> Nat]
    /\ retired \subseteq Session /\ started \in BOOLEAN
    /\ passed \subseteq Session \X (Nat \ {0})

\* Everything let through is of the session followed or of one left.
OfKnownSession == \A d \in passed : d[1] = rx \/ d[1] \in retired

\* The table holds numbers that were let through, each in its slot, and every
\* one that was and is still within the window.
TableIsPassed ==
    /\ \A e \in Entry : seen[e] # 0 => SlotOf(seen[e]) = e /\ <<rx, seen[e]>> \in passed
    /\ \A d \in passed :
        d[1] = rx => d[2] <= highest /\ (highest - d[2] < Window => seen[SlotOf(d[2])] = d[2])

\* What makes it hold, and is inductive.
WindowInv ==
    /\ WindowTypeOK /\ OfKnownSession /\ TableIsPassed
    /\ rx \notin retired /\ (rx = 0 => passed = {} /\ highest = 0 /\ seen = Unseen)
=============================================================================
