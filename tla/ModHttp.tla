-------------------------------- MODULE ModHttp --------------------------------
(***************************************************************************)
(* mod.http (mod_http.c): mods ask for a page, a worker thread fetches it, *)
(* and the mod polls a handle for the answer.  Slots and handles are few   *)
(* and used again; a worker cannot be stopped, only told that nobody waits *)
(* for its answer any more, and it goes on writing into its slot.          *)
(*                                                                         *)
(* The mods' calls all run on the game thread.  A page is the request that *)
(* it answers.                                                             *)
(***************************************************************************)
EXTENDS Integers, FiniteSets

CONSTANTS
    Owner,              \* mods, by the address that identifies them
    MaxSlots,           \* HTTP_MAX_SLOTS
    MaxHandle,          \* INT_MAX
    MaxRequest          \* bound: requests in a run

ASSUME HttpAssumption ==
    /\ MaxSlots \in Nat \ {0} /\ MaxRequest \in Nat
    /\ MaxHandle \in Nat /\ MaxHandle > MaxSlots

HttpSlot == 1 .. MaxSlots
Handle == 1 .. MaxHandle
Request == 1 .. MaxRequest
Nothing == 0

VARIABLES
    slots,              \* g_http_slots
    nextHandle,         \* g_http_next_handle
    worker,             \* worker[r]: where request r's thread is, and its slot
    asked,              \* requests so far
    enabled,            \* the mods that are loaded
    given               \* given[o][h]: what o was last given handle h for

httpVars == <<slots, nextHandle, worker, asked, enabled, given>>

Empty == [request |-> Nothing, handle |-> Nothing, owner |-> Nothing,
          done |-> 0, cancelled |-> FALSE, page |-> Nothing]

HttpInit ==
    /\ slots = [i \in HttpSlot |-> Empty]
    /\ nextHandle = 1 /\ asked = 0
    /\ worker = [r \in Request |-> [at |-> "none", slot |-> Nothing]]
    /\ enabled = Owner
    /\ given = [o \in Owner |-> [h \in Handle |-> Nothing]]

InUse(i, s) == s[i].request # Nothing

-----------------------------------------------------------------------------
(* The helpers of the calls; s is g_http_slots. *)

\* mod_http_pump: a cancelled slot is released once its worker has finished.
Pumped(s) ==
    [i \in HttpSlot |-> IF s[i].cancelled /\ s[i].done # 0 THEN Empty ELSE s[i]]

\* http_find_slot
Found(s, o, h) == {i \in HttpSlot : InUse(i, s) /\ s[i].handle = h /\ s[i].owner = o}

\* http_allocate_handle: from g_http_next_handle on, past those in use.
After(h) == IF h = MaxHandle THEN 1 ELSE h + 1
Ahead(h) == (h - nextHandle) % MaxHandle
NewHandle(s) ==
    CHOOSE h \in Handle :
        LET free == {g \in Handle : \A i \in HttpSlot : InUse(i, s) => s[i].handle # g}
        IN h \in free /\ \A g \in free : Ahead(h) <= Ahead(g)

\* Mutant: whoever cancels gives the slot back.
CancelledAtOnce(slot) == Empty

\* Nothing is freed before the worker has said that it is done.
Cancelled(slot) == [slot EXCEPT !.cancelled = TRUE]

-----------------------------------------------------------------------------
(* The calls of the mods and of their loader. *)

\* lua_http_get
Get(o) ==
    LET s == Pumped(slots)
        free == {i \in HttpSlot : ~InUse(i, s)}
        i == CHOOSE k \in free : \A j \in free : k <= j
        h == NewHandle(s)
    IN /\ o \in enabled /\ asked < MaxRequest
       /\ asked' = asked + 1
       /\ \/ /\ slots' = s            \* no slot, or no such address
             /\ UNCHANGED <<nextHandle, worker, given>>
          \/ /\ free # {} /\ nextHandle' = After(h)
             /\ slots' = [s EXCEPT ![i] = [Empty EXCEPT !.request = asked', !.owner = o,
                                                        !.handle = h]]
             /\ worker' = [worker EXCEPT ![asked'] = [at |-> "asking", slot |-> i]]
             /\ given' = [given EXCEPT ![o][h] = asked']
          \/ /\ free # {} /\ nextHandle' = After(h)      \* no thread
             /\ slots' = s
             /\ UNCHANGED <<worker, given>>
       /\ UNCHANGED enabled

\* lua_http_poll: what is not pending any more is answered and released.
Poll(o, h) ==
    LET s == Pumped(slots)
        answered == {i \in Found(s, o, h) : ~s[i].cancelled /\ s[i].done # 0}
    IN /\ slots' = [i \in HttpSlot |-> IF i \in answered THEN Empty ELSE s[i]]
       /\ UNCHANGED <<nextHandle, worker, asked, enabled, given>>

\* lua_http_cancel
Cancel(o, h) ==
    LET s == Pumped(slots)
        found == Found(s, o, h)
    IN /\ slots' = Pumped([i \in HttpSlot |-> IF i \in found THEN Cancelled(s[i]) ELSE s[i]])
       /\ UNCHANGED <<nextHandle, worker, asked, enabled, given>>

\* unload_single_mod_runtime, with mod_http_cancel_owner.
Unload(o) ==
    /\ o \in enabled /\ enabled' = enabled \ {o}
    /\ slots' = Pumped([i \in HttpSlot |->
                    IF InUse(i, slots) /\ slots[i].owner = o THEN Cancelled(slots[i])
                    ELSE slots[i]])
    /\ given' = [given EXCEPT ![o] = [h \in Handle |-> Nothing]]
    /\ UNCHANGED <<nextHandle, worker, asked>>

\* Another mod is loaded at the same address.
Load(o) ==
    /\ o \notin enabled /\ enabled' = enabled \cup {o}
    /\ UNCHANGED <<slots, nextHandle, worker, asked, given>>

-----------------------------------------------------------------------------
(* http_worker_thread *)

Write(r, at, change) ==
    /\ worker' = [worker EXCEPT ![r].at = at]
    /\ slots' = [slots EXCEPT ![worker[r].slot] = change]
    /\ UNCHANGED <<nextHandle, asked, enabled, given>>

MySlot(r) == slots[worker[r].slot]

\* The status and headers arrive; they are written whoever waits.
Respond(r) ==
    /\ worker[r].at = "asking"
    /\ Write(r, "reading", [MySlot(r) EXCEPT !.page = r])

\* The body is complete and somebody wants it.
Complete(r) ==
    /\ worker[r].at = "reading" /\ ~MySlot(r).cancelled
    /\ Write(r, "publishing", [MySlot(r) EXCEPT !.page = r])

PublishPage(r) ==
    /\ worker[r].at = "publishing"
    /\ Write(r, "over", [MySlot(r) EXCEPT !.done = 1])

\* No answer, a bad one, too long a body, or nobody to read it.
FailFetch(r) ==
    /\ worker[r].at \in {"asking", "reading"}
    /\ Write(r, "over", [MySlot(r) EXCEPT !.done = -1])

-----------------------------------------------------------------------------
HttpNext ==
    \/ \E o \in Owner :
        \/ Get(o) \/ Unload(o) \/ Load(o)
        \/ \E h \in Handle : Poll(o, h) \/ Cancel(o, h)
    \/ \E r \in Request : Respond(r) \/ Complete(r) \/ PublishPage(r) \/ FailFetch(r)

HttpSpec == HttpInit /\ [][HttpNext]_httpVars

-----------------------------------------------------------------------------
(***************************************************************************)
(* Properties.                                                             *)
(***************************************************************************)
\* A worker only ever writes into the slot of its own request, however early
\* the mod lost interest; and what a poll returns is the page of the request
\* that its caller was last given the handle for, also after handles and mods'
\* addresses have been used again.
AnswersAreOwn ==
    /\ \A r \in Request :
        worker[r].at \in {"asking", "reading", "publishing"} => MySlot(r).request = r
    /\ \A i \in HttpSlot :
        LET s == slots[i]
        IN InUse(i, slots) =>
            /\ s.page \in {Nothing, s.request}
            /\ s.done = 1 => s.page = s.request
            /\ ~s.cancelled => s.owner \in enabled /\ given[s.owner][s.handle] = s.request
            /\ Found(slots, s.owner, s.handle) = {i}
=============================================================================
