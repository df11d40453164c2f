-------------------------------- MODULE SseHub --------------------------------
(***************************************************************************)
(* The event stream of the runtime: Hub of internal/sse/sse.go and its     *)
(* ticker in cmd/fermenter/main.go.                                        *)
(*                                                                         *)
(* Broadcast holds the mutex while it offers one message to each client's  *)
(* channel.  A handler takes the mutex to enter its channel and to remove  *)
(* and close it; in between it receives and writes without the mutex.      *)
(* What a handler does under the mutex is one step; what Broadcast does    *)
(* under it is one step per client, because the handlers receive meanwhile. *)
(*                                                                         *)
(* A message is the number of its broadcast.                               *)
(***************************************************************************)
EXTENDS Integers, Sequences

CONSTANTS
    Clients,     \* the browsers; each has one connection at a time
    Readers,     \* the browsers that read what they are sent
    Capacity,    \* capacity of a channel: 8 in the code
    MaxMessages  \* bound on the broadcasts

ASSUME HubAssumption ==
    /\ Readers \subseteq Clients
    /\ Capacity \in Nat \ {0}
    /\ MaxMessages \in Nat

VARIABLES
    sent,     \* the number of the latest broadcast
    hub,      \* Broadcast: "idle", "locking" or "sending"; it holds the mutex
              \* while it is sending
    todo,     \* the clients it has still to offer its message to
    clients,  \* Hub.clients
    closed,   \* the clients whose channel is closed
    queue,    \* their channels
    handler,  \* where each handler is
    writing,  \* the message each handler has received and not yet written
    gone,     \* the clients whose request context is done
    last      \* the message each client was written last

vars == <<sent, hub, todo, clients, closed, queue, handler, writing, gone, last>>
broadcast == <<sent, hub, todo>>
members   == <<clients, closed>>

Init ==
    /\ sent = 0
    /\ hub = "idle"
    /\ todo = {}
    /\ clients = {}
    /\ closed = Clients
    /\ queue = [c \in Clients |-> <<>>]
    /\ handler = [c \in Clients |-> "off"]
    /\ writing = [c \in Clients |-> 0]
    /\ gone = {}
    /\ last = [c \in Clients |-> 0]

MutexFree == hub # "sending"

-----------------------------------------------------------------------------
(* Broadcast.                                                              *)

\* The ticker marshals the state and calls Broadcast.
Tick ==
    /\ hub = "idle"
    /\ sent < MaxMessages
    /\ sent' = sent + 1
    /\ hub' = "locking"
    /\ UNCHANGED <<todo, members, queue, handler, writing, gone, last>>

Lock ==
    /\ hub = "locking"
    /\ hub' = "sending"
    /\ todo' = clients
    /\ UNCHANGED <<sent, members, queue, handler, writing, gone, last>>

\* A select whose default case makes room by dropping the oldest message, and
\* puts the new one in front.
PutInFront(c) == <<sent>> \o SubSeq(queue[c], 1, Len(queue[c]) - 1)
\* A channel without a limit.
PutAlways(c) == Append(queue[c], sent)
\* A full channel keeps what it holds.
Put(c) == IF Len(queue[c]) < Capacity THEN Append(queue[c], sent) ELSE queue[c]

\* A send without the default case.
SendBlocking(c) ==
    /\ hub = "sending"
    /\ c \in todo
    /\ Len(queue[c]) < Capacity
    /\ todo' = todo \ {c}
    /\ queue' = [queue EXCEPT ![c] = Put(c)]
    /\ UNCHANGED <<sent, hub, members, handler, writing, gone, last>>
Send(c) ==
    /\ hub = "sending"
    /\ c \in todo
    /\ todo' = todo \ {c}
    /\ queue' = [queue EXCEPT ![c] = Put(c)]
    /\ UNCHANGED <<sent, hub, members, handler, writing, gone, last>>

Unlock ==
    /\ hub = "sending" /\ todo = {}
    /\ hub' = "idle"
    /\ UNCHANGED <<sent, todo, members, queue, handler, writing, gone, last>>

-----------------------------------------------------------------------------
(* ServeHTTP.                                                              *)

\* A browser connects: its handler makes a channel.  (The answer to a writer that
\* cannot flush touches no state, and the writers of net/http and chi all can.)
Connect(c) ==
    /\ handler[c] = "off"
    /\ handler' = [handler EXCEPT ![c] = "joining"]
    /\ queue' = [queue EXCEPT ![c] = <<>>]
    /\ closed' = closed \ {c}
    /\ gone' = gone \ {c}
    /\ last' = [last EXCEPT ![c] = 0]
    /\ UNCHANGED <<broadcast, clients, writing>>

Join(c) ==
    /\ handler[c] = "joining"
    /\ MutexFree
    /\ handler' = [handler EXCEPT ![c] = "serving"]
    /\ clients' = clients \cup {c}
    /\ UNCHANGED <<broadcast, closed, queue, writing, gone, last>>

\* The select picks either of the two when both are ready.
Receive(c) ==
    /\ handler[c] = "serving"
    /\ queue[c] # <<>>
    /\ handler' = [handler EXCEPT ![c] = "writing"]
    /\ writing' = [writing EXCEPT ![c] = Head(queue[c])]
    /\ queue' = [queue EXCEPT ![c] = Tail(@)]
    /\ UNCHANGED <<broadcast, members, gone, last>>

\* A loop that looks at the context only when a write is under way.
NoticeGoneLate(c) ==
    /\ handler[c] = "writing"
    /\ c \in gone
    /\ handler' = [handler EXCEPT ![c] = "leaving"]
    /\ UNCHANGED <<broadcast, members, queue, writing, gone, last>>
NoticeGone(c) ==
    /\ handler[c] = "serving"
    /\ c \in gone
    /\ handler' = [handler EXCEPT ![c] = "leaving"]
    /\ UNCHANGED <<broadcast, members, queue, writing, gone, last>>

\* A write that is not flushed.
WriteUnflushed(c) ==
    /\ handler[c] = "writing"
    /\ handler' = [handler EXCEPT ![c] = "serving"]
    /\ writing' = [writing EXCEPT ![c] = 0]
    /\ UNCHANGED <<broadcast, members, queue, gone, last>>
Write(c) ==
    /\ handler[c] = "writing"
    /\ handler' = [handler EXCEPT ![c] = "serving"]
    /\ last' = [last EXCEPT ![c] = writing[c]]
    /\ writing' = [writing EXCEPT ![c] = 0]
    /\ UNCHANGED <<broadcast, members, queue, gone>>

WriteFails(c) ==
    /\ handler[c] = "writing"
    /\ c \in gone
    /\ handler' = [handler EXCEPT ![c] = "leaving"]
    /\ UNCHANGED <<broadcast, members, queue, writing, gone, last>>

\* A handler that closes its channel without the mutex.
LeaveUnlocked(c) ==
    /\ handler[c] = "leaving"
    /\ handler' = [handler EXCEPT ![c] = "off"]
    /\ clients' = clients \ {c}
    /\ closed' = closed \cup {c}
    /\ writing' = [writing EXCEPT ![c] = 0]
    /\ UNCHANGED <<broadcast, queue, gone, last>>
\* The deferred function.
Leave(c) ==
    /\ handler[c] = "leaving"
    /\ MutexFree
    /\ handler' = [handler EXCEPT ![c] = "off"]
    /\ clients' = clients \ {c}
    /\ closed' = closed \cup {c}
    /\ writing' = [writing EXCEPT ![c] = 0]
    /\ UNCHANGED <<broadcast, queue, gone, last>>

\* The browser goes away, at any time.
Disconnect(c) ==
    /\ handler[c] # "off"
    /\ c \notin gone
    /\ gone' = gone \cup {c}
    /\ UNCHANGED <<broadcast, members, queue, handler, writing, last>>

-----------------------------------------------------------------------------
Broadcast == Lock \/ (\E c \in Clients : Send(c)) \/ Unlock

ServeHTTP(c) ==
    Join(c) \/ Receive(c) \/ NoticeGone(c) \/ Write(c) \/ WriteFails(c) \/ Leave(c)

Next ==
    \/ Tick
    \/ Broadcast
    \/ \E c \in Clients : Connect(c) \/ ServeHTTP(c) \/ Disconnect(c)

Spec == Init /\ [][Next]_vars

\* Go's mutex is granted to each that waits for it.  A write returns if the
\* browser reads; once the connection is gone it fails.  A browser that stays
\* and does not read keeps its handler writing for ever.
Fairness ==
    /\ WF_vars(Broadcast)
    /\ \A c \in Clients :
         /\ SF_vars(Join(c))
         /\ SF_vars(Leave(c))
         /\ WF_vars(Receive(c) \/ NoticeGone(c))
         /\ SF_vars(NoticeGone(c))
         /\ WF_vars(WriteFails(c))
    /\ \A c \in Readers : WF_vars(Write(c))

FairSpec == Spec /\ Fairness

-----------------------------------------------------------------------------
(* Properties that hold.                                                   *)

Handlers == {"off", "joining", "serving", "writing", "leaving"}

\* The type invariant.  Its part that could fail: a channel never holds more
\* than its capacity.
TypeOK ==
    /\ sent \in 0..MaxMessages
    /\ hub \in {"idle", "locking", "sending"}
    /\ todo \subseteq Clients
    /\ clients \subseteq Clients
    /\ closed \subseteq Clients
    /\ queue \in [Clients -> Seq(1..MaxMessages)]
    /\ \A c \in Clients : Len(queue[c]) <= Capacity
    /\ handler \in [Clients -> Handlers]
    /\ writing \in [Clients -> 0..MaxMessages]
    /\ gone \subseteq Clients
    /\ last \in [Clients -> 0..MaxMessages]

\* A send on a closed channel would end the process (sse.go:24): Broadcast never
\* meets one, whenever browsers come and go.
NoSendOnClosed == todo \cap closed = {}

\* Broadcast ends even if a browser never reads, so that one browser cannot
\* hold up the ticker and every other browser.
BroadcastEnds == hub # "idle" ~> hub = "idle"

\* A browser that reads gets every message that found room in its channel, or
\* a later one, unless it goes away; others may be stuck.
ReaderGetsNews ==
    \A c \in Readers, n \in 1..MaxMessages :
      (c \in clients /\ queue[c] # <<>> /\ Head(queue[c]) = n)
        ~> last[c] >= n \/ c \in gone

\* The handler of a browser that has gone ends, also when it is waiting for
\* the mutex or stuck in a write, so channels do not pile up.
GoneIsRemoved == \A c \in Clients : c \in gone ~> handler[c] = "off"

\* The stream implements LossyBroadcast: what waits for a client is its channel
\* and the message its handler is writing.
Waiting(c) ==
    IF c \notin clients THEN <<>>
    ELSE IF writing[c] = 0 THEN queue[c]
    ELSE <<writing[c]>> \o queue[c]

Lossy == INSTANCE LossyBroadcast WITH
    Limit      <- Capacity + 1,
    published  <- sent,
    subscribed <- clients,
    box        <- [c \in Clients |-> Waiting(c)],
    taken      <- [c \in Clients |-> IF c \in clients THEN last[c] ELSE 0]

Refines == Lossy!LossySpec
=============================================================================
