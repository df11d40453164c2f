----------------------------- MODULE SseHubProofs -----------------------------
(***************************************************************************)
(* For every set of browsers, every capacity and any number of broadcasts: *)
(* the stream is well typed, Broadcast never sends on a closed channel,    *)
(* and the stream implements LossyBroadcast.                               *)
(***************************************************************************)
EXTENDS SseHub, SequenceTheorems, TLAPS

\* A client is a member from its entry to its removal, and its channel is closed
\* exactly while it has no handler.  Broadcast has only members left to send to,
\* because nobody leaves while it holds the mutex.
Members ==
    /\ clients = {c \in Clients : handler[c] \in {"serving", "writing", "leaving"}}
    /\ closed = {c \in Clients : handler[c] = "off"}
    /\ todo \subseteq clients
    /\ hub # "sending" => todo = {}

\* What a handler has received and not written it is about to write, or was when
\* its browser went away.
Written ==
    \A c \in Clients :
      /\ handler[c] = "writing" => writing[c] # 0
      /\ handler[c] \in {"off", "joining", "serving"} => writing[c] = 0
      /\ handler[c] = "joining" => queue[c] = <<>> /\ last[c] = 0

\* All that client c has is older than n.
Before(c, n) ==
    /\ last[c] < n
    /\ writing[c] < n
    /\ \A i \in 1..Len(queue[c]) : queue[c][i] < n

\* Nothing is newer than the latest message, and who is still to be offered it
\* has only older ones.
Ordered ==
    /\ hub # "idle" => sent > 0
    /\ \A c \in Clients :
         /\ Before(c, sent + 1)
         /\ hub = "locking" \/ c \in todo => Before(c, sent)

Inv == TypeOK /\ Members /\ Written /\ Ordered

\* The initial state satisfies the invariant.
LEMMA InitInv == Init => Inv
<1> SUFFICES ASSUME Init PROVE Inv
    OBVIOUS
<1> USE HubAssumption DEF Init
<1>1. TypeOK
  BY DEF TypeOK, Handlers
<1>2. Members
  BY DEF Members
<1>3. Written
  BY DEF Written
<1>4. Ordered
  BY DEF Ordered, Before
<1> QED
  BY <1>1, <1>2, <1>3, <1>4 DEF Inv

\* What Broadcast leaves in a channel: what was there, in its order, and perhaps
\* the new message behind it.
LEMMA PutType ==
    ASSUME TypeOK, NEW c \in Clients, sent > 0
    PROVE  /\ Put(c) \in Seq(1..MaxMessages)
           /\ Len(Put(c)) <= Capacity
           /\ \A i \in 1..Len(Put(c)) :
                Put(c)[i] = sent \/ (i <= Len(queue[c]) /\ Put(c)[i] = queue[c][i])
<1> USE HubAssumption DEF TypeOK
<1>1. /\ queue[c] \in Seq(1..MaxMessages) /\ Len(queue[c]) \in Nat
      /\ sent \in 1..MaxMessages
      /\ Len(queue[c]) <= Capacity
  BY LenProperties
<1>2. CASE Len(queue[c]) < Capacity
  <2>1. Put(c) = Append(queue[c], sent)
    BY <1>2 DEF Put
  <2> QED
    BY <1>1, <1>2, <2>1, AppendProperties
<1>3. CASE ~(Len(queue[c]) < Capacity)
  BY <1>1, <1>3 DEF Put
<1> QED
  BY <1>2, <1>3

\* What a handler leaves in its channel when it receives.
LEMMA ReceiveType ==
    ASSUME TypeOK, NEW c \in Clients, queue[c] # <<>>
    PROVE  /\ Head(queue[c]) \in 1..MaxMessages
           /\ Head(queue[c]) = queue[c][1]
           /\ 1 \in 1..Len(queue[c])
           /\ Tail(queue[c]) \in Seq(1..MaxMessages)
           /\ Len(Tail(queue[c])) = Len(queue[c]) - 1
           /\ \A i \in 1..Len(Tail(queue[c])) :
                i + 1 \in 1..Len(queue[c]) /\ Tail(queue[c])[i] = queue[c][i + 1]
<1>1. queue[c] \in Seq(1..MaxMessages)
  BY DEF TypeOK
<1>2. Len(queue[c]) \in Nat \ {0}
  BY <1>1, EmptySeq
<1>3. /\ Head(queue[c]) \in 1..MaxMessages
      /\ Tail(queue[c]) \in Seq(1..MaxMessages)
      /\ Len(Tail(queue[c])) = Len(queue[c]) - 1
      /\ \A i \in 1..Len(Tail(queue[c])) : Tail(queue[c])[i] = queue[c][i + 1]
  BY <1>1, HeadTailProperties
<1> QED
  BY <1>1, <1>2, <1>3

\* Every step keeps the types.
LEMMA NextType == Inv /\ [Next]_vars => TypeOK'
<1> SUFFICES ASSUME Inv, [Next]_vars PROVE TypeOK'
    OBVIOUS
<1> USE HubAssumption DEF Inv, TypeOK, Handlers, broadcast, members
<1>1. CASE Tick
  BY <1>1 DEF Tick
<1>2. CASE Lock
  BY <1>2 DEF Lock
<1>3. ASSUME NEW c \in Clients, Send(c) PROVE TypeOK'
  <2>1. Put(c) \in Seq(1..MaxMessages) /\ Len(Put(c)) <= Capacity
    BY <1>3, PutType DEF Send, Ordered
  <2> QED
    BY <1>3, <2>1 DEF Send
<1>4. CASE Unlock
  BY <1>4 DEF Unlock
<1>5. ASSUME NEW c \in Clients, Connect(c) PROVE TypeOK'
  BY <1>5 DEF Connect
<1>6. ASSUME NEW c \in Clients, Join(c) PROVE TypeOK'
  BY <1>6 DEF Join
<1>7. ASSUME NEW c \in Clients, Receive(c) PROVE TypeOK'
  <2>1. /\ Head(queue[c]) \in 1..MaxMessages
        /\ Tail(queue[c]) \in Seq(1..MaxMessages)
        /\ Len(Tail(queue[c])) <= Capacity
    BY <1>7, ReceiveType, LenProperties DEF Receive
  <2> QED
    BY <1>7, <2>1 DEF Receive
<1>8. ASSUME NEW c \in Clients, NoticeGone(c) PROVE TypeOK'
  BY <1>8 DEF NoticeGone
<1>9. ASSUME NEW c \in Clients, Write(c) PROVE TypeOK'
  BY <1>9 DEF Write
<1>10. ASSUME NEW c \in Clients, WriteFails(c) PROVE TypeOK'
  BY <1>10 DEF WriteFails
<1>11. ASSUME NEW c \in Clients, Leave(c) PROVE TypeOK'
  BY <1>11 DEF Leave
<1>12. ASSUME NEW c \in Clients, Disconnect(c) PROVE TypeOK'
  BY <1>12 DEF Disconnect
<1>13. CASE UNCHANGED vars
  BY <1>13 DEF vars
<1> QED
  BY <1>1, <1>2, <1>3, <1>4, <1>5, <1>6, <1>7, <1>8, <1>9, <1>10, <1>11, <1>12, <1>13
  DEF Next, Broadcast, ServeHTTP

\* Every step keeps the members and the channels together.
LEMMA NextMembers == Inv /\ [Next]_vars => Members' /\ Written'
<1> SUFFICES ASSUME Inv, [Next]_vars PROVE Members' /\ Written'
    OBVIOUS
<1> USE DEF Inv, TypeOK, Handlers, Members, Written, broadcast, members
<1>1. CASE Tick
  BY <1>1 DEF Tick
<1>2. CASE Lock
  BY <1>2 DEF Lock
<1>3. ASSUME NEW c \in Clients, Send(c) PROVE Members' /\ Written'
  BY <1>3 DEF Send
<1>4. CASE Unlock
  BY <1>4 DEF Unlock
<1>5. ASSUME NEW c \in Clients, Connect(c) PROVE Members' /\ Written'
  BY <1>5 DEF Connect
<1>6. ASSUME NEW c \in Clients, Join(c) PROVE Members' /\ Written'
  BY <1>6 DEF Join
<1>7. ASSUME NEW c \in Clients, Receive(c) PROVE Members' /\ Written'
  <2>1. Head(queue[c]) # 0
    BY <1>7, ReceiveType DEF Receive
  <2> QED
    BY <1>7, <2>1 DEF Receive
<1>8. ASSUME NEW c \in Clients, NoticeGone(c) PROVE Members' /\ Written'
  BY <1>8 DEF NoticeGone
<1>9. ASSUME NEW c \in Clients, Write(c) PROVE Members' /\ Written'
  BY <1>9 DEF Write
<1>10. ASSUME NEW c \in Clients, WriteFails(c) PROVE Members' /\ Written'
  BY <1>10 DEF WriteFails
<1>11. ASSUME NEW c \in Clients, Leave(c) PROVE Members' /\ Written'
  BY <1>11 DEF Leave, MutexFree
<1>12. ASSUME NEW c \in Clients, Disconnect(c) PROVE Members' /\ Written'
  BY <1>12 DEF Disconnect
<1>13. CASE UNCHANGED vars
  BY <1>13 DEF vars
<1> QED
  BY <1>1, <1>2, <1>3, <1>4, <1>5, <1>6, <1>7, <1>8, <1>9, <1>10, <1>11, <1>12, <1>13
  DEF Next, Broadcast, ServeHTTP

\* The messages of a client are numbers.
LEMMA MessagesType ==
    ASSUME TypeOK, NEW c \in Clients
    PROVE  /\ last[c] \in Int /\ writing[c] \in Int
           /\ \A i \in 1..Len(queue[c]) : queue[c][i] \in Int
<1>1. queue[c] \in Seq(1..MaxMessages)
  BY DEF TypeOK
<1>2. \A i \in 1..Len(queue[c]) : queue[c][i] \in 1..MaxMessages
  BY <1>1, ElementOfSeq
<1> QED
  BY <1>2, HubAssumption DEF TypeOK

\* Every step keeps the messages in order.
LEMMA NextOrdered == Inv /\ [Next]_vars => Ordered'
<1> SUFFICES ASSUME Inv, [Next]_vars PROVE Ordered'
    OBVIOUS
<1> USE HubAssumption DEF broadcast, members
<1>0. sent \in Int /\ TypeOK
  BY DEF Inv, TypeOK
<1>1. CASE Tick
  <2>1. ASSUME NEW c \in Clients PROVE Before(c, sent + 1) /\ Before(c, sent + 2)
    BY <1>0, MessagesType DEF Inv, Ordered, Before
  <2>2. sent' = sent + 1 /\ sent' > 0
    BY <1>1 DEF Tick, Inv, TypeOK
  <2>3. ASSUME NEW c \in Clients PROVE Before(c, sent)' /\ Before(c, sent + 1)'
    BY <1>0, <1>1, <2>1, <2>2 DEF Tick, Before
  <2> QED
    BY <2>2, <2>3 DEF Ordered
<1>2. CASE Lock
  BY <1>2 DEF Lock, Inv, Ordered, Members, Before
<1>3. ASSUME NEW c \in Clients, Send(c) PROVE Ordered'
  <2>1. sent > 0 /\ hub = "sending" /\ queue' = [queue EXCEPT ![c] = Put(c)]
    BY <1>3 DEF Send, Inv, Ordered
  <2>2. ASSUME NEW i \in 1..Len(Put(c)) PROVE Put(c)[i] < sent + 1
    <3>1. /\ Len(Put(c)) \in Nat /\ Len(queue[c]) \in Nat
          /\ Put(c)[i] = sent \/ (i <= Len(queue[c]) /\ Put(c)[i] = queue[c][i])
      BY <1>0, <2>1, PutType, LenProperties DEF TypeOK
    <3>2. \A j \in 1..Len(queue[c]) : queue[c][j] < sent + 1
      BY DEF Inv, Ordered, Before
    <3> QED
      BY <1>0, <3>1, <3>2
  <2>3. ASSUME NEW d \in Clients
        PROVE  /\ Before(d, sent + 1)'
               /\ d \in todo' => Before(d, sent)'
    BY <1>3, <2>1, <2>2, <2>3 DEF Send, Inv, TypeOK, Ordered, Before
  <2> QED
    BY <1>3, <2>1, <2>3 DEF Send, Ordered
<1>4. CASE Unlock
  BY <1>4 DEF Unlock, Inv, Ordered, Before
<1>5. ASSUME NEW c \in Clients, Connect(c) PROVE Ordered'
  <2>1. c \notin todo /\ writing[c] = 0
    BY <1>5 DEF Connect, Inv, Members, Written
  <2>2. ASSUME NEW n \in Int, n > 0 PROVE Before(c, n)'
    BY <1>5, <2>1, <2>2 DEF Connect, Inv, TypeOK, Before
  <2>3. ASSUME NEW d \in Clients \ {c}, NEW n \in Int, Before(d, n) PROVE Before(d, n)'
    BY <1>5, <2>3 DEF Connect, Inv, TypeOK, Before
  <2>4. ASSUME NEW d \in Clients
        PROVE  /\ Before(d, sent + 1)'
               /\ hub' = "locking" \/ d \in todo' => Before(d, sent)'
    BY <1>0, <1>5, <2>1, <2>2, <2>3, <2>4 DEF Connect, Inv, TypeOK, Ordered, Before
  <2> QED
    BY <1>5, <2>4 DEF Connect, Inv, Ordered
<1>6. ASSUME NEW c \in Clients, Join(c) PROVE Ordered'
  BY <1>6 DEF Join, Inv, Ordered, Before
<1>7. ASSUME NEW c \in Clients, Receive(c) PROVE Ordered'
  <2>1. ASSUME NEW d \in Clients, NEW n \in Int, Before(d, n) PROVE Before(d, n)'
    <3>1. CASE d = c
      BY <1>0, <1>7, <2>1, <3>1, ReceiveType DEF Receive, Inv, TypeOK, Before
    <3>2. CASE d # c
      BY <1>7, <2>1, <3>2 DEF Receive, Inv, TypeOK, Before
    <3> QED
      BY <3>1, <3>2
  <2> QED
    BY <1>0, <1>7, <2>1 DEF Receive, Inv, Ordered
<1>8. ASSUME NEW c \in Clients, NoticeGone(c) PROVE Ordered'
  BY <1>8 DEF NoticeGone, Inv, Ordered, Before
<1>9. ASSUME NEW c \in Clients, Write(c) PROVE Ordered'
  <2>1. ASSUME NEW d \in Clients, NEW n \in Int, Before(d, n), n > 0 PROVE Before(d, n)'
    BY <1>9, <2>1 DEF Write, Inv, TypeOK, Before
  <2> QED
    BY <1>0, <1>9, <2>1 DEF Write, Inv, TypeOK, Members, Ordered
<1>10. ASSUME NEW c \in Clients, WriteFails(c) PROVE Ordered'
  BY <1>10 DEF WriteFails, Inv, Ordered, Before
<1>11. ASSUME NEW c \in Clients, Leave(c) PROVE Ordered'
  <2>1. ASSUME NEW d \in Clients, NEW n \in Int, Before(d, n), n > 0 PROVE Before(d, n)'
    BY <1>11, <2>1 DEF Leave, Inv, TypeOK, Before
  <2> QED
    BY <1>0, <1>11, <2>1 DEF Leave, Inv, TypeOK, Members, Ordered
<1>12. ASSUME NEW c \in Clients, Disconnect(c) PROVE Ordered'
  BY <1>12 DEF Disconnect, Inv, Ordered, Before
<1>13. CASE UNCHANGED vars
  BY <1>13 DEF vars, Inv, Ordered, Before
<1> QED
  BY <1>1, <1>2, <1>3, <1>4, <1>5, <1>6, <1>7, <1>8, <1>9, <1>10, <1>11, <1>12, <1>13
  DEF Next, Broadcast, ServeHTTP

\* The invariant is inductive.
LEMMA NextInv == Inv /\ [Next]_vars => Inv'
BY NextType, NextMembers, NextOrdered DEF Inv

\* Who is still to be sent to has a channel that is open.
LEMMA InvNoSendOnClosed == Inv => NoSendOnClosed
BY DEF Inv, Members, NoSendOnClosed

\* In every state the stream is well typed; no channel (sse.go:39) ever holds
\* more than its capacity.
THEOREM TypeCorrect == Spec => []TypeOK
<1>1. Inv => TypeOK
  BY DEF Inv
<1> QED
  BY <1>1, InitInv, NextInv, PTL DEF Spec

\* The send of sse.go:23 never meets a closed channel, for any number of browsers
\* that come and go at any point of a broadcast.
THEOREM NoSendOnClosedCorrect == Spec => []NoSendOnClosed
BY InitInv, NextInv, InvNoSendOnClosed, PTL DEF Spec

-----------------------------------------------------------------------------
(* The stream implements LossyBroadcast.                                   *)

Boxes == [c \in Clients |-> Waiting(c)]
Taken == [c \in Clients |-> IF c \in clients THEN last[c] ELSE 0]

\* The initial state is one of LossyBroadcast.
LEMMA InitRefines == Init => Lossy!LossyInit
BY DEF Init, Lossy!LossyInit, Waiting

\* A message in front of others.
LEMMA InFront ==
    ASSUME NEW S, NEW w \in S, NEW q \in Seq(S)
    PROVE  /\ <<w>> \o q \in Seq(S)
           /\ Len(<<w>> \o q) = Len(q) + 1
           /\ \A i \in 1..(Len(q) + 1) :
                (<<w>> \o q)[i] = IF i = 1 THEN w ELSE q[i - 1]
<1> DEFINE head == <<w>>
<1>1. head \in Seq(S) /\ Len(head) = 1 /\ head[1] = w
  OBVIOUS
<1>2. Len(q) \in Nat
  BY LenProperties
<1> HIDE DEF head
<1>3. /\ head \o q \in Seq(S)
      /\ Len(head \o q) = Len(head) + Len(q)
      /\ \A i \in 1..(Len(head) + Len(q)) :
           (head \o q)[i] = IF i <= Len(head) THEN head[i] ELSE q[i - Len(head)]
  BY <1>1, ConcatProperties, Zenon
<1>4. ASSUME NEW i \in 1..(Len(q) + 1)
      PROVE  (head \o q)[i] = IF i = 1 THEN w ELSE q[i - 1]
  <2>1. i \in 1..(Len(head) + Len(q))
    BY <1>1, <1>2
  <2>2. (head \o q)[i] = IF i <= Len(head) THEN head[i] ELSE q[i - Len(head)]
    BY <1>3, <2>1
  <2> QED
    BY <1>1, <1>2, <2>2
<1> QED
  BY <1>2, <1>3, <1>4 DEF head

\* A message in front and one behind may be put there in either order.
LEMMA FrontAndBack ==
    ASSUME NEW w \in 1..MaxMessages, NEW q \in Seq(1..MaxMessages),
           NEW e \in 1..MaxMessages
    PROVE  <<w>> \o Append(q, e) = Append(<<w>> \o q, e)
<1> DEFINE S == 1..MaxMessages
           head == <<w>>
           end == <<e>>
<1>1. head \in Seq(S) /\ end \in Seq(S) /\ q \in Seq(S)
  OBVIOUS
<1>2. head \o q \in Seq(S)
  BY InFront
<1>3. Append(q, e) = q \o end /\ Append(head \o q, e) = (head \o q) \o end
  BY <1>2, AppendIsConcat
<1> HIDE DEF S, head, end
<1>4. \A s, t, u \in Seq(S) : (s \o t) \o u = s \o (t \o u)
  BY ConcatAssociative, SMTT(30)
<1>5. (head \o q) \o end = head \o (q \o end)
  BY <1>1, <1>4
<1> QED
  BY <1>3, <1>5 DEF head

\* What waits for a client, as the abstract stream sees it.
LEMMA WaitingType ==
    ASSUME Inv, NEW c \in clients
    PROVE  /\ Waiting(c) \in Seq(1..MaxMessages)
           /\ Len(Waiting(c)) <= Len(queue[c]) + 1
           /\ Len(Waiting(c)) \in Nat /\ Len(queue[c]) \in Nat
           /\ \A n \in Int : Before(c, n) =>
                \A i \in 1..Len(Waiting(c)) : Waiting(c)[i] < n
<1>1. /\ c \in Clients
      /\ queue[c] \in Seq(1..MaxMessages) /\ Len(queue[c]) \in Nat
      /\ writing[c] \in 0..MaxMessages
  BY LenProperties DEF Inv, TypeOK
<1>2. CASE writing[c] = 0
  BY <1>1, <1>2 DEF Waiting, Before
<1>3. CASE writing[c] # 0
  <2>1. writing[c] \in 1..MaxMessages /\ Waiting(c) = <<writing[c]>> \o queue[c]
    BY <1>1, <1>3, HubAssumption DEF Waiting
  <2>2. /\ Waiting(c) \in Seq(1..MaxMessages)
        /\ Len(Waiting(c)) = Len(queue[c]) + 1
        /\ \A i \in 1..(Len(queue[c]) + 1) :
             Waiting(c)[i] = IF i = 1 THEN writing[c] ELSE queue[c][i - 1]
    BY <1>1, <2>1, InFront
  <2>3. ASSUME NEW n \in Int, Before(c, n), NEW i \in 1..Len(Waiting(c))
        PROVE  Waiting(c)[i] < n
    <3>1. i \in 1..(Len(queue[c]) + 1)
      BY <2>2
    <3>2. CASE i = 1
      BY <2>2, <2>3, <3>1, <3>2 DEF Before
    <3>3. CASE i # 1
      <4>1. i - 1 \in 1..Len(queue[c])
        BY <1>1, <3>1, <3>3
      <4> QED
        BY <2>2, <2>3, <3>1, <3>3, <4>1 DEF Before
    <3> QED
      BY <3>2, <3>3
  <2> QED
    BY <1>1, <2>2, <2>3
<1> QED
  BY <1>2, <1>3

\* A step that changes nothing a client is to see is a stutter.
LEMMA StutterRefines ==
    ASSUME UNCHANGED <<sent, clients>>, Boxes' = Boxes, Taken' = Taken
    PROVE  UNCHANGED Lossy!lossyVars
BY DEF Lossy!lossyVars, Boxes, Taken

\* The send to a client is an offer if there is room, and nothing if there is not.
LEMMA SendRefines ==
    ASSUME Inv, NEW c \in Clients, Send(c)
    PROVE  Lossy!Offer(c) \/ UNCHANGED Lossy!lossyVars
<1> USE HubAssumption DEF members
<1>1. /\ c \in clients
      /\ Before(c, sent)
      /\ queue[c] \in Seq(1..MaxMessages)
      /\ Len(queue[c]) \in Nat
      /\ writing[c] \in 0..MaxMessages
      /\ sent \in 1..MaxMessages
  BY LenProperties DEF Send, Inv, TypeOK, Members, Ordered
<1>2. UNCHANGED <<sent, clients, last, writing>> /\ Taken' = Taken
  BY DEF Send, Taken
<1>3. CASE ~(Len(queue[c]) < Capacity)
  <2>1. queue' = queue
    BY <1>3 DEF Send, Put, Inv, TypeOK
  <2>2. Boxes' = Boxes
    BY <1>2, <2>1 DEF Boxes, Waiting
  <2> QED
    BY <1>2, <2>2, StutterRefines
<1>4. CASE Len(queue[c]) < Capacity
  <2>1. queue' = [queue EXCEPT ![c] = Append(queue[c], sent)]
    BY <1>4 DEF Send, Put
  <2>2. Waiting(c)' = Append(Waiting(c), sent)
    <3>1. CASE writing[c] = 0
      BY <1>1, <1>2, <2>1, <3>1 DEF Waiting, Inv, TypeOK
    <3>2. CASE writing[c] # 0
      <4>1. writing[c] \in 1..MaxMessages
        BY <1>1, <3>2
      <4>2. /\ Waiting(c) = <<writing[c]>> \o queue[c]
            /\ Waiting(c)' = <<writing[c]>> \o Append(queue[c], sent)
        BY <1>1, <1>2, <2>1, <3>2 DEF Waiting, Inv, TypeOK
      <4>3. <<writing[c]>> \o Append(queue[c], sent)
              = Append(<<writing[c]>> \o queue[c], sent)
        BY <1>1, <4>1, FrontAndBack, Zenon
      <4> QED
        BY <4>2, <4>3
    <3> QED
      BY <3>1, <3>2
  <2>3. Boxes' = [Boxes EXCEPT ![c] = Append(Boxes[c], sent)]
    <3>1. \A d \in Clients \ {c} : Waiting(d)' = Waiting(d)
      BY <1>2, <2>1 DEF Waiting, Inv, TypeOK
    <3> QED
      BY <2>2, <3>1 DEF Boxes
  <2>4. /\ Len(Boxes[c]) < Capacity + 1
        /\ \A i \in 1..Len(Boxes[c]) : Boxes[c][i] < sent
        /\ Taken[c] < sent
    <3>1. Boxes[c] = Waiting(c) /\ Taken[c] = last[c]
      BY <1>1 DEF Boxes, Taken
    <3>2. /\ Len(Waiting(c)) < Capacity + 1
          /\ \A i \in 1..Len(Waiting(c)) : Waiting(c)[i] < sent
      BY <1>1, <1>4, WaitingType
    <3> QED
      BY <1>1, <3>1, <3>2 DEF Before
  <2> QED
    BY <1>1, <1>2, <2>3, <2>4 DEF Lossy!Offer, Boxes, Taken
<1> QED
  BY <1>3, <1>4

\* A handler that receives moves a message from its channel to its own hands.
LEMMA ReceiveRefines ==
    ASSUME Inv, NEW c \in Clients, Receive(c)
    PROVE  UNCHANGED Lossy!lossyVars
<1>1. /\ c \in clients
      /\ writing[c] = 0
      /\ queue[c] \in Seq(1..MaxMessages) /\ queue[c] # <<>>
  BY DEF Receive, Inv, TypeOK, Members, Written
<1>2. UNCHANGED <<sent, clients, last>> /\ Taken' = Taken
  BY DEF Receive, broadcast, members, Taken
<1>3. Waiting(c)' = Waiting(c)
  <2>1. /\ Head(queue[c]) \in 1..MaxMessages
        /\ Head(queue[c]) = queue[c][1]
        /\ Tail(queue[c]) \in Seq(1..MaxMessages)
        /\ Len(Tail(queue[c])) = Len(queue[c]) - 1
        /\ \A i \in 1..Len(Tail(queue[c])) : Tail(queue[c])[i] = queue[c][i + 1]
        /\ Len(queue[c]) \in Nat \ {0}
    BY <1>1, ReceiveType, EmptySeq DEF Inv
  <2>2. /\ Waiting(c) = queue[c]
        /\ Waiting(c)' = <<Head(queue[c])>> \o Tail(queue[c])
    BY <1>1, <1>2, <2>1 DEF Receive, Waiting, Inv, TypeOK
  <2>3. /\ Waiting(c)' \in Seq(1..MaxMessages)
        /\ Len(Waiting(c)') = Len(queue[c])
        /\ \A i \in 1..Len(queue[c]) :
             Waiting(c)'[i] = IF i = 1 THEN Head(queue[c]) ELSE Tail(queue[c])[i - 1]
    BY <2>1, <2>2, InFront
  <2>4. ASSUME NEW i \in 1..Len(queue[c]) PROVE Waiting(c)'[i] = queue[c][i]
    <3>1. CASE i = 1
      BY <2>1, <2>3, <3>1
    <3>2. CASE i # 1
      <4>1. i - 1 \in 1..Len(Tail(queue[c])) /\ (i - 1) + 1 = i
        BY <2>1, <3>2
      <4> QED
        BY <2>1, <2>3, <3>2, <4>1
    <3> QED
      BY <3>1, <3>2
  <2> QED
    BY <1>1, <2>2, <2>3, <2>4, SeqEqual
<1>4. Boxes' = Boxes
  <2>1. \A d \in Clients \ {c} : Waiting(d)' = Waiting(d)
    BY <1>2 DEF Receive, Waiting, Inv, TypeOK
  <2> QED
    BY <1>3, <2>1 DEF Boxes
<1> QED
  BY <1>2, <1>4, StutterRefines

\* A write takes the message that waits first.
LEMMA WriteRefines ==
    ASSUME Inv, NEW c \in Clients, Write(c)
    PROVE  Lossy!Take(c)
<1>1. /\ c \in clients
      /\ writing[c] \in 1..MaxMessages
      /\ queue[c] \in Seq(1..MaxMessages)
  BY HubAssumption DEF Write, Inv, TypeOK, Members, Written
<1>2. UNCHANGED <<sent, clients, queue>>
  BY DEF Write, broadcast, members
<1>3. /\ Waiting(c) = <<writing[c]>> \o queue[c]
      /\ Waiting(c)' = queue[c]
  BY <1>1, <1>2 DEF Write, Waiting, Inv, TypeOK
<1>4. /\ Waiting(c) # <<>>
      /\ Head(Waiting(c)) = writing[c]
      /\ Tail(Waiting(c)) = queue[c]
  <2>1. /\ Waiting(c) \in Seq(1..MaxMessages)
        /\ Len(Waiting(c)) = Len(queue[c]) + 1
        /\ \A i \in 1..(Len(queue[c]) + 1) :
             Waiting(c)[i] = IF i = 1 THEN writing[c] ELSE queue[c][i - 1]
    BY <1>1, <1>3, InFront
  <2>2. Len(queue[c]) \in Nat
    BY <1>1, LenProperties
  <2>3. Waiting(c) # <<>>
    BY <2>1, <2>2
  <2>4. /\ Tail(Waiting(c)) \in Seq(1..MaxMessages)
        /\ Len(Tail(Waiting(c))) = Len(Waiting(c)) - 1
        /\ \A i \in 1..Len(Tail(Waiting(c))) : Tail(Waiting(c))[i] = Waiting(c)[i + 1]
    BY <2>1, <2>3, HeadTailProperties
  <2>5. ASSUME NEW i \in 1..Len(queue[c]) PROVE Tail(Waiting(c))[i] = queue[c][i]
    <3>1. i \in 1..Len(Tail(Waiting(c))) /\ i + 1 \in 1..(Len(queue[c]) + 1)
            /\ i + 1 # 1 /\ (i + 1) - 1 = i
      BY <2>1, <2>2, <2>4
    <3> QED
      BY <2>1, <2>4, <3>1
  <2>6. Len(Tail(Waiting(c))) = Len(queue[c])
    BY <2>1, <2>2, <2>4
  <2>7. Tail(Waiting(c)) = queue[c]
    BY <1>1, <2>4, <2>5, <2>6, SeqEqual
  <2>8. Head(Waiting(c)) = writing[c]
    BY <2>1, <2>2, <2>3
  <2> QED
    BY <2>3, <2>7, <2>8
<1>5. \A d \in Clients \ {c} : Waiting(d)' = Waiting(d)
  BY <1>2 DEF Write, Waiting, Inv, TypeOK
<1>6. /\ Boxes[c] = Waiting(c)
      /\ Boxes' = [Boxes EXCEPT ![c] = Tail(Boxes[c])]
  BY <1>3, <1>4, <1>5 DEF Boxes
<1>7. Taken' = [Taken EXCEPT ![c] = Head(Boxes[c])]
  BY <1>1, <1>2, <1>4, <1>6 DEF Write, Taken, Inv, TypeOK
<1> QED
  BY <1>1, <1>2, <1>4, <1>6, <1>7 DEF Lossy!Take, Boxes, Taken

\* Every step is a step of LossyBroadcast or changes nothing it has.
LEMMA NextRefines == Inv /\ [Next]_vars => [Lossy!LossyNext]_(Lossy!lossyVars)
<1> SUFFICES ASSUME Inv, [Next]_vars
             PROVE  Lossy!LossyNext \/ UNCHANGED Lossy!lossyVars
    OBVIOUS
<1> USE DEF broadcast, members
<1>1. CASE Tick
  <2>1. Boxes' = Boxes /\ Taken' = Taken
    BY <1>1 DEF Tick, Boxes, Taken, Waiting
  <2> QED
    BY <1>1, <2>1 DEF Tick, Lossy!LossyNext, Lossy!Publish, Boxes, Taken
<1>2. CASE Lock \/ Unlock \/ UNCHANGED vars
  BY <1>2, StutterRefines DEF Lock, Unlock, vars, Boxes, Taken, Waiting
<1>3. ASSUME NEW c \in Clients, Send(c)
      PROVE  Lossy!LossyNext \/ UNCHANGED Lossy!lossyVars
  BY <1>3, SendRefines DEF Lossy!LossyNext
<1>4. ASSUME NEW c \in Clients, Connect(c)
      PROVE  UNCHANGED Lossy!lossyVars
  <2>1. c \notin clients
    BY <1>4 DEF Connect, Inv, Members
  <2>2. Boxes' = Boxes /\ Taken' = Taken
    BY <1>4, <2>1 DEF Connect, Boxes, Taken, Waiting, Inv, TypeOK
  <2> QED
    BY <1>4, <2>2, StutterRefines DEF Connect
<1>5. ASSUME NEW c \in Clients, Join(c) PROVE Lossy!Subscribe(c)
  <2>1. c \notin clients /\ queue[c] = <<>> /\ writing[c] = 0 /\ last[c] = 0
    BY <1>5 DEF Join, Inv, Members, Written
  <2>2. Boxes' = Boxes /\ Taken' = Taken
    BY <1>5, <2>1 DEF Join, Boxes, Taken, Waiting
  <2> QED
    BY <1>5, <2>1, <2>2 DEF Join, Lossy!Subscribe, Boxes, Taken
<1>6. ASSUME NEW c \in Clients, Receive(c) PROVE UNCHANGED Lossy!lossyVars
  BY <1>6, ReceiveRefines
<1>7. ASSUME NEW c \in Clients, NoticeGone(c) \/ WriteFails(c) \/ Disconnect(c)
      PROVE  UNCHANGED Lossy!lossyVars
  BY <1>7, StutterRefines DEF NoticeGone, WriteFails, Disconnect, Boxes, Taken, Waiting
<1>8. ASSUME NEW c \in Clients, Write(c) PROVE Lossy!Take(c)
  BY <1>8, WriteRefines
<1>9. ASSUME NEW c \in Clients, Leave(c) PROVE Lossy!Unsubscribe(c)
  <2>1. c \in clients /\ clients' = clients \ {c} /\ UNCHANGED <<sent, queue, last>>
    BY <1>9 DEF Leave, Inv, Members
  <2>2. /\ Boxes' = [Boxes EXCEPT ![c] = <<>>]
        /\ Taken' = [Taken EXCEPT ![c] = 0]
    BY <1>9, <2>1 DEF Leave, Boxes, Taken, Waiting, Inv, TypeOK
  <2> QED
    BY <2>1, <2>2 DEF Lossy!Unsubscribe, Boxes, Taken
<1> QED
  BY <1>1, <1>2, <1>3, <1>4, <1>5, <1>6, <1>7, <1>8, <1>9
  DEF Next, Broadcast, ServeHTTP, Lossy!LossyNext

\* The stream of the code implements LossyBroadcast, for any number of browsers,
\* any capacity and any number of messages: what a browser is written is, in its
\* order and without repetition, what was published while it was subscribed, less
\* what found its channel full.
THEOREM RefinesCorrect == Spec => Refines
<1>1. Inv /\ [Next]_vars => [Lossy!LossyNext]_(Lossy!lossyVars)
  BY NextRefines
<1> QED
  BY <1>1, InitInv, NextInv, InitRefines, PTL DEF Spec, Refines, Lossy!LossySpec
=============================================================================
