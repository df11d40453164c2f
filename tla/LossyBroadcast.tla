---------------------------- MODULE LossyBroadcast ----------------------------
(***************************************************************************)
(* What the event stream of the runtime promises a browser: of the states  *)
(* published while it is subscribed it gets some, each at most once and    *)
(* in the order of their publication; a bounded number of them wait for    *)
(* it; and what it does or does not do never holds up a publication.       *)
(***************************************************************************)
EXTENDS Integers, Sequences

CONSTANTS
    Clients,
    Limit     \* how many states may wait for one client

VARIABLES
    published,  \* the number of the state published last
    subscribed,
    box,        \* the states that wait for each client
    taken       \* the state each client got last, 0 for none

lossyVars == <<published, subscribed, box, taken>>

LossyInit ==
    /\ published = 0
    /\ subscribed = {}
    /\ box = [c \in Clients |-> <<>>]
    /\ taken = [c \in Clients |-> 0]

Publish ==
    /\ published' = published + 1
    /\ UNCHANGED <<subscribed, box, taken>>

\* The latest state, if client c has not been offered it.
Offer(c) ==
    /\ c \in subscribed
    /\ Len(box[c]) < Limit
    /\ taken[c] < published
    /\ \A i \in 1..Len(box[c]) : box[c][i] < published
    /\ box' = [box EXCEPT ![c] = Append(@, published)]
    /\ UNCHANGED <<published, subscribed, taken>>

Take(c) ==
    /\ c \in subscribed
    /\ box[c] # <<>>
    /\ taken' = [taken EXCEPT ![c] = Head(box[c])]
    /\ box' = [box EXCEPT ![c] = Tail(@)]
    /\ UNCHANGED <<published, subscribed>>

Subscribe(c) ==
    /\ c \notin subscribed
    /\ subscribed' = subscribed \cup {c}
    /\ UNCHANGED <<published, box, taken>>

Unsubscribe(c) ==
    /\ c \in subscribed
    /\ subscribed' = subscribed \ {c}
    /\ box' = [box EXCEPT ![c] = <<>>]
    /\ taken' = [taken EXCEPT ![c] = 0]
    /\ UNCHANGED published

LossyNext ==
    \/ Publish
    \/ \E c \in Clients : Offer(c) \/ Take(c) \/ Subscribe(c) \/ Unsubscribe(c)

LossySpec == LossyInit /\ [][LossyNext]_lossyVars
=============================================================================
