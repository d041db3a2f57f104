------------------------------ MODULE Channels ------------------------------
(***************************************************************************)
(* What native services may assume of named channels: every name stands    *)
(* for one FIFO of its own, whoever opens it and however often.  A send    *)
(* that finds the FIFO full and a receive that finds it empty do nothing;  *)
(* a receive into a short buffer takes the whole message and returns its   *)
(* first bytes.                                                            *)
(***************************************************************************)
EXTENDS Integers, Sequences

CONSTANTS
    Names,      \* channel names
    Values,     \* message contents
    MaxLen,     \* MSG_MAX_PAYLOAD
    Depth       \* MSG_QUEUE_DEPTH

VARIABLES
    fifo,       \* the names opened so far, each with its messages
    out         \* what the last receive returned

Lengths == 1..MaxLen
Message == [val : Values, len : Lengths]

MessageOf(val, len) == [val |-> val, len |-> len]

(* What a buffer of size max receives of message m *)
Cut(m, max) == MessageOf(m.val, IF m.len < max THEN m.len ELSE max)

Open(n) ==
    /\ n \notin DOMAIN fifo
    /\ fifo' = [k \in DOMAIN fifo \cup {n} |-> IF k = n THEN <<>> ELSE fifo[k]]
    /\ UNCHANGED out

Put(n, m) ==
    /\ Len(fifo[n]) < Depth
    /\ fifo' = [fifo EXCEPT ![n] = Append(fifo[n], m)]
    /\ UNCHANGED out

Take(n, max) ==
    /\ fifo[n] # <<>>
    /\ fifo' = [fifo EXCEPT ![n] = Tail(fifo[n])]
    /\ out' = Cut(Head(fifo[n]), max)

ChannelsInit ==
    /\ fifo = [n \in {} |-> <<>>]
    /\ out = <<>>

ChannelsNext ==
    \/ \E n \in Names : Open(n)
    \/ \E n \in DOMAIN fifo :
        \/ \E m \in Message : Put(n, m)
        \/ \E max \in Lengths : Take(n, max)

ChannelsSpec == ChannelsInit /\ [][ChannelsNext]_<<fifo, out>>
=============================================================================
