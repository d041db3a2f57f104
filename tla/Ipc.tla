--------------------------------- MODULE Ipc ---------------------------------
(***************************************************************************)
(* kernel/ipc/channel.c and kernel/ipc/message.c: named channels, the      *)
(* channel table and the ring-buffer queues found by channel id.  Each     *)
(* action is one syscall that changes state; a syscall that returns an     *)
(* error before it changed anything is not a step.                         *)
(*                                                                         *)
(* named_channels is a map from names, with at most NamedMax in use.       *)
(* channel_close() and ipc_destroy_queue() have no caller but the error    *)
(* path of channel_open_named().                                           *)
(***************************************************************************)
EXTENDS Integers, Sequences, FiniteSets

CONSTANTS
    Names,          \* channel names
    Values,         \* message contents
    MaxLen,         \* MSG_MAX_PAYLOAD
    Depth,          \* MSG_QUEUE_DEPTH
    QueueMax,       \* MAX_MSG_QUEUES
    ChannelMax,     \* MAX_CHANNELS
    NamedMax        \* MAX_NAMED_CHANNELS

ASSUME IpcAssumption ==
    /\ MaxLen \in Nat \ {0}
    /\ Depth \in Nat \ {0}
    /\ QueueMax \in Nat
    /\ ChannelMax \in Nat \ {0}
    /\ NamedMax \in Nat

VARIABLES
    named,              \* the channel id of each name; 0 if unused
    open,               \* channel_table[id].open
    next_channel_id,
    active,             \* queues[i].active and the other fields of queues[i]
    channel_id,
    head,
    tail,
    count,
    msgs,
    out                 \* what the last receive copied to its caller

channelVars == <<named, open, next_channel_id>>
vars == <<channelVars, active, channel_id, head, tail, count, msgs, out>>

Queues == 1..QueueMax
Ids == 1..(ChannelMax - 1)
Cells == 0..(Depth - 1)

(* The promise: fifo is the contents of the ring of the name's queue. *)
Opened == {n \in Names : named[n] # 0}
QueueOf(n) == CHOOSE i \in Queues : active[i] /\ channel_id[i] = named[n]

Wrap(x) == IF x < Depth THEN x ELSE x - Depth

Ring(ms, h, c) == [k \in 1..c |-> ms[Wrap(h + k - 1)]]

Fifo == [n \in Opened |-> LET i == QueueOf(n) IN Ring(msgs[i], head[i], count[i])]

C == INSTANCE Channels WITH fifo <- Fifo

-----------------------------------------------------------------------------
(* channel_init() and ipc_init(); static storage is zero. *)
Init ==
    /\ named = [n \in Names |-> 0]
    /\ open = [c \in Ids |-> FALSE]
    /\ next_channel_id = 1
    /\ active = [i \in Queues |-> FALSE]
    /\ channel_id = [i \in Queues |-> 0]
    /\ head = [i \in Queues |-> 0]
    /\ tail = [i \in Queues |-> 0]
    /\ count = [i \in Queues |-> 0]
    /\ \E v \in Values : msgs = [i \in Queues |-> [k \in Cells |-> C!MessageOf(v, 1)]]
    /\ out = <<>>

(* A new name, a free place for it and a free channel id *)
MayOpen(n) ==
    /\ named[n] = 0
    /\ Cardinality(Opened) < NamedMax
    /\ next_channel_id \in Ids

(* channel_open_named() with queue i, the first that is not active *)
OpenNamed(n, i) ==
    /\ MayOpen(n)
    /\ ~active[i] /\ \A j \in Queues : j < i => active[j]
    /\ named' = [named EXCEPT ![n] = next_channel_id]
    /\ open' = [open EXCEPT ![next_channel_id] = TRUE]
    /\ next_channel_id' = next_channel_id + 1
    /\ active' = [active EXCEPT ![i] = TRUE]
    /\ channel_id' = [channel_id EXCEPT ![i] = next_channel_id]
    /\ head' = [head EXCEPT ![i] = 0]
    /\ tail' = [tail EXCEPT ![i] = 0]
    /\ count' = [count EXCEPT ![i] = 0]
    /\ UNCHANGED <<msgs, out>>

(* Mutant: the name is published before the queue is known to exist. *)
OpenNamedNoQueue_Publishes(n) ==
    /\ MayOpen(n)
    /\ \A j \in Queues : active[j]
    /\ named' = [named EXCEPT ![n] = next_channel_id]
    /\ open' = [open EXCEPT ![next_channel_id] = FALSE]
    /\ next_channel_id' = next_channel_id + 1
    /\ UNCHANGED <<active, channel_id, head, tail, count, msgs, out>>

(* No queue is left: the channel is closed again, its id is not reused. *)
OpenNamedNoQueue(n) ==
    /\ MayOpen(n)
    /\ \A j \in Queues : active[j]
    /\ open' = [open EXCEPT ![next_channel_id] = FALSE]
    /\ next_channel_id' = next_channel_id + 1
    /\ UNCHANGED <<named, active, channel_id, head, tail, count, msgs, out>>

(* The queue ipc_send() and ipc_recv() find for an open channel *)
Finds(i, c) ==
    /\ open[c]
    /\ active[i] /\ channel_id[i] = c
    /\ \A j \in Queues : j < i => ~(active[j] /\ channel_id[j] = c)

(* sys_send_msg() *)
Send(i, c, m) ==
    /\ Finds(i, c)
    /\ count[i] < Depth
    /\ msgs' = [msgs EXCEPT ![i] = [msgs[i] EXCEPT ![tail[i]] = m]]
    /\ tail' = [tail EXCEPT ![i] = (tail[i] + 1) % Depth]
    /\ count' = [count EXCEPT ![i] = count[i] + 1]
    /\ UNCHANGED <<channelVars, active, channel_id, head, out>>

(* Mutant: the message is read after head was moved. *)
Recv_AfterMove(i, c, max) ==
    /\ Finds(i, c)
    /\ count[i] # 0
    /\ head' = [head EXCEPT ![i] = (head[i] + 1) % Depth]
    /\ out' = C!Cut(msgs[i][head'[i]], max)
    /\ count' = [count EXCEPT ![i] = count[i] - 1]
    /\ UNCHANGED <<channelVars, active, channel_id, tail, msgs>>

(* sys_recv_msg() into a buffer of max bytes *)
Recv(i, c, max) ==
    /\ Finds(i, c)
    /\ count[i] # 0
    /\ out' = C!Cut(msgs[i][head[i]], max)
    /\ head' = [head EXCEPT ![i] = (head[i] + 1) % Depth]
    /\ count' = [count EXCEPT ![i] = count[i] - 1]
    /\ UNCHANGED <<channelVars, active, channel_id, tail, msgs>>

Next ==
    \/ \E n \in Names : OpenNamedNoQueue(n) \/ \E i \in Queues : OpenNamed(n, i)
    \/ \E i \in Queues, c \in Ids :
        \/ \E m \in C!Message : Send(i, c, m)
        \/ \E max \in C!Lengths : Recv(i, c, max)

Spec == Init /\ [][Next]_vars

-----------------------------------------------------------------------------
(* Every variable holds a value of its C type. *)
TypeOK ==
    /\ named \in [Names -> 0..(ChannelMax - 1)]
    /\ open \in [Ids -> BOOLEAN]
    /\ next_channel_id \in 1..ChannelMax
    /\ active \in [Queues -> BOOLEAN]
    /\ channel_id \in [Queues -> 0..(ChannelMax - 1)]
    /\ head \in [Queues -> Cells]
    /\ tail \in [Queues -> Cells]
    /\ count \in [Queues -> 0..Depth]
    /\ msgs \in [Queues -> [Cells -> C!Message]]
    /\ out \in C!Message \cup {<<>>}

(* The tables agree: an id belongs to one name, is below the next one, and  *)
(* has exactly one active queue; a queue is active for no other reason; and *)
(* each ring's tail is where its head and count say.                        *)
TablesAgree ==
    /\ \A n, k \in Opened : named[n] = named[k] => n = k
    /\ \A n \in Opened : named[n] < next_channel_id /\ open[named[n]]
    /\ \A n \in Opened : \E i \in Queues : active[i] /\ channel_id[i] = named[n]
    /\ \A i \in Queues : active[i] =>
        /\ \E n \in Opened : channel_id[i] = named[n]
        /\ \A j \in Queues : active[j] /\ channel_id[j] = channel_id[i] => j = i
        /\ tail[i] = Wrap(head[i] + count[i])

(* Through failed opens, wrap-around, and full and empty rings, every name  *)
(* is one FIFO: no message is lost, duplicated, reordered, or delivered on  *)
(* another name's channel, and a short receive returns a prefix.            *)
ImplementsChannels == C!ChannelsSpec
=============================================================================
