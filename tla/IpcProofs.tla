------------------------------ MODULE IpcProofs ------------------------------
(***************************************************************************)
(* Proofs about Ipc, for every set of names and messages and every size of *)
(* the tables and rings: the tables agree, and every name is one FIFO.     *)
(***************************************************************************)
EXTENDS Ipc, SequenceTheorems, TLAPS

Inv == TypeOK /\ TablesAgree

USE IpcAssumption

-----------------------------------------------------------------------------
(* The increment of head and tail stays in the ring. *)
LEMMA ModIsWrap ==
    ASSUME NEW x \in Cells
    PROVE  (x + 1) % Depth = Wrap(x + 1) /\ Wrap(x + 1) \in Cells
  <1>1. CASE x + 1 < Depth
    BY <1>1 DEF Cells, Wrap
  <1>2. CASE x + 1 = Depth
    BY <1>2 DEF Cells, Wrap
  <1> QED  BY <1>1, <1>2 DEF Cells

(* The ring of an active queue holds count messages. *)
LEMMA RingLen ==
    ASSUME NEW ms \in [Cells -> C!Message], NEW h \in Cells, NEW c \in 0..Depth
    PROVE  Ring(ms, h, c) \in Seq(C!Message) /\ Len(Ring(ms, h, c)) = c
  <1>1. \A k \in 1..c : ms[Wrap(h + k - 1)] \in C!Message
    BY DEF Wrap, Cells
  <1> QED  BY <1>1 DEF Ring

(* Writing the cell at the tail of a ring that is not full appends. *)
Appends(ms, h, c, m) ==
    Ring([ms EXCEPT ![Wrap(h + c)] = m], h, c + 1) = Append(Ring(ms, h, c), m)

LEMMA RingPut ==
    ASSUME NEW ms \in [Cells -> C!Message], NEW h \in Cells, NEW c \in Nat, c < Depth,
           NEW m \in C!Message
    PROVE  /\ Appends(ms, h, c, m)
           /\ Wrap(h + c) \in Cells
           /\ (Wrap(h + c) + 1) % Depth = Wrap(h + c + 1)
  <1> DEFINE new == [ms EXCEPT ![Wrap(h + c)] = m]
  <1>1. Wrap(h + c) \in Cells
    BY DEF Wrap, Cells
  <1>2. \A k \in 1..c : Wrap(h + k - 1) \in Cells /\ Wrap(h + k - 1) # Wrap(h + c)
    BY DEF Wrap, Cells
  <1>3. \A k \in 1..c : new[Wrap(h + k - 1)] = ms[Wrap(h + k - 1)]
    BY <1>2
  <1>4. new[Wrap(h + (c + 1) - 1)] = m
    <2>1. h + (c + 1) - 1 = h + c
      BY DEF Cells
    <2> QED  BY <1>1, <2>1
  <1> DEFINE r == Ring(ms, h, c)
             long == Ring(new, h, c + 1)
  <1>5. /\ r \in Seq(C!Message) /\ Len(r) = c
        /\ long \in Seq(C!Message) /\ Len(long) = c + 1
    <2>1. new \in [Cells -> C!Message]
      BY <1>1
    <2>2. c \in 0..Depth /\ c + 1 \in 0..Depth
      OBVIOUS
    <2> HIDE DEF new
    <2> QED  BY <2>1, <2>2, RingLen
  <1>6. /\ \A k \in 1..c : long[k] = r[k]
        /\ long[c + 1] = m
    BY <1>3, <1>4 DEF Ring
  <1>7. long = Append(r, m)
    <2> HIDE DEF r, long
    <2>1. /\ Append(r, m) \in Seq(C!Message) /\ Len(Append(r, m)) = c + 1
          /\ \A k \in 1..c : Append(r, m)[k] = r[k]
          /\ Append(r, m)[c + 1] = m
      BY <1>5, AppendProperties
    <2>2. \A k \in 1..(c + 1) : long[k] = Append(r, m)[k]
      BY <1>6, <2>1
    <2> QED  BY <1>5, <2>1, <2>2, SeqEqual
  <1>8. (Wrap(h + c) + 1) % Depth = Wrap(h + c + 1)
    <2>1. (Wrap(h + c) + 1) % Depth = Wrap(Wrap(h + c) + 1)
      BY <1>1, ModIsWrap
    <2>2. Wrap(Wrap(h + c) + 1) = Wrap(h + c + 1)
      BY DEF Wrap, Cells
    <2> QED  BY <2>1, <2>2
  <1> QED  BY <1>1, <1>7, <1>8 DEF Appends

(* Moving the head of a ring that is not empty takes the first message. *)
LEMMA RingTake ==
    ASSUME NEW ms \in [Cells -> C!Message], NEW h \in Cells, NEW c \in Nat \ {0}, c <= Depth
    PROVE  /\ Ring(ms, h, c) # <<>>
           /\ Head(Ring(ms, h, c)) = ms[h]
           /\ Ring(ms, (h + 1) % Depth, c - 1) = Tail(Ring(ms, h, c))
           /\ Wrap(((h + 1) % Depth) + (c - 1)) = Wrap(h + c)
  <1>1. \A k \in 1..c : Wrap(h + k - 1) \in Cells
    BY DEF Wrap, Cells
  <1>2. Ring(ms, h, c) \in Seq(C!Message) /\ Len(Ring(ms, h, c)) = c
    <2>1. \A k \in 1..c : ms[Wrap(h + k - 1)] \in C!Message
      BY <1>1
    <2> QED  BY <2>1 DEF Ring
  <1>3. Wrap(h + 1 - 1) = h
    BY DEF Wrap, Cells
  <1>4. Ring(ms, h, c)[1] = ms[h]
    BY <1>3 DEF Ring
  <1>5. \A k \in 1..(c - 1) : Wrap(Wrap(h + 1) + k - 1) = Wrap(h + (k + 1) - 1)
    BY DEF Wrap, Cells
  <1> DEFINE r == Ring(ms, h, c)
             short == Ring(ms, Wrap(h + 1), c - 1)
  <1>6. /\ \A k \in 1..(c - 1) : short[k] = r[k + 1]
        /\ short \in Seq(C!Message) /\ Len(short) = c - 1
    <2>1. Wrap(h + 1) \in Cells /\ c - 1 \in 0..Depth
      BY ModIsWrap
    <2>2. \A k \in 1..(c - 1) : short[k] = r[k + 1]
      BY <1>5 DEF Ring
    <2> QED  BY <2>1, <2>2, RingLen
  <1>7. short = Tail(r)
    <2> HIDE DEF r, short
    <2>1. /\ Tail(r) \in Seq(C!Message) /\ Len(Tail(r)) = c - 1
          /\ \A k \in 1..(c - 1) : Tail(r)[k] = r[k + 1]
      BY <1>2, HeadTailProperties DEF r
    <2> QED  BY <1>6, <2>1, SeqEqual
  <1>8. Wrap(Wrap(h + 1) + (c - 1)) = Wrap(h + c)
    BY DEF Wrap, Cells
  <1> QED  BY <1>2, <1>4, <1>7, <1>8, ModIsWrap

-----------------------------------------------------------------------------
LEMMA InitInv == Init => Inv
  <1> SUFFICES ASSUME Init  PROVE Inv
    OBVIOUS
  <1>1. PICK v \in Values : msgs = [i \in Queues |-> [k \in Cells |-> C!MessageOf(v, 1)]]
    BY DEF Init
  <1>2. msgs \in [Queues -> [Cells -> C!Message]]
    BY <1>1 DEF C!MessageOf, C!Message, C!Lengths
  <1>3. TypeOK
    BY <1>2 DEF Init, TypeOK, Cells, Ids
  <1>4. TablesAgree
    BY DEF Init, TablesAgree, Opened
  <1> QED  BY <1>3, <1>4 DEF Inv

(* channel_open_named() *)
LEMMA OpenInv ==
    ASSUME Inv, NEW n \in Names, NEW i \in Queues, OpenNamed(n, i)
    PROVE  Inv'
  <1> USE DEF Inv
  <1>1. TypeOK'
    BY DEF TypeOK, OpenNamed, MayOpen, Ids, Cells
  <1>2. /\ Opened' = Opened \cup {n} /\ n \notin Opened
        /\ named'[n] = next_channel_id /\ \A k \in Opened : named'[k] = named[k]
        /\ next_channel_id \in Nat \ {0} /\ next_channel_id' = next_channel_id + 1
    BY DEF TypeOK, OpenNamed, MayOpen, Ids, Opened
  <1>3. /\ active'[i] /\ channel_id'[i] = next_channel_id /\ ~active[i]
        /\ head'[i] = 0 /\ tail'[i] = 0 /\ count'[i] = 0
        /\ \A j \in Queues \ {i} :
            /\ active'[j] = active[j] /\ channel_id'[j] = channel_id[j]
            /\ head'[j] = head[j] /\ tail'[j] = tail[j] /\ count'[j] = count[j]
    BY DEF TypeOK, OpenNamed
  <1>4. \A k \in Opened : named[k] \in Nat /\ named[k] < next_channel_id
    BY DEF TablesAgree, TypeOK, Opened
  <1>5. \A k, l \in Opened' : named'[k] = named'[l] => k = l
    BY <1>2, <1>4 DEF TablesAgree
  <1>6. \A k \in Opened' : named'[k] < next_channel_id' /\ open'[named'[k]]
    <2>1. open' = [open EXCEPT ![next_channel_id] = TRUE] /\ next_channel_id \in Ids
      BY DEF OpenNamed, MayOpen
    <2>2. open'[next_channel_id] /\ \A k \in Opened : open'[named[k]]
      BY <1>4, <2>1 DEF TablesAgree, TypeOK
    <2> QED  BY <1>2, <1>4, <2>2
  <1>7. \A k \in Opened' : \E j \in Queues : active'[j] /\ channel_id'[j] = named'[k]
    <2>1. \A k \in Opened : \E j \in Queues \ {i} : active[j] /\ channel_id[j] = named[k]
      BY <1>3 DEF TablesAgree
    <2> QED  BY <1>2, <1>3, <2>1
  <1>8. \A j \in Queues \ {i} : active[j] =>
            /\ \E k \in Opened : channel_id[j] = named[k]
            /\ channel_id[j] # next_channel_id
    BY <1>4 DEF TablesAgree
  <1>9. \A j \in Queues : active'[j] =>
            /\ \E k \in Opened' : channel_id'[j] = named'[k]
            /\ \A l \in Queues : active'[l] /\ channel_id'[l] = channel_id'[j] => l = j
            /\ tail'[j] = Wrap(head'[j] + count'[j])
    <2>1. TAKE j \in Queues
    <2>2. HAVE active'[j]
    <2>3. CASE j = i
      <3>1. 0 = Wrap(0 + 0)
        BY DEF Wrap
      <3> QED  BY <1>2, <1>3, <1>8, <2>3, <3>1
    <2>4. CASE j # i
      <3>1. active[j] /\ channel_id'[j] = channel_id[j]
        BY <1>3, <2>2, <2>4
      <3>2. \E k \in Opened' : channel_id'[j] = named'[k]
        BY <1>2, <1>8, <2>4, <3>1
      <3>3. \A l \in Queues : active'[l] /\ channel_id'[l] = channel_id'[j] => l = j
        BY <1>3, <1>8, <2>4, <3>1 DEF TablesAgree
      <3>4. tail'[j] = Wrap(head'[j] + count'[j])
        BY <1>3, <2>4, <3>1 DEF TablesAgree
      <3> QED  BY <3>2, <3>3, <3>4
    <2> QED  BY <2>3, <2>4
  <1>10. TablesAgree'
    BY <1>5, <1>6, <1>7, <1>9 DEF TablesAgree, Wrap
  <1> QED  BY <1>1, <1>10

(* channel_open_named() without a queue *)
LEMMA OpenNoQueueInv ==
    ASSUME Inv, NEW n \in Names, OpenNamedNoQueue(n)
    PROVE  Inv'
  <1>1. TypeOK'
    BY DEF Inv, TypeOK, OpenNamedNoQueue, MayOpen, Ids
  <1>2. /\ \A k \in Opened : named[k] \in Nat /\ named[k] < next_channel_id
        /\ next_channel_id \in Nat
    BY DEF Inv, TablesAgree, TypeOK, Opened
  <1>3. \A k \in Opened : open'[named[k]] /\ named[k] < next_channel_id'
    BY <1>2 DEF Inv, TablesAgree, TypeOK, OpenNamedNoQueue, MayOpen
  <1>4. TablesAgree'
    BY <1>3 DEF Inv, TablesAgree, OpenNamedNoQueue, Opened
  <1> QED  BY <1>1, <1>4 DEF Inv

(* A queue that is found has its tail where RingPut and RingTake want it. *)
LEMMA FoundQueue ==
    ASSUME Inv, NEW i \in Queues, active[i]
    PROVE  /\ head[i] \in Cells /\ count[i] \in 0..Depth
           /\ msgs[i] \in [Cells -> C!Message]
           /\ tail[i] = Wrap(head[i] + count[i]) /\ tail[i] \in Cells
  BY DEF Inv, TypeOK, TablesAgree

(* ipc_send() *)
LEMMA SendInv ==
    ASSUME Inv, NEW i \in Queues, NEW c \in Ids, NEW m \in C!Message, Send(i, c, m)
    PROVE  Inv'
  <1>1. active[i] /\ count[i] < Depth
    BY DEF Send, Finds
  <1>2. /\ head[i] \in Cells /\ count[i] \in 0..Depth /\ count[i] + 1 \in 0..Depth
        /\ msgs[i] \in [Cells -> C!Message]
        /\ tail[i] = Wrap(head[i] + count[i]) /\ tail[i] \in Cells
    BY <1>1, FoundQueue
  <1>3. (tail[i] + 1) % Depth = Wrap(head[i] + (count[i] + 1)) /\ (tail[i] + 1) % Depth \in Cells
    <2>1. (tail[i] + 1) % Depth = Wrap(head[i] + count[i] + 1)
      BY <1>1, <1>2, RingPut
    <2>2. head[i] + count[i] + 1 = head[i] + (count[i] + 1)
      BY <1>2 DEF Cells
    <2> QED  BY <1>2, <2>1, <2>2, ModIsWrap
  <1>4. TypeOK'
    <2>1. [msgs[i] EXCEPT ![tail[i]] = m] \in [Cells -> C!Message]
      BY <1>2
    <2>2. msgs' \in [Queues -> [Cells -> C!Message]]
      BY <2>1 DEF Inv, TypeOK, Send
    <2>3. tail' \in [Queues -> Cells] /\ count' \in [Queues -> 0..Depth]
      BY <1>2, <1>3 DEF Inv, TypeOK, Send
    <2> QED  BY <2>2, <2>3 DEF Inv, TypeOK, Send, channelVars
  <1>5. \A j \in Queues : active[j] => tail'[j] = Wrap(head[j] + count'[j])
    <2>1. tail'[i] = Wrap(head[i] + count'[i])
      BY <1>3 DEF Inv, TypeOK, Send
    <2>2. \A j \in Queues \ {i} : tail'[j] = tail[j] /\ count'[j] = count[j]
      BY DEF Inv, TypeOK, Send
    <2> QED  BY <2>1, <2>2 DEF Inv, TablesAgree
  <1>6. TablesAgree'
    BY <1>5 DEF Inv, TablesAgree, Send, channelVars, Opened, Wrap
  <1> QED  BY <1>4, <1>6 DEF Inv

(* ipc_recv() *)
LEMMA RecvInv ==
    ASSUME Inv, NEW i \in Queues, NEW c \in Ids, NEW max \in C!Lengths, Recv(i, c, max)
    PROVE  Inv'
  <1>1. active[i] /\ count[i] # 0
    BY DEF Recv, Finds
  <1>2. /\ head[i] \in Cells /\ count[i] \in Nat \ {0} /\ count[i] <= Depth
        /\ count[i] - 1 \in 0..Depth
        /\ msgs[i] \in [Cells -> C!Message]
        /\ tail[i] = Wrap(head[i] + count[i])
    BY <1>1, FoundQueue
  <1>3. tail[i] = Wrap(((head[i] + 1) % Depth) + (count[i] - 1)) /\ (head[i] + 1) % Depth \in Cells
    BY <1>2, RingTake, ModIsWrap
  <1>4. TypeOK'
    <2>1. out' \in C!Message
      <3>1. msgs[i][head[i]] \in C!Message
        BY <1>2
      <3> QED  BY <3>1 DEF Recv, C!Cut, C!MessageOf, C!Message, C!Lengths
    <2>2. head' \in [Queues -> Cells] /\ count' \in [Queues -> 0..Depth]
      BY <1>2, <1>3 DEF Inv, TypeOK, Recv
    <2> QED  BY <2>1, <2>2 DEF Inv, TypeOK, Recv, channelVars
  <1>5. \A j \in Queues : active[j] => tail[j] = Wrap(head'[j] + count'[j])
    <2>1. tail[i] = Wrap(head'[i] + count'[i])
      BY <1>3 DEF Inv, TypeOK, Recv
    <2>2. \A j \in Queues \ {i} : head'[j] = head[j] /\ count'[j] = count[j]
      BY DEF Inv, TypeOK, Recv
    <2> QED  BY <2>1, <2>2 DEF Inv, TablesAgree
  <1>6. TablesAgree'
    BY <1>5 DEF Inv, TablesAgree, Recv, channelVars, Opened, Wrap
  <1> QED  BY <1>4, <1>6 DEF Inv

LEMMA NextInv == Inv /\ [Next]_vars => Inv'
  <1> SUFFICES ASSUME Inv, [Next]_vars  PROVE Inv'
    OBVIOUS
  <1>1. CASE UNCHANGED vars
    BY <1>1 DEF vars, channelVars, Inv, TypeOK, TablesAgree, Opened, Wrap
  <1> QED  BY <1>1, OpenInv, OpenNoQueueInv, SendInv, RecvInv DEF Next

(* The type invariant and the agreement of channel_table, named_channels    *)
(* and queues hold for every size of the tables.                            *)
THEOREM IpcTablesAgree == Spec => [](TypeOK /\ TablesAgree)
  <1>1. Spec => []Inv
    BY InitInv, NextInv, PTL DEF Spec
  <1> QED  BY <1>1, PTL DEF Inv

-----------------------------------------------------------------------------
(* The tables name one queue for each name. *)
LEMMA QueueUnique ==
    ASSUME Inv, NEW n \in Opened, NEW i \in Queues, active[i], channel_id[i] = named[n]
    PROVE  QueueOf(n) = i
  BY DEF Inv, TablesAgree, QueueOf

LEMMA QueueExists ==
    ASSUME Inv, NEW n \in Opened
    PROVE  /\ QueueOf(n) \in Queues
           /\ active[QueueOf(n)] /\ channel_id[QueueOf(n)] = named[n]
  <1>1. \E i \in Queues : active[i] /\ channel_id[i] = named[n]
    BY DEF Inv, TablesAgree
  <1> QED  BY <1>1 DEF QueueOf

(* What an opened name's FIFO is after a step: the ring of the same queue. *)
LEMMA FifoAt ==
    ASSUME Inv, NEW n \in Opened, NEW i \in Queues, active[i], channel_id[i] = named[n]
    PROVE  Fifo[n] = Ring(msgs[i], head[i], count[i])
  BY QueueUnique DEF Fifo

(* The queue found for a channel id belongs to one opened name. *)
LEMMA FoundName ==
    ASSUME Inv, NEW i \in Queues, active[i]
    PROVE  \E n \in Opened : channel_id[i] = named[n]
  BY DEF Inv, TablesAgree

LEMMA FifoAtNext ==
    ASSUME Inv', NEW n \in Opened', NEW i \in Queues, active'[i], channel_id'[i] = named'[n]
    PROVE  Fifo'[n] = Ring(msgs'[i], head'[i], count'[i])
  <1>1. (CHOOSE j \in Queues : active'[j] /\ channel_id'[j] = named'[n]) = i
    BY DEF Inv, TablesAgree
  <1> QED  BY <1>1 DEF Fifo, QueueOf, Ring, Wrap

(* Two maps over the same names are equal when they agree on every name. *)
LEMMA FifoIs ==
    ASSUME NEW f, f = [n \in DOMAIN f |-> f[n]], Opened' = DOMAIN f,
           \A n \in DOMAIN f : Fifo'[n] = f[n]
    PROVE  Fifo' = f
  <1>1. Fifo' = [n \in Opened' |-> Fifo'[n]]
    BY DEF Fifo
  <1> QED  BY <1>1

(* channel_open_named() opens an empty FIFO and leaves the others alone. *)
LEMMA OpenRefines ==
    ASSUME Inv, Inv', NEW n \in Names, NEW i \in Queues, OpenNamed(n, i)
    PROVE  C!Open(n)
  <1>1. /\ DOMAIN Fifo = Opened /\ n \notin Opened /\ Opened' = Opened \cup {n}
        /\ \A k \in Opened : named'[k] = named[k]
        /\ named'[n] = next_channel_id
    BY DEF Fifo, Inv, TypeOK, OpenNamed, MayOpen, Ids, Opened
  <1>2. /\ active'[i] /\ channel_id'[i] = next_channel_id /\ ~active[i]
        /\ head'[i] = 0 /\ count'[i] = 0
        /\ \A j \in Queues \ {i} :
            /\ active'[j] = active[j] /\ channel_id'[j] = channel_id[j]
            /\ head'[j] = head[j] /\ count'[j] = count[j]
        /\ msgs' = msgs /\ out' = out
    BY DEF Inv, TypeOK, OpenNamed
  <1>3. Fifo'[n] = <<>>
    <2>1. Fifo'[n] = Ring(msgs'[i], 0, 0)
      BY <1>1, <1>2, FifoAtNext
    <2>2. Ring(msgs'[i], 0, 0) = <<>>
      BY DEF Ring
    <2> QED  BY <2>1, <2>2
  <1>4. ASSUME NEW k \in Opened  PROVE Fifo'[k] = Fifo[k]
    <2> DEFINE q == QueueOf(k)
    <2>1. q \in Queues /\ active[q] /\ channel_id[q] = named[k]
      BY QueueExists
    <2> HIDE DEF q
    <2>2. q # i
      BY <1>2, <2>1
    <2>3. Fifo'[k] = Ring(msgs'[q], head'[q], count'[q])
      BY <1>1, <1>2, <2>1, <2>2, FifoAtNext
    <2>4. Fifo[k] = Ring(msgs[q], head[q], count[q])
      BY <2>1, FifoAt
    <2> QED  BY <1>2, <2>1, <2>2, <2>3, <2>4
  <1> DEFINE f == [k \in Opened \cup {n} |-> IF k = n THEN <<>> ELSE Fifo[k]]
  <1>5. Fifo' = f
    <2>1. DOMAIN f = Opened' /\ f = [k \in DOMAIN f |-> f[k]]
      BY <1>1
    <2>2. \A k \in DOMAIN f : Fifo'[k] = f[k]
      BY <1>1, <1>3, <1>4
    <2> HIDE DEF f
    <2> QED  BY <2>1, <2>2, FifoIs
  <1> QED  BY <1>1, <1>2, <1>5 DEF C!Open

(* Queue i serves name n, and a step changes no other queue. *)
OnlyQueue(i, n) ==
    /\ active[i] /\ channel_id[i] = named[n]
    /\ UNCHANGED <<named, active, channel_id>>
    /\ \A j \in Queues \ {i} :
        msgs'[j] = msgs[j] /\ head'[j] = head[j] /\ count'[j] = count[j]

OnlyFifo(i, n) ==
    /\ Opened' = Opened /\ DOMAIN Fifo = Opened
    /\ Fifo[n] = Ring(msgs[i], head[i], count[i])
    /\ Fifo' = [Fifo EXCEPT ![n] = Ring(msgs'[i], head'[i], count'[i])]

(* Such a step changes the FIFO of that name and no other. *)
LEMMA OtherFifos ==
    ASSUME Inv, Inv', NEW n \in Opened, NEW i \in Queues, OnlyQueue(i, n)
    PROVE  OnlyFifo(i, n)
  <1> USE DEF OnlyQueue
  <1>1. Opened' = Opened /\ DOMAIN Fifo = Opened
    BY DEF Opened, Fifo
  <1>2. Fifo[n] = Ring(msgs[i], head[i], count[i])
    BY FifoAt
  <1>3. Fifo'[n] = Ring(msgs'[i], head'[i], count'[i])
    BY <1>1, FifoAtNext
  <1>4. ASSUME NEW k \in Opened, k # n  PROVE Fifo'[k] = Fifo[k]
    <2> DEFINE q == QueueOf(k)
    <2>1. q \in Queues /\ active[q] /\ channel_id[q] = named[k]
      BY QueueExists
    <2> HIDE DEF q
    <2>2. q # i
      BY <1>4, <2>1 DEF Inv, TablesAgree
    <2>3. Fifo'[k] = Ring(msgs'[q], head'[q], count'[q])
      BY <1>1, <2>1, FifoAtNext
    <2>4. Fifo[k] = Ring(msgs[q], head[q], count[q])
      BY <2>1, FifoAt
    <2> QED  BY <2>1, <2>2, <2>3, <2>4
  <1> DEFINE x == Ring(msgs'[i], head'[i], count'[i])
             f == [Fifo EXCEPT ![n] = x]
  <1>5. Fifo' = f
    <2> HIDE DEF x
    <2>1. DOMAIN f = Opened' /\ f = [k \in DOMAIN f |-> f[k]]
      BY <1>1
    <2>2. f[n] = x /\ \A k \in Opened : k # n => f[k] = Fifo[k]
      BY <1>1
    <2>3. Fifo'[n] = x
      BY <1>3 DEF x
    <2> HIDE DEF f
    <2>4. \A k \in DOMAIN f : Fifo'[k] = f[k]
      BY <1>1, <1>4, <2>1, <2>2, <2>3
    <2> QED  BY <2>1, <2>4, FifoIs
  <1> QED  BY <1>1, <1>2, <1>5 DEF OnlyFifo

(* sys_send_msg() appends to the FIFO of the channel's name. *)
LEMMA SendRefines ==
    ASSUME Inv, Inv', NEW i \in Queues, NEW c \in Ids, NEW m \in C!Message, Send(i, c, m)
    PROVE  \E n \in DOMAIN Fifo : C!Put(n, m)
  <1>1. active[i] /\ count[i] < Depth
    BY DEF Send, Finds
  <1>2. PICK n \in Opened : channel_id[i] = named[n]
    BY <1>1, FoundName
  <1>3. /\ head[i] \in Cells /\ count[i] \in 0..Depth /\ count[i] \in Nat
        /\ msgs[i] \in [Cells -> C!Message]
        /\ tail[i] = Wrap(head[i] + count[i])
    BY <1>1, FoundQueue
  <1>4. /\ msgs'[i] = [msgs[i] EXCEPT ![Wrap(head[i] + count[i])] = m]
        /\ head' = head /\ count'[i] = count[i] + 1 /\ out' = out
        /\ UNCHANGED <<named, active, channel_id>>
        /\ \A j \in Queues \ {i} : msgs'[j] = msgs[j] /\ count'[j] = count[j]
    BY <1>3 DEF Inv, TypeOK, Send, channelVars
  <1>5. Ring(msgs'[i], head'[i], count'[i]) = Append(Ring(msgs[i], head[i], count[i]), m)
    <2>1. Ring([msgs[i] EXCEPT ![Wrap(head[i] + count[i])] = m], head[i], count[i] + 1)
          = Append(Ring(msgs[i], head[i], count[i]), m)
      <3>1. Appends(msgs[i], head[i], count[i], m)
        BY <1>1, <1>3, RingPut
      <3> QED  BY <3>1 DEF Appends
    <2> QED  BY <1>4, <2>1
  <1>6. Len(Ring(msgs[i], head[i], count[i])) = count[i]
    BY <1>3, RingLen
  <1>7. /\ DOMAIN Fifo = Opened
        /\ Fifo[n] = Ring(msgs[i], head[i], count[i])
        /\ Fifo' = [Fifo EXCEPT ![n] = Ring(msgs'[i], head'[i], count'[i])]
    <2>1. OnlyQueue(i, n)
      BY <1>1, <1>2, <1>4 DEF OnlyQueue
    <2>2. OnlyFifo(i, n)
      BY <2>1, OtherFifos
    <2> QED  BY <2>2 DEF OnlyFifo
  <1>8. C!Put(n, m)
    BY <1>1, <1>4, <1>5, <1>6, <1>7 DEF C!Put
  <1> QED  BY <1>7, <1>8

(* sys_recv_msg() takes the oldest message of the channel's name. *)
LEMMA RecvRefines ==
    ASSUME Inv, Inv', NEW i \in Queues, NEW c \in Ids, NEW max \in C!Lengths, Recv(i, c, max)
    PROVE  \E n \in DOMAIN Fifo : C!Take(n, max)
  <1>1. active[i] /\ count[i] # 0
    BY DEF Recv, Finds
  <1>2. PICK n \in Opened : channel_id[i] = named[n]
    BY <1>1, FoundName
  <1>3. /\ head[i] \in Cells /\ count[i] \in Nat \ {0} /\ count[i] <= Depth
        /\ msgs[i] \in [Cells -> C!Message]
    BY <1>1, FoundQueue
  <1>4. /\ head'[i] = (head[i] + 1) % Depth /\ count'[i] = count[i] - 1
        /\ msgs' = msgs /\ out' = C!Cut(msgs[i][head[i]], max)
        /\ UNCHANGED <<named, active, channel_id>>
        /\ \A j \in Queues \ {i} : head'[j] = head[j] /\ count'[j] = count[j]
    BY DEF Inv, TypeOK, Recv, channelVars
  <1>5. /\ Ring(msgs[i], head[i], count[i]) # <<>>
        /\ Head(Ring(msgs[i], head[i], count[i])) = msgs[i][head[i]]
        /\ Ring(msgs'[i], head'[i], count'[i]) = Tail(Ring(msgs[i], head[i], count[i]))
    <2>1. /\ Ring(msgs[i], head[i], count[i]) # <<>>
          /\ Head(Ring(msgs[i], head[i], count[i])) = msgs[i][head[i]]
          /\ Ring(msgs[i], (head[i] + 1) % Depth, count[i] - 1)
             = Tail(Ring(msgs[i], head[i], count[i]))
      BY <1>3, RingTake
    <2> QED  BY <1>4, <2>1
  <1>6. /\ DOMAIN Fifo = Opened
        /\ Fifo[n] = Ring(msgs[i], head[i], count[i])
        /\ Fifo' = [Fifo EXCEPT ![n] = Ring(msgs'[i], head'[i], count'[i])]
    <2>1. OnlyQueue(i, n)
      BY <1>1, <1>2, <1>4 DEF OnlyQueue
    <2>2. OnlyFifo(i, n)
      BY <2>1, OtherFifos
    <2> QED  BY <2>2 DEF OnlyFifo
  <1>7. C!Take(n, max)
    BY <1>4, <1>5, <1>6 DEF C!Take
  <1> QED  BY <1>6, <1>7

(* Every step of the tables is a step of the FIFOs or none. *)
LEMMA NextRefines ==
    ASSUME Inv, Inv', [Next]_vars
    PROVE  [C!ChannelsNext]_<<Fifo, out>>
  <1>1. CASE UNCHANGED vars
    BY <1>1 DEF vars, channelVars, Fifo, Opened, QueueOf, Ring, Wrap
  <1>2. ASSUME NEW n \in Names, OpenNamedNoQueue(n)  PROVE UNCHANGED <<Fifo, out>>
    BY <1>2 DEF OpenNamedNoQueue, Fifo, Opened, QueueOf, Ring, Wrap
  <1>3. ASSUME NEW n \in Names, NEW i \in Queues, OpenNamed(n, i)  PROVE C!ChannelsNext
    BY <1>3, OpenRefines DEF C!ChannelsNext
  <1>4. ASSUME NEW i \in Queues, NEW c \in Ids, NEW m \in C!Message, Send(i, c, m)
        PROVE C!ChannelsNext
    BY <1>4, SendRefines DEF C!ChannelsNext
  <1>5. ASSUME NEW i \in Queues, NEW c \in Ids, NEW max \in C!Lengths, Recv(i, c, max)
        PROVE C!ChannelsNext
    BY <1>5, RecvRefines DEF C!ChannelsNext
  <1> QED  BY <1>1, <1>2, <1>3, <1>4, <1>5 DEF Next

(* channel.c and message.c give every name its own FIFO, for every number   *)
(* of names, channels and queues and every ring depth.                      *)
THEOREM IpcImplementsChannels == Spec => ImplementsChannels
  <1>1. Init => C!ChannelsInit
    BY DEF Init, Opened, Fifo, C!ChannelsInit
  <1>2. Spec => []Inv
    BY InitInv, NextInv, PTL DEF Spec
  <1>3. Inv /\ Inv' /\ [Next]_vars => [C!ChannelsNext]_<<Fifo, out>>
    BY NextRefines
  <1> QED  BY <1>1, <1>2, <1>3, PTL DEF Spec, ImplementsChannels, C!ChannelsSpec
=============================================================================
