----------------------------- MODULE NatProofs ------------------------------
(***************************************************************************)
(* Proof that the answer to a translated packet reaches its sender, for    *)
(* every size of the table and every range of ports.  alloc_nat_port never *)
(* looks at the ports in use, so the argument is about time: the ports of  *)
(* the entries are at distinct distances behind next_nat_port, and the     *)
(* table fills up before a distance goes once round the range.             *)
(***************************************************************************)
EXTENDS NetTables, TLAPS

Ports == NatPortMin .. NatPortMax
PortCount == NatPortMax - NatPortMin + 1

Entry == [inside : InsideEnds, port : ForwardPorts \union Ports,
          remote : RemoteEnds \union {AnySource}, proto : Protocols]

(* The number of allocations from that of port up to the state in which    *)
(* next comes next, when it is less than a round.                          *)
Behind(port, next) == IF next > port THEN next - port ELSE next - port + PortCount

Outbound(i) == nat_table[i].remote # AnySource

NatInv ==
    /\ nat_table \in Seq(Entry) /\ Len(nat_table) <= NatMax
    /\ next_nat_port \in Ports /\ nat_enabled \in BOOLEAN
    /\ \A i \in DOMAIN nat_table : Outbound(i) =>
           /\ nat_table[i].port \in Ports
           /\ Behind(nat_table[i].port, next_nat_port) <= Len(nat_table) - i + 1
    /\ \A i, j \in DOMAIN nat_table : i < j /\ Outbound(i) /\ Outbound(j) =>
           Behind(nat_table[j].port, next_nat_port) < Behind(nat_table[i].port, next_nat_port)

-----------------------------------------------------------------------------
(* alloc_nat_port stays in the range, moves every port that is less than a *)
(* round behind one step further, and the port it hands out is one behind. *)
LEMMA AfterPortSteps ==
    ASSUME NEW next \in Ports
    PROVE  /\ AfterPort(next) \in Ports
           /\ Behind(next, AfterPort(next)) = 1
           /\ \A port \in Ports : Behind(port, next) < PortCount =>
                  Behind(port, AfterPort(next)) = Behind(port, next) + 1
  BY NatAssumption DEF AfterPort, Behind, Ports, PortCount

LEMMA BehindPositive ==
    ASSUME NEW port \in Ports, NEW next \in Ports
    PROVE  Behind(port, next) \in Nat \ {0}
  BY NatAssumption DEF Behind, Ports, PortCount

(* The search for the mapping of an arriving packet finds the entry that   *)
(* alone fits.                                                             *)
LEMMA InboundFindsTheOnly ==
    ASSUME nat_table \in Seq(Entry),
           NEW i \in DOMAIN nat_table,
           \A j \in DOMAIN nat_table : nat_table[j].port = nat_table[i].port
                   /\ nat_table[j].remote = nat_table[i].remote => j = i
    PROVE  nat_find_inbound(nat_table[i].port, nat_table[i].remote, nat_table[i].proto) = i
<1> DEFINE I == {j \in 1 .. Len(nat_table) :
                    /\ nat_table[j].port = nat_table[i].port
                    /\ nat_table[j].remote = nat_table[i].remote
                    /\ nat_table[j].proto = nat_table[i].proto}
<1>1. I = {i} /\ i \in Int
  OBVIOUS
<1>2. nat_find_inbound(nat_table[i].port, nat_table[i].remote, nat_table[i].proto)
        = IF I # {} THEN Min(I) ELSE 0
  BY DEF nat_find_inbound, SelectInSeq
<1>3. Min({i}) = i
  BY <1>1 DEF Min
<1> QED
  BY <1>1, <1>2, <1>3

LEMMA EmptyTable ==
    /\ <<>> \in Seq(Entry) /\ Len(<<>>) = 0 /\ Len(<<>>) <= NatMax
    /\ DOMAIN <<>> = {}
  BY NatAssumption

LEMMA NatInvInit == NatBoot => NatInv
<1> SUFFICES ASSUME NatBoot PROVE NatInv
  OBVIOUS
<1>1. NatPortMin \in Ports
  BY NatAssumption DEF Ports
<1>2. nat_table = <<>> /\ next_nat_port = NatPortMin /\ nat_enabled = FALSE
  BY DEF NatBoot
<1> QED
  BY <1>1, <1>2, EmptyTable DEF NatInv

(* A new entry at the end of the table, from either of the two functions   *)
(* that call nat_alloc_entry.                                              *)
LEMMA AppendKeeps ==
    ASSUME NatInv, Len(nat_table) < NatMax, NEW e \in Entry,
           nat_table' = Append(nat_table, e)
    PROVE  /\ nat_table' \in Seq(Entry) /\ Len(nat_table') = Len(nat_table) + 1
           /\ Len(nat_table') <= NatMax
           /\ DOMAIN nat_table' = DOMAIN nat_table \union {Len(nat_table) + 1}
           /\ \A i \in DOMAIN nat_table : nat_table'[i] = nat_table[i]
           /\ nat_table'[Len(nat_table) + 1] = e
  BY NatAssumption DEF NatInv

LEMMA OutboundKeeps ==
    ASSUME NatInv, NEW inside \in InsideEnds, NEW remote \in RemoteEnds, NEW proto \in Protocols,
           nat_translate_outbound(inside, remote, proto)
    PROVE  NatInv'
<1>1. CASE UNCHANGED natVars
  BY <1>1 DEF NatInv, natVars, Outbound
<1>2. CASE /\ Len(nat_table) < NatMax
           /\ nat_table' = Append(nat_table, [inside |-> inside, port |-> next_nat_port,
                                              remote |-> remote, proto |-> proto])
           /\ next_nat_port' = AfterPort(next_nat_port) /\ nat_enabled' = nat_enabled
  <2> DEFINE e == [inside |-> inside, port |-> next_nat_port, remote |-> remote, proto |-> proto]
             n == Len(nat_table) + 1
  <2>1. e \in Entry /\ e.port = next_nat_port /\ e.remote # AnySource /\ next_nat_port \in Ports
    BY NatAssumption DEF NatInv, Entry
  <2> HIDE DEF e
  <2>2. /\ nat_table' \in Seq(Entry) /\ Len(nat_table') = n /\ Len(nat_table') <= NatMax
        /\ DOMAIN nat_table' = DOMAIN nat_table \union {n}
        /\ \A i \in DOMAIN nat_table : nat_table'[i] = nat_table[i]
        /\ nat_table'[n] = e
    BY <1>2, <2>1, AppendKeeps DEF e
  <2>3. DOMAIN nat_table = 1 .. Len(nat_table) /\ Len(nat_table) \in Nat
    BY DEF NatInv
  <2>4. \A i \in DOMAIN nat_table : Outbound(i) =>
           /\ Outbound(i)' /\ nat_table'[i].port = nat_table[i].port /\ nat_table[i].port \in Ports
           /\ Behind(nat_table[i].port, next_nat_port')
                  = Behind(nat_table[i].port, next_nat_port) + 1
           /\ Behind(nat_table[i].port, next_nat_port) \in Nat \ {0}
    <3> SUFFICES ASSUME NEW i \in DOMAIN nat_table, Outbound(i)
                 PROVE  /\ Outbound(i)' /\ nat_table'[i].port = nat_table[i].port
                        /\ nat_table[i].port \in Ports
                        /\ Behind(nat_table[i].port, next_nat_port')
                               = Behind(nat_table[i].port, next_nat_port) + 1
                        /\ Behind(nat_table[i].port, next_nat_port) \in Nat \ {0}
      OBVIOUS
    <3>1. nat_table[i].port \in Ports /\ Behind(nat_table[i].port, next_nat_port) <= Len(nat_table) - i + 1
      BY DEF NatInv
    <3>2. Behind(nat_table[i].port, next_nat_port) < PortCount
      <4>1. Behind(nat_table[i].port, next_nat_port) \in Nat \ {0}
        BY <3>1, <2>1, BehindPositive
      <4>2. i \in Nat /\ i >= 1 /\ Len(nat_table) < NatMax
        BY <2>3, <1>2
      <4>3. NatMax \in Nat /\ PortCount \in Nat /\ NatMax <= PortCount
        BY NatAssumption DEF PortCount
      <4> QED
        BY <3>1, <4>1, <4>2, <4>3, <2>3
    <3>3. Behind(nat_table[i].port, next_nat_port') = Behind(nat_table[i].port, next_nat_port) + 1
      BY <3>1, <3>2, <2>1, <1>2, AfterPortSteps
    <3>4. Behind(nat_table[i].port, next_nat_port) \in Nat \ {0}
      BY <3>1, <2>1, BehindPositive
    <3>5. Outbound(i)' /\ nat_table'[i].port = nat_table[i].port
      BY <2>2 DEF Outbound
    <3> QED
      BY <3>1, <3>3, <3>4, <3>5
  <2>5. \A i \in DOMAIN nat_table : Outbound(i)' => Outbound(i)
    BY <2>2 DEF Outbound
  <2>6. nat_table'[n].port = next_nat_port /\ Behind(next_nat_port, next_nat_port') = 1
    BY <2>1, <2>2, <1>2, AfterPortSteps
  <2>7. next_nat_port' \in Ports
    BY <2>1, <1>2, AfterPortSteps
  <2>8. \A i \in DOMAIN nat_table' : Outbound(i)' =>
           /\ nat_table'[i].port \in Ports
           /\ Behind(nat_table'[i].port, next_nat_port') <= Len(nat_table') - i + 1
    <3> SUFFICES ASSUME NEW i \in DOMAIN nat_table', Outbound(i)'
                 PROVE  /\ nat_table'[i].port \in Ports
                        /\ Behind(nat_table'[i].port, next_nat_port') <= Len(nat_table') - i + 1
      OBVIOUS
    <3>1. CASE i = n
      BY <3>1, <2>1, <2>2, <2>3, <2>6
    <3>2. CASE i \in DOMAIN nat_table
      <4>1. Behind(nat_table[i].port, next_nat_port) <= Len(nat_table) - i + 1
        BY <3>2, <2>5 DEF NatInv
      <4> QED
        BY <4>1, <3>2, <2>2, <2>3, <2>4, <2>5
    <3> QED
      BY <3>1, <3>2, <2>2
  <2>9. \A i, j \in DOMAIN nat_table' : i < j /\ Outbound(i)' /\ Outbound(j)' =>
           Behind(nat_table'[j].port, next_nat_port') < Behind(nat_table'[i].port, next_nat_port')
    <3> SUFFICES ASSUME NEW i \in DOMAIN nat_table', NEW j \in DOMAIN nat_table',
                        i < j, Outbound(i)', Outbound(j)'
                 PROVE  Behind(nat_table'[j].port, next_nat_port')
                            < Behind(nat_table'[i].port, next_nat_port')
      OBVIOUS
    <3>1. i \in DOMAIN nat_table /\ Outbound(i)
      BY <2>2, <2>3, <2>5
    <3>2. CASE j = n
      BY <3>1, <3>2, <2>4, <2>6
    <3>3. CASE j \in DOMAIN nat_table
      <4>1. Outbound(j)
        BY <3>3, <2>5
      <4>2. Behind(nat_table[j].port, next_nat_port) < Behind(nat_table[i].port, next_nat_port)
        BY <3>1, <3>3, <4>1 DEF NatInv
      <4> QED
        BY <4>1, <4>2, <3>1, <3>3, <2>4
    <3> QED
      BY <3>2, <3>3, <2>2
  <2> QED
    BY <1>2, <2>2, <2>7, <2>8, <2>9 DEF NatInv
<1> QED
  BY <1>1, <1>2 DEF nat_translate_outbound, natVars

LEMMA ForwardKeeps ==
    ASSUME NatInv, NEW port \in ForwardPorts, NEW inside \in InsideEnds, NEW proto \in Protocols,
           nat_add_port_forward(port, inside, proto)
    PROVE  NatInv'
<1> DEFINE e == [inside |-> inside, port |-> port, remote |-> AnySource, proto |-> proto]
           n == Len(nat_table) + 1
<1>1. e \in Entry /\ e.remote = AnySource
  BY DEF Entry
<1>2. /\ Len(nat_table) < NatMax /\ nat_table' = Append(nat_table, e)
      /\ next_nat_port' = next_nat_port /\ nat_enabled' = nat_enabled
  BY DEF nat_add_port_forward
<1> HIDE DEF e
<1>3. /\ nat_table' \in Seq(Entry) /\ Len(nat_table') = n /\ Len(nat_table') <= NatMax
      /\ DOMAIN nat_table' = DOMAIN nat_table \union {n}
      /\ \A i \in DOMAIN nat_table : nat_table'[i] = nat_table[i]
      /\ nat_table'[n] = e
  BY <1>1, <1>2, AppendKeeps
<1>4. DOMAIN nat_table = 1 .. Len(nat_table) /\ Len(nat_table) \in Nat
  BY DEF NatInv
<1>5. \A i \in DOMAIN nat_table' : Outbound(i)' => i \in DOMAIN nat_table /\ Outbound(i)
  BY <1>1, <1>3 DEF Outbound
<1>6. \A i \in DOMAIN nat_table' : Outbound(i)' =>
         /\ nat_table'[i].port \in Ports
         /\ Behind(nat_table'[i].port, next_nat_port') <= Len(nat_table') - i + 1
  <2> SUFFICES ASSUME NEW i \in DOMAIN nat_table', Outbound(i)'
               PROVE  /\ nat_table'[i].port \in Ports
                      /\ Behind(nat_table'[i].port, next_nat_port') <= Len(nat_table') - i + 1
    OBVIOUS
  <2>1. i \in DOMAIN nat_table /\ nat_table[i].port \in Ports
        /\ Behind(nat_table[i].port, next_nat_port) <= Len(nat_table) - i + 1
    BY <1>5 DEF NatInv
  <2>2. Behind(nat_table[i].port, next_nat_port) \in Int
    BY <2>1, BehindPositive DEF NatInv
  <2> QED
    BY <2>1, <2>2, <1>2, <1>3, <1>4
<1>7. \A i, j \in DOMAIN nat_table' : i < j /\ Outbound(i)' /\ Outbound(j)' =>
         Behind(nat_table'[j].port, next_nat_port') < Behind(nat_table'[i].port, next_nat_port')
  <2> SUFFICES ASSUME NEW i \in DOMAIN nat_table', NEW j \in DOMAIN nat_table',
                      i < j, Outbound(i)', Outbound(j)'
               PROVE  Behind(nat_table'[j].port, next_nat_port')
                          < Behind(nat_table'[i].port, next_nat_port')
    OBVIOUS
  <2>1. i \in DOMAIN nat_table /\ Outbound(i) /\ j \in DOMAIN nat_table /\ Outbound(j)
    BY <1>5
  <2>2. Behind(nat_table[j].port, next_nat_port) < Behind(nat_table[i].port, next_nat_port)
    BY <2>1 DEF NatInv
  <2> QED
    BY <2>1, <2>2, <1>2, <1>3
<1> QED
  BY <1>2, <1>3, <1>6, <1>7 DEF NatInv

LEMMA NatInvStep == NatInv /\ [NatNext]_natVars => NatInv'
<1> SUFFICES ASSUME NatInv, [NatNext]_natVars PROVE NatInv'
  OBVIOUS
<1>1. CASE nat_init
  <2>1. nat_table' = <<>> /\ nat_enabled' = FALSE /\ next_nat_port' = next_nat_port
    BY <1>1 DEF nat_init
  <2>2. next_nat_port \in Ports
    BY DEF NatInv
  <2> QED
    BY <2>1, <2>2, EmptyTable DEF NatInv
<1>2. CASE nat_enable
  BY <1>2 DEF nat_enable, NatInv, Outbound
<1>3. CASE nat_disable
  BY <1>3 DEF nat_disable, NatInv, Outbound
<1>4. CASE \E inside \in InsideEnds, proto \in Protocols, remote \in RemoteEnds :
               nat_translate_outbound(inside, remote, proto)
  BY <1>4, OutboundKeeps
<1>5. CASE \E inside \in InsideEnds, proto \in Protocols, port \in ForwardPorts :
               nat_add_port_forward(port, inside, proto)
  BY <1>5, ForwardKeeps
<1>6. CASE UNCHANGED natVars
  BY <1>6 DEF natVars, NatInv, Outbound
<1> QED
  BY <1>1, <1>2, <1>3, <1>4, <1>5, <1>6 DEF NatNext

(* No two entries made for outgoing packets share an external port, though *)
(* alloc_nat_port hands out ports without looking at the table.            *)
LEMMA OwnPorts ==
    ASSUME NatInv, NEW i \in DOMAIN nat_table, NEW j \in DOMAIN nat_table,
           Outbound(i), Outbound(j), nat_table[i].port = nat_table[j].port
    PROVE  i = j
<1>1. i \in Int /\ j \in Int
  BY DEF NatInv
<1>2. Behind(nat_table[i].port, next_nat_port) \in Int
  BY BehindPositive DEF NatInv
<1> DEFINE b == Behind(nat_table[i].port, next_nat_port)
<1>3. b = Behind(nat_table[j].port, next_nat_port) /\ ~(b < b)
  BY <1>2
<1>4. ~(i < j)
  BY <1>3 DEF NatInv
<1>5. ~(j < i)
  BY <1>3 DEF NatInv
<1> QED
  BY <1>1, <1>4, <1>5

LEMMA NatInvAnswers == NatInv => NatAnswersReachTheSender
<1> SUFFICES ASSUME NatInv, NEW i \in DOMAIN nat_table, nat_enabled, nat_table[i].remote # AnySource
             PROVE  nat_translate_inbound(nat_table[i].port, nat_table[i].remote, nat_table[i].proto)
                        = nat_table[i].inside
  BY DEF NatAnswersReachTheSender
<1>1. \A j \in DOMAIN nat_table : nat_table[j].port = nat_table[i].port
              /\ nat_table[j].remote = nat_table[i].remote => j = i
  BY OwnPorts DEF Outbound
<1>2. nat_find_inbound(nat_table[i].port, nat_table[i].remote, nat_table[i].proto) = i
  BY <1>1, InboundFindsTheOnly DEF NatInv
<1>3. i # 0
  BY DEF NatInv
<1> QED
  BY <1>2, <1>3 DEF nat_translate_inbound

(* For every table that is no larger than the range of ports, the answer   *)
(* to a packet that nat_translate_outbound let out is handed by            *)
(* nat_translate_inbound to the inside end that sent the packet.           *)
THEOREM AnswersReachTheSender == NatSpec => []NatAnswersReachTheSender
  BY NatInvInit, NatInvStep, NatInvAnswers, PTL DEF NatSpec
=============================================================================
