--------------------------- MODULE OtaMasterProofs ----------------------------
(***************************************************************************)
(* For any sizes of the firmwares, of the packets sent ahead and of the    *)
(* queue: success means that the slave received the whole firmware in      *)
(* order, and the handle it was sent to is its own.                        *)
(***************************************************************************)
EXTENDS OtaMaster, TLAPS

Packet ==
    {StartPacket} \cup {Block(f, a) : f \in 1..2, a \in Nat} \cup {EndPacket(a) : a \in Nat}

SeqInv == tx \in Seq(Packet) /\ got \in Seq(Packet)

\* What a new connection finds: no update in progress but one that waits for
\* its parameters.
LinkInv ==
    /\ conn = 0 /\ polled => start \in {0, 1}
    /\ conn = 0 => upd = "none" /\ ~asked

\* The address in each state, and the number of packets of the update that were
\* queued.
AdrInv ==
    /\ start = 6 => adr <= Size[fw]
    /\ start = 5 => adr = 0

Sent == IF start = 5 THEN 1 ELSE IF start = 6 THEN adr + 1 ELSE Size[fw] + 2

\* The last n packets of queue q are the first n of image m.
Queued(q, m, n) == n <= Len(q) /\ \A i \in 1..n : q[Len(q) - n + i] = m[i]

\* What was received, g, and what is queued are the first n of the image.
UnderWay(q, g, m, n) ==
    /\ Len(g) >= 1 /\ Len(g) + Len(q) = n
    /\ \A i \in 1..Len(g) : g[i] = m[i]
    /\ \A i \in 1..Len(q) : q[i] = m[Len(g) + i]

Stream(q, g, m, n) == Queued(q, m, n) \/ UnderWay(q, g, m, n)

StreamInv == conn # 0 /\ start >= 5 => Stream(tx, got, Image(fw), Sent)

IInv ==
    TypeOK /\ SeqInv /\ LinkInv /\ AdrInv /\ StreamInv /\ HandleOfThisSlave

----------------------------------------------------------------------------
\* A start command is no other packet.
LEMMA StartIsUnique ==
    /\ \A f \in 1..2, a \in Nat : Block(f, a) # StartPacket
    /\ \A a \in Nat : EndPacket(a) # StartPacket
  BY DEF Block, StartPacket, EndPacket

\* The packets of a firmware.
LEMMA ImagePackets ==
    ASSUME NEW f \in 1..2
    PROVE  /\ Size[f] \in Nat \ {0}
           /\ Image(f)[1] = StartPacket
           /\ \A i \in 2..Size[f] + 2 : Image(f)[i] # StartPacket
           /\ \A a \in 0..Size[f] - 1 : Image(f)[a + 2] = Block(f, a)
           /\ Image(f)[Size[f] + 2] = EndPacket(Size[f] - 1)
  <1>1. Size[f] \in Nat \ {0}
    BY OtaAssumption
  <1>2. \A i \in 1..Size[f] + 2 :
            Image(f)[i] = IF i = 1 THEN StartPacket
                          ELSE IF i = Size[f] + 2 THEN EndPacket(Size[f] - 1)
                          ELSE Block(f, i - 2)
    BY <1>1 DEF Image
  <1>3. \A i \in 2..Size[f] + 2 : Image(f)[i] # StartPacket
    BY <1>1, <1>2, StartIsUnique
  <1> QED BY <1>1, <1>2, <1>3

\* The next packet of the image goes behind the others.
LEMMA QueuePacket ==
    ASSUME NEW q \in Seq(Packet), NEW g \in Seq(Packet), NEW m, NEW n \in Nat,
           m[n + 1] \in Packet, Stream(q, g, m, n)
    PROVE  /\ Append(q, m[n + 1]) \in Seq(Packet)
           /\ Stream(Append(q, m[n + 1]), g, m, n + 1)
  <1> DEFINE r == Append(q, m[n + 1])
  <1>1. /\ r \in Seq(Packet) /\ Len(r) = Len(q) + 1
        /\ \A i \in 1..Len(q) : r[i] = q[i]
        /\ r[Len(q) + 1] = m[n + 1]
        /\ Len(q) \in Nat /\ Len(g) \in Nat
    OBVIOUS
  <1> HIDE DEF r
  <1>2. CASE Queued(q, m, n)
    <2>1. n <= Len(q) /\ \A i \in 1..n : q[Len(q) - n + i] = m[i]
      BY <1>2 DEF Queued
    <2>2. ASSUME NEW i \in 1..n + 1
          PROVE  r[Len(r) - (n + 1) + i] = m[i]
      <3>1. Len(r) - (n + 1) + i = Len(q) - n + i
        BY <1>1
      <3>2. CASE i \in 1..n
        <4>1. Len(q) - n + i \in 1..Len(q)
          BY <1>1, <2>1, <3>2
        <4> QED BY <1>1, <2>1, <3>1, <3>2, <4>1
      <3>3. CASE i = n + 1
        <4>1. Len(q) - n + i = Len(q) + 1
          BY <1>1, <3>3
        <4> QED BY <1>1, <3>1, <3>3, <4>1
      <3> QED BY <3>2, <3>3
    <2>3. Queued(r, m, n + 1)
      BY <1>1, <2>1, <2>2 DEF Queued
    <2> QED BY <1>1, <2>3 DEF Stream, r
  <1>3. CASE UnderWay(q, g, m, n)
    <2>1. /\ Len(g) >= 1 /\ Len(g) + Len(q) = n
          /\ \A i \in 1..Len(g) : g[i] = m[i]
          /\ \A i \in 1..Len(q) : q[i] = m[Len(g) + i]
      BY <1>3 DEF UnderWay
    <2>2. ASSUME NEW i \in 1..Len(r)
          PROVE  r[i] = m[Len(g) + i]
      <3>1. CASE i \in 1..Len(q)
        BY <1>1, <2>1, <3>1
      <3>2. CASE i = Len(q) + 1
        <4>1. Len(g) + i = n + 1
          BY <1>1, <2>1, <3>2
        <4> QED BY <1>1, <3>2, <4>1
      <3> QED BY <1>1, <3>1, <3>2
    <2>3. Len(g) + Len(r) = n + 1
      <3>1. Len(r) = Len(q) + 1 /\ Len(q) \in Nat /\ Len(g) \in Nat /\ Len(g) + Len(q) = n
        BY <1>1, <2>1
      <3> QED BY <3>1
    <2>4. UnderWay(r, g, m, n + 1)
      BY <2>1, <2>2, <2>3 DEF UnderWay
    <2> QED BY <1>1, <2>4 DEF Stream, r
  <1> QED BY <1>2, <1>3 DEF Stream

\* The first packet of the queue is delivered; a start command begins anew.
LEMMA DeliverPacket ==
    ASSUME NEW q \in Seq(Packet), NEW g \in Seq(Packet), NEW m, NEW n \in Nat \ {0},
           q # <<>>, Stream(q, g, m, n), m[1] = StartPacket,
           \A i \in 2..n : m[i] # StartPacket,
           NEW h, h = IF Head(q) = StartPacket THEN <<StartPacket>> ELSE Append(g, Head(q))
    PROVE  h \in Seq(Packet) /\ Tail(q) \in Seq(Packet) /\ Stream(Tail(q), h, m, n)
  <1> DEFINE r == Tail(q)
  <1>1. /\ Len(q) \in Nat \ {0} /\ Len(g) \in Nat
        /\ r \in Seq(Packet) /\ Len(r) = Len(q) - 1
        /\ \A i \in 1..Len(r) : r[i] = q[i + 1]
        /\ Head(q) = q[1] /\ q[1] \in Packet
    OBVIOUS
  <1>2. h \in Seq(Packet)
    <2>1. StartPacket \in Packet
      BY DEF Packet
    <2> QED BY <1>1, <2>1
  <1> HIDE DEF r
  <1>3. CASE Queued(q, m, n) /\ n < Len(q)
    <2>1. n <= Len(r)
      BY <1>1, <1>3
    <2>2. ASSUME NEW i \in 1..n
          PROVE  r[Len(r) - n + i] = m[i]
      <3>1. Len(r) - n + i \in 1..Len(r) /\ (Len(r) - n + i) + 1 = Len(q) - n + i
        BY <1>1, <1>3, <2>1
      <3>2. q[Len(q) - n + i] = m[i]
        BY <1>3 DEF Queued
      <3> QED BY <1>1, <3>1, <3>2
    <2>3. Queued(r, m, n)
      BY <2>1, <2>2 DEF Queued
    <2> QED BY <1>1, <1>2, <2>3 DEF Stream, r
  <1>4. CASE Queued(q, m, n) /\ n = Len(q)
    <2>1. \A i \in 1..n : q[i] = m[i]
      BY <1>1, <1>4 DEF Queued
    <2>2. h = <<StartPacket>>
      BY <1>1, <2>1
    <2>3. UnderWay(r, h, m, n)
      BY <1>1, <1>4, <2>1, <2>2 DEF UnderWay
    <2> QED BY <1>1, <1>2, <2>3 DEF Stream, r
  <1>5. CASE UnderWay(q, g, m, n)
    <2>1. q[1] = m[Len(g) + 1] /\ Len(g) + 1 \in 2..n
      BY <1>1, <1>5 DEF UnderWay
    <2>2. h = Append(g, q[1])
      BY <1>1, <2>1
    <2>3. /\ Len(h) = Len(g) + 1 /\ h[Len(g) + 1] = q[1]
          /\ \A i \in 1..Len(g) : h[i] = g[i]
      <3>1. q[1] \in Packet
        BY <1>1
      <3> QED BY <2>2, <3>1
    <2>4. UnderWay(r, h, m, n)
      BY <1>1, <1>5, <2>1, <2>3 DEF UnderWay
    <2> QED BY <1>1, <1>2, <2>4 DEF Stream, r
  <1> QED BY <1>1, <1>3, <1>4, <1>5 DEF Stream, Queued

\* With all packets queued and none left in the queue, the slave has them all.
LEMMA AllReceived ==
    ASSUME NEW g \in Seq(Packet), NEW f \in 1..2, Stream(<<>>, g, Image(f), Size[f] + 2)
    PROVE  g = Image(f)
  <1>1. Size[f] \in Nat /\ Len(g) \in Nat
    BY OtaAssumption
  <1>2. UnderWay(<<>>, g, Image(f), Size[f] + 2)
    BY <1>1 DEF Stream, Queued
  <1>3. Len(g) = Size[f] + 2 /\ \A i \in 1..Size[f] + 2 : g[i] = Image(f)[i]
    BY <1>1, <1>2 DEF UnderWay
  <1>4. g = [i \in 1..Size[f] + 2 |-> g[i]]
    BY <1>1, <1>3
  <1>5. Image(f) = [i \in 1..Size[f] + 2 |-> Image(f)[i]]
    BY DEF Image
  <1> QED BY <1>3, <1>4, <1>5

----------------------------------------------------------------------------
\* The packet that SendData queues is the next one of the firmware.
LEMMA NextPacket ==
    ASSUME TypeOK, AdrInv, start = 6
    PROVE  /\ fw \in 1..2 /\ adr + 2 \in 2..Size[fw] + 2
           /\ Image(fw)[adr + 2] \in Packet
           /\ Image(fw)[adr + 2] =
                  IF adr >= Size[fw] THEN EndPacket(adr - 1) ELSE Block(fw, adr)
  <1>1. fw \in 1..2 /\ adr \in Nat /\ adr <= Size[fw] /\ Size[fw] \in Nat \ {0}
    BY OtaAssumption DEF TypeOK, AdrInv
  <1>2. CASE adr >= Size[fw]
    <2>1. adr = Size[fw] /\ adr - 1 \in Nat
      BY <1>1, <1>2
    <2>2. EndPacket(adr - 1) \in Packet
      BY <2>1 DEF Packet
    <2> QED BY <1>1, <1>2, <2>1, <2>2, ImagePackets
  <1>3. CASE adr < Size[fw]
    <2>1. Block(fw, adr) \in Packet
      BY <1>1 DEF Packet
    <2>2. adr \in 0..Size[fw] - 1 /\ ~(adr >= Size[fw])
      BY <1>1, <1>3
    <2> QED BY <1>1, <2>1, <2>2, ImagePackets
  <1> QED BY <1>1, <1>2, <1>3

\* How many packets there are in an update.
LEMMA SentBounds ==
    ASSUME TypeOK, AdrInv, start >= 5
    PROVE  Sent \in 1..Size[fw] + 2 /\ fw \in 1..2 /\ Size[fw] \in Nat
  BY OtaAssumption DEF TypeOK, AdrInv, Sent

LEMMA TriggerStep ==
    ASSUME IInv, NEW k \in 1..2, Trigger(k)
    PROVE  IInv'
  <1>1. TypeOK'
    BY DEF IInv, TypeOK, Trigger, air
  <1>2. SeqInv' /\ LinkInv' /\ AdrInv' /\ StreamInv' /\ HandleOfThisSlave'
    BY DEF IInv, SeqInv, LinkInv, AdrInv, StreamInv, HandleOfThisSlave, Sent, Trigger,
       air
  <1> QED BY <1>1, <1>2 DEF IInv

LEMMA GiveUpStep ==
    ASSUME IInv, GiveUp
    PROVE  IInv'
  <1>1. TypeOK'
    BY DEF IInv, TypeOK, GiveUp, SetResult, Polls
  <1>2. LinkInv'
    BY DEF IInv, LinkInv, GiveUp, SetResult, Polls
  <1>3. AdrInv'
    BY DEF IInv, AdrInv, GiveUp, SetResult, Polls
  <1>4. StreamInv'
    BY DEF IInv, StreamInv, Sent, GiveUp, SetResult, Polls
  <1>5. HandleOfThisSlave'
    BY DEF IInv, HandleOfThisSlave, GiveUp, SetResult, Polls
  <1>6. SeqInv'
    BY DEF IInv, SeqInv, GiveUp, SetResult, Polls
  <1> QED BY <1>1, <1>2, <1>3, <1>4, <1>5, <1>6 DEF IInv

LEMMA IdleStep ==
    ASSUME IInv, Idle
    PROVE  IInv'
  <1>1. TypeOK'
    BY DEF IInv, TypeOK, Idle, Polls, ota
  <1>2. LinkInv'
    BY DEF IInv, LinkInv, Idle, Polls, ota
  <1>3. SeqInv' /\ AdrInv' /\ StreamInv' /\ HandleOfThisSlave'
    BY DEF IInv, SeqInv, AdrInv, StreamInv, HandleOfThisSlave, Sent, Idle, Polls, ota
  <1> QED BY <1>1, <1>2, <1>3 DEF IInv

LEMMA BeginStep ==
    ASSUME IInv, Begin
    PROVE  IInv'
  <1>1. TypeOK'
    BY OtaAssumption DEF IInv, TypeOK, Begin, SetResult, Polls
  <1>2. LinkInv'
    BY DEF IInv, LinkInv, Begin, SetResult, Polls
  <1>3. AdrInv'
    BY DEF IInv, AdrInv, Begin, SetResult, Polls
  <1>4. StreamInv'
    BY DEF IInv, StreamInv, Sent, Begin, SetResult, Polls
  <1>5. HandleOfThisSlave'
    BY DEF IInv, HandleOfThisSlave, Begin, SetResult, Polls
  <1>6. SeqInv'
    BY DEF IInv, SeqInv, Begin, SetResult, Polls
  <1> QED BY <1>1, <1>2, <1>3, <1>4, <1>5, <1>6 DEF IInv

LEMMA WaitStep ==
    ASSUME IInv, NEW over \in BOOLEAN, conn # 0, Wait(over)
    PROVE  IInv'
  <1>1. TypeOK'
    BY OtaAssumption DEF IInv, TypeOK, Wait, Polls
  <1>2. LinkInv'
    BY DEF IInv, LinkInv, Wait, Polls
  <1>3. AdrInv'
    BY OtaAssumption DEF IInv, AdrInv, TypeOK, Wait, Polls
  <1>4. StreamInv'
    BY <1>1 DEF IInv, StreamInv, Sent, AdrInv, TypeOK, Wait, Polls
  <1>5. HandleOfThisSlave'
    BY DEF IInv, HandleOfThisSlave, Wait, Polls
  <1>6. SeqInv'
    BY DEF IInv, SeqInv, Wait, Polls
  <1> QED BY <1>1, <1>2, <1>3, <1>4, <1>5, <1>6 DEF IInv

LEMMA AskHandleStep ==
    ASSUME IInv, NEW ok \in BOOLEAN, conn # 0, AskHandle(ok)
    PROVE  IInv'
  <1>1. TypeOK'
    BY DEF IInv, TypeOK, AskHandle
  <1>2. LinkInv'
    BY DEF IInv, LinkInv, AskHandle
  <1>3. AdrInv'
    BY DEF IInv, AdrInv, AskHandle
  <1>4. StreamInv'
    BY DEF IInv, StreamInv, Sent, AskHandle
  <1>5. HandleOfThisSlave'
    BY DEF IInv, HandleOfThisSlave, AskHandle
  <1>6. SeqInv'
    BY DEF IInv, SeqInv, AskHandle
  <1> QED BY <1>1, <1>2, <1>3, <1>4, <1>5, <1>6 DEF IInv

LEMMA SendStartStep ==
    ASSUME IInv, NEW ok \in BOOLEAN, conn # 0, SendStart(ok)
    PROVE  IInv'
  <1>1. TypeOK'
    BY OtaAssumption DEF IInv, TypeOK, SendStart, Polls
  <1>2. SeqInv'
    <2>1. StartPacket \in Packet
      BY DEF Packet
    <2> QED BY <2>1 DEF IInv, SeqInv, SendStart, Polls
  <1>3. LinkInv'
    BY DEF IInv, LinkInv, SendStart, Polls
  <1>4. AdrInv'
    BY DEF IInv, AdrInv, SendStart, Polls
  <1>5. StreamInv'
    <2> SUFFICES ASSUME ok
                 PROVE  Stream(tx', got', Image(fw'), 1) /\ Sent' = 1
      BY DEF StreamInv, IInv, TypeOK, SendStart, Polls
    <2>1. fw \in 1..2 /\ Image(fw)[0 + 1] = StartPacket /\ StartPacket \in Packet
      BY ImagePackets DEF IInv, TypeOK, Packet
    <2>2. tx \in Seq(Packet) /\ got \in Seq(Packet) /\ Stream(tx, got, Image(fw), 0)
      BY DEF IInv, SeqInv, Stream, Queued
    <2>3. Stream(Append(tx, Image(fw)[0 + 1]), got, Image(fw), 0 + 1)
      BY <2>1, <2>2, QueuePacket
    <2>4. tx' = Append(tx, StartPacket) /\ got' = got /\ fw' = fw /\ start' = 5
      BY DEF SendStart, Polls
    <2> QED BY <2>1, <2>3, <2>4 DEF Sent
  <1>6. HandleOfThisSlave'
    BY DEF IInv, HandleOfThisSlave, SendStart, Polls
  <1> QED BY <1>1, <1>2, <1>3, <1>4, <1>5, <1>6 DEF IInv

LEMMA SendDataStep ==
    ASSUME IInv, NEW ok \in BOOLEAN, conn # 0, SendData(ok)
    PROVE  IInv'
  <1>1. TypeOK'
    <2>1. Len(tx') <= Queue
      BY OtaAssumption DEF IInv, TypeOK, SeqInv, SendData, Polls
    <2>2. adr' \in Nat /\ adr' <= Size[fw] + 1
      BY OtaAssumption DEF IInv, TypeOK, AdrInv, SendData, Polls
    <2> QED BY <2>1, <2>2 DEF IInv, TypeOK, SendData, Polls
  <1>2. SeqInv'
    <2>1. start = 6 /\ (tx' = tx \/ tx' = Append(tx, Image(fw)[adr + 2])) /\ got' = got
      BY NextPacket DEF IInv, SendData, Polls
    <2>2. Image(fw)[adr + 2] \in Packet
      BY <2>1, NextPacket DEF IInv
    <2>3. tx \in Seq(Packet) /\ got \in Seq(Packet)
      BY DEF IInv, SeqInv
    <2> QED BY <2>1, <2>2, <2>3 DEF SeqInv
  <1>3. LinkInv'
    BY DEF IInv, LinkInv, SendData, Polls
  <1>4. AdrInv'
    BY OtaAssumption DEF IInv, AdrInv, TypeOK, SendData, Polls
  <1>5. StreamInv'
    <2>1. CASE ~ok
      BY <2>1 DEF IInv, StreamInv, Sent, SendData, Polls
    <2>2. CASE ok
      <3>1. PICK n \in Nat : n = adr + 1
        BY DEF IInv, TypeOK
      <3>2. /\ tx \in Seq(Packet) /\ got \in Seq(Packet) /\ start = 6
            /\ Stream(tx, got, Image(fw), n)
        BY <3>1 DEF IInv, SeqInv, StreamInv, Sent, SendData
      <3>3. n + 1 = adr + 2 /\ Image(fw)[n + 1] \in Packet
        BY <3>1, <3>2, NextPacket DEF IInv, TypeOK
      <3>4. Stream(Append(tx, Image(fw)[n + 1]), got, Image(fw), n + 1)
        BY <3>2, <3>3, QueuePacket
      <3>5. tx' = Append(tx, Image(fw)[n + 1]) /\ got' = got /\ fw' = fw
        BY <2>2, <3>2, <3>3, NextPacket DEF IInv, SendData, Polls
      <3>6. Sent' = n + 1
        <4>1. CASE adr >= Size[fw]
          BY <2>2, <3>1, <4>1, OtaAssumption, SMTT(20)
          DEF IInv, TypeOK, AdrInv, SendData, Sent
        <4>2. CASE ~(adr >= Size[fw])
          BY <2>2, <3>1, <4>2 DEF IInv, TypeOK, SendData, Sent
        <4> QED BY <4>1, <4>2
      <3> QED BY <3>4, <3>5, <3>6 DEF StreamInv
    <2> QED BY <2>1, <2>2
  <1>6. HandleOfThisSlave'
    BY DEF IInv, HandleOfThisSlave, SendData, Polls
  <1> QED BY <1>1, <1>2, <1>3, <1>4, <1>5, <1>6 DEF IInv

LEMMA HoldBackStep ==
    ASSUME IInv, conn # 0, HoldBack
    PROVE  IInv'
  <1>1. TypeOK'
    BY DEF IInv, TypeOK, HoldBack, Polls, ota
  <1>2. LinkInv'
    BY DEF IInv, LinkInv, HoldBack, Polls, ota
  <1>3. SeqInv' /\ AdrInv' /\ StreamInv' /\ HandleOfThisSlave'
    BY DEF IInv, SeqInv, AdrInv, StreamInv, HandleOfThisSlave, Sent, HoldBack, Polls,
       ota
  <1> QED BY <1>1, <1>2, <1>3 DEF IInv

LEMMA FinishStep ==
    ASSUME IInv, conn # 0, Finish
    PROVE  IInv'
  <1>1. TypeOK'
    BY DEF IInv, TypeOK, Finish, SetResult, Polls
  <1>2. LinkInv'
    BY DEF IInv, LinkInv, Finish, SetResult, Polls
  <1>3. AdrInv'
    BY DEF IInv, AdrInv, Finish, SetResult, Polls
  <1>4. StreamInv'
    BY DEF IInv, StreamInv, Sent, Finish, SetResult, Polls
  <1>5. HandleOfThisSlave'
    BY DEF IInv, HandleOfThisSlave, Finish, SetResult, Polls
  <1>6. SeqInv'
    BY DEF IInv, SeqInv, Finish, SetResult, Polls
  <1> QED BY <1>1, <1>2, <1>3, <1>4, <1>5, <1>6 DEF IInv

LEMMA UpdateForOtaStep ==
    ASSUME IInv, NEW ok \in BOOLEAN, UpdateForOta(ok)
    PROVE  IInv'
  <1>1. TypeOK'
    BY DEF IInv, TypeOK, UpdateForOta
  <1>2. LinkInv'
    BY DEF IInv, LinkInv, UpdateForOta
  <1>3. SeqInv' /\ AdrInv' /\ StreamInv' /\ HandleOfThisSlave'
    BY DEF IInv, SeqInv, AdrInv, StreamInv, HandleOfThisSlave, Sent, UpdateForOta
  <1> QED BY <1>1, <1>2, <1>3 DEF IInv

LEMMA UpdateForSlaveStep ==
    ASSUME IInv, UpdateForSlave
    PROVE  IInv'
  <1>1. TypeOK'
    BY DEF IInv, TypeOK, UpdateForSlave, ota
  <1>2. LinkInv'
    BY DEF IInv, LinkInv, UpdateForSlave, ota
  <1>3. SeqInv' /\ AdrInv' /\ StreamInv' /\ HandleOfThisSlave'
    BY DEF IInv, SeqInv, AdrInv, StreamInv, HandleOfThisSlave, Sent, UpdateForSlave, ota
  <1> QED BY <1>1, <1>2, <1>3 DEF IInv

LEMMA UpdateCompleteStep ==
    ASSUME NEW same \in BOOLEAN, IInv, UpdateComplete(same)
    PROVE  IInv'
  <1>1. TypeOK'
    BY DEF IInv, TypeOK, UpdateComplete
  <1>2. LinkInv'
    BY DEF IInv, LinkInv, TypeOK, UpdateComplete
  <1>3. AdrInv'
    BY DEF IInv, AdrInv, UpdateComplete
  <1>4. StreamInv'
    BY DEF IInv, StreamInv, Sent, UpdateComplete
  <1>5. HandleOfThisSlave'
    BY DEF IInv, HandleOfThisSlave, UpdateComplete
  <1>6. SeqInv'
    BY DEF IInv, SeqInv, UpdateComplete
  <1> QED BY <1>1, <1>2, <1>3, <1>4, <1>5, <1>6 DEF IInv

LEMMA HandleAnswerStep ==
    ASSUME IInv, HandleAnswer
    PROVE  IInv'
  <1>1. TypeOK'
    <2>1. {polled', busy', req', asked'} \subseteq BOOLEAN
      BY DEF IInv, TypeOK, HandleAnswer
    <2>2. start' \in 0..7 /\ otaHandle' \in 0..2 /\ (start' >= 5 => start >= 5 /\ start # 3)
      BY DEF IInv, TypeOK, HandleAnswer
    <2>3. pending' # 0 => start' = 1
      BY DEF IInv, TypeOK, HandleAnswer
    <2> QED BY <2>1, <2>2, <2>3 DEF IInv, TypeOK, HandleAnswer
  <1>2. LinkInv'
    BY DEF IInv, LinkInv, HandleAnswer
  <1>3. AdrInv'
    BY DEF IInv, AdrInv, HandleAnswer
  <1>4. StreamInv'
    BY DEF IInv, StreamInv, Sent, HandleAnswer
  <1>5. HandleOfThisSlave'
    BY DEF IInv, HandleOfThisSlave, HandleAnswer
  <1>6. SeqInv'
    BY DEF IInv, SeqInv, HandleAnswer
  <1> QED BY <1>1, <1>2, <1>3, <1>4, <1>5, <1>6 DEF IInv

LEMMA HandleRefusedStep ==
    ASSUME IInv, HandleRefused
    PROVE  IInv'
  <1>1. TypeOK'
    BY DEF IInv, TypeOK, HandleRefused, ota
  <1>2. LinkInv'
    BY DEF IInv, LinkInv, HandleRefused, ota
  <1>3. SeqInv' /\ AdrInv' /\ StreamInv' /\ HandleOfThisSlave'
    BY DEF IInv, SeqInv, AdrInv, StreamInv, HandleOfThisSlave, Sent, HandleRefused, ota
  <1> QED BY <1>1, <1>2, <1>3 DEF IInv

LEMMA DeliverStep ==
    ASSUME IInv, Deliver
    PROVE  IInv'
  <1>1. TypeOK'
    <2>1. Len(tx') <= Queue
      <3>1. tx \in Seq(Packet) /\ Len(tx) <= Queue /\ tx # <<>>
        BY DEF IInv, SeqInv, TypeOK, Deliver
      <3>2. Len(Tail(tx)) = Len(tx) - 1 /\ Len(tx) \in Nat
        BY <3>1
      <3> QED BY <3>1, <3>2, OtaAssumption DEF Deliver
    <2> QED BY <2>1 DEF IInv, TypeOK, Deliver, ota
  <1>2. SeqInv'
    <2>1. StartPacket \in Packet
      BY DEF Packet
    <2>2. tx \in Seq(Packet) /\ got \in Seq(Packet) /\ tx # <<>>
      BY DEF IInv, SeqInv, Deliver
    <2>3. Head(tx) \in Packet /\ Tail(tx) \in Seq(Packet)
      BY <2>2
    <2> QED BY <2>1, <2>2, <2>3 DEF SeqInv, Deliver
  <1>3. StreamInv'
    <2> SUFFICES ASSUME conn # 0, start >= 5
                 PROVE  Stream(tx', got', Image(fw), Sent)
      BY DEF StreamInv, Sent, Deliver, ota
    <2>1. Sent \in 1..Size[fw] + 2 /\ fw \in 1..2 /\ Size[fw] \in Nat
      BY SentBounds DEF IInv
    <2>2. /\ tx \in Seq(Packet) /\ got \in Seq(Packet) /\ tx # <<>>
          /\ Stream(tx, got, Image(fw), Sent)
      BY DEF IInv, SeqInv, StreamInv, Deliver
    <2>3. /\ Image(fw)[1] = StartPacket
          /\ \A i \in 2..Sent : Image(fw)[i] # StartPacket
      BY <2>1, ImagePackets
    <2>4. Sent \in Nat \ {0}
      BY <2>1
    <2> QED BY <2>2, <2>3, <2>4, DeliverPacket DEF Deliver
  <1>4. LinkInv' /\ AdrInv' /\ HandleOfThisSlave'
    BY DEF IInv, LinkInv, AdrInv, HandleOfThisSlave, Deliver, ota
  <1> QED BY <1>1, <1>2, <1>3, <1>4 DEF IInv

LEMMA LinkDownStep ==
    ASSUME IInv, LinkDown
    PROVE  IInv'
  <1>1. TypeOK'
    <2>1. tx' = <<>> /\ Len(tx') = 0 /\ Len(tx') <= Queue
      BY OtaAssumption DEF LinkDown
    <2>2. /\ polled' \in BOOLEAN /\ busy' \in BOOLEAN /\ req' \in BOOLEAN
          /\ asked' \in BOOLEAN
      BY DEF LinkDown
    <2>3. conn' \in 0..2 /\ upd' \in {"none", "ota", "slave"}
      BY DEF LinkDown
    <2> QED BY <2>1, <2>2, <2>3 DEF IInv, TypeOK, LinkDown, ota
  <1>2. SeqInv'
    BY DEF IInv, SeqInv, LinkDown, ota
  <1>3. LinkInv'
    BY DEF IInv, LinkInv, LinkDown, ota
  <1>4. StreamInv'
    BY DEF IInv, StreamInv, Sent, LinkDown, ota
  <1>5. HandleOfThisSlave'
    BY DEF IInv, HandleOfThisSlave, LinkDown, ota
  <1>6. AdrInv'
    BY DEF IInv, AdrInv, LinkDown, ota
  <1> QED BY <1>1, <1>2, <1>3, <1>4, <1>5, <1>6 DEF IInv

LEMMA LinkUpStep ==
    ASSUME IInv, NEW discover \in BOOLEAN, LinkUp(discover)
    PROVE  IInv'
  <1>1. TypeOK'
    BY DEF IInv, TypeOK, LinkUp, ota
  <1>2. SeqInv'
    BY DEF IInv, SeqInv, LinkUp, ota
  <1>3. LinkInv'
    BY DEF IInv, LinkInv, LinkUp, ota
  <1>4. StreamInv'
    BY DEF IInv, StreamInv, Sent, LinkInv, TypeOK, LinkUp, ota
  <1>5. HandleOfThisSlave'
    BY DEF IInv, HandleOfThisSlave, LinkInv, LinkUp, ota
  <1>6. AdrInv'
    BY DEF IInv, AdrInv, LinkUp, ota
  <1> QED BY <1>1, <1>2, <1>3, <1>4, <1>5, <1>6 DEF IInv

LEMMA DiscoveryEndsStep ==
    ASSUME IInv, DiscoveryEnds
    PROVE  IInv'
  <1>1. TypeOK'
    BY DEF IInv, TypeOK, DiscoveryEnds, ota
  <1>2. SeqInv' /\ LinkInv' /\ AdrInv' /\ StreamInv' /\ HandleOfThisSlave'
    BY DEF IInv, SeqInv, LinkInv, AdrInv, StreamInv, HandleOfThisSlave, Sent,
       DiscoveryEnds, ota
  <1> QED BY <1>1, <1>2 DEF IInv

LEMMA ParamRequestStep ==
    ASSUME IInv, ParamRequest
    PROVE  IInv'
  <1>1. TypeOK'
    BY DEF IInv, TypeOK, ParamRequest, ota
  <1>2. SeqInv' /\ LinkInv' /\ AdrInv' /\ StreamInv' /\ HandleOfThisSlave'
    BY DEF IInv, SeqInv, LinkInv, AdrInv, StreamInv, HandleOfThisSlave, Sent,
       ParamRequest, ota
  <1> QED BY <1>1, <1>2 DEF IInv

\* Finish, the only step that reports success, finds the whole image received.
LEMMA FinishComplete ==
    ASSUME IInv, conn # 0, Finish
    PROVE  got = Image(fw)
  <1>1. fw \in 1..2 /\ got \in Seq(Packet)
    BY DEF IInv, TypeOK, SeqInv
  <1>2. Stream(<<>>, got, Image(fw), Size[fw] + 2)
    BY DEF IInv, StreamInv, Sent, Finish
  <1> QED BY <1>1, <1>2, AllReceived

LEMMA PollStep ==
    ASSUME IInv, Poll
    PROVE  IInv'
  <1>1. PICK late \in BOOLEAN :
            (MustGiveUp(late) /\ GiveUp) \/ (~MustGiveUp(late) /\ Continue)
    BY DEF Poll
  <1>2. CASE MustGiveUp(late) /\ GiveUp
    BY <1>2, GiveUpStep
  <1>3. CASE ~MustGiveUp(late) /\ Continue
    <2>1. conn # 0 \/ start = 0
      BY <1>3 DEF MustGiveUp
    <2>2. CASE Idle \/ Begin
      BY <2>2, IdleStep, BeginStep
    <2>3. CASE \E over \in BOOLEAN : Wait(over)
      BY <2>1, <2>3, WaitStep DEF Wait
    <2>4. CASE \E ok \in BOOLEAN : AskHandle(ok) \/ SendStart(ok) \/ SendData(ok)
      <3>1. PICK ok \in BOOLEAN : AskHandle(ok) \/ SendStart(ok) \/ SendData(ok)
        BY <2>4
      <3>2. start # 0
        BY <3>1 DEF AskHandle, SendStart, SendData
      <3> QED BY <2>1, <3>1, <3>2, AskHandleStep, SendStartStep, SendDataStep
    <2>5. CASE HoldBack \/ Finish
      BY <2>1, <2>5, HoldBackStep, FinishStep DEF HoldBack, Finish
    <2> QED BY <1>3, <2>2, <2>3, <2>4, <2>5 DEF Continue
  <1> QED BY <1>1, <1>2, <1>3

----------------------------------------------------------------------------

\* What was sent, is queued and was received fit together in every reachable state.
THEOREM Invariant == Spec => []IInv
  <1>1. Init => IInv
    <2> SUFFICES ASSUME Init
                 PROVE  IInv
      OBVIOUS
    <2>1. tx \in Seq(Packet) /\ got \in Seq(Packet) /\ Len(tx) = 0
      BY DEF Init
    <2>2. /\ polled \in BOOLEAN /\ busy \in BOOLEAN /\ req \in BOOLEAN
          /\ asked \in BOOLEAN
      BY DEF Init
    <2>3. result[1] = "none" /\ result[2] = 0
      BY DEF Init
    <2>4. TypeOK
      BY <2>1, <2>2, <2>3, OtaAssumption DEF Init, TypeOK
    <2> QED BY <2>1, <2>4 DEF Init, IInv, SeqInv, LinkInv, AdrInv, StreamInv, HandleOfThisSlave
  <1>2. IInv /\ [Next]_vars => IInv'
    <2> SUFFICES ASSUME IInv, [Next]_vars
                 PROVE  IInv'
      OBVIOUS
    <2>1. CASE UNCHANGED vars
      BY <2>1 DEF vars, ota, air, IInv, TypeOK, SeqInv, LinkInv, AdrInv, StreamInv, Sent,
         HandleOfThisSlave
    <2>2. CASE Next
      BY <2>2, TriggerStep, PollStep, UpdateForOtaStep, UpdateForSlaveStep, UpdateCompleteStep,
         HandleAnswerStep, HandleRefusedStep, DeliverStep, LinkDownStep, LinkUpStep,
         DiscoveryEndsStep, ParamRequestStep DEF Next
    <2> QED BY <2>1, <2>2
  <1> QED BY <1>1, <1>2, PTL DEF Spec

\* The types of the variables; no parameter update outlives its firmware update.
THEOREM TypeCorrect == Spec => []TypeOK
  BY Invariant, PTL DEF IInv

\* The firmware goes to a handle that was read from the slave it is sent to.
THEOREM HandleIsOfThisSlave == Spec => []HandleOfThisSlave
  BY Invariant, PTL DEF IInv

\* When success is reported the slave has received the start command, every block
\* of the firmware in order, and the end.
THEOREM SuccessIsReceived == Spec => SuccessMeansReceived
  <1> DEFINE Received == start # 0 /\ start' = 0 /\ result'[1] = "ok" => got = Image(fw)
  <1>1. IInv /\ [Next]_vars => [Received]_vars
    <2> SUFFICES ASSUME IInv, Next, start # 0, start' = 0, result'[1] = "ok"
                 PROVE  got = Image(fw)
      OBVIOUS
    <2>1. Poll
      BY DEF Next, Trigger, UpdateForOta, UpdateForSlave, UpdateComplete, HandleAnswer,
         HandleRefused, Deliver, LinkDown, LinkUp, DiscoveryEnds, ParamRequest, ota
    <2>2. ~GiveUp
      BY DEF GiveUp, SetResult
    <2>3. conn # 0 /\ Continue
      BY <2>1, <2>2 DEF Poll, MustGiveUp
    <2>4. Finish
      BY <2>3 DEF Continue, Idle, Begin, Wait, AskHandle, SendStart, SendData, HoldBack, ota
    <2> QED BY <2>3, <2>4, FinishComplete
  <1> QED BY Invariant, <1>1, PTL DEF Spec, SuccessMeansReceived
=============================================================================
