---------------------------- MODULE VitaTxProofs ----------------------------
(***************************************************************************)
(* Proofs about VitaTx for every number of slots, packet size, timestamp   *)
(* unit, burst and set of rates: every packet a client gets is counted and *)
(* stamped by the index of its first sample, and, when the socket takes    *)
(* every Context packet, the change indicator tells the client the truth.  *)
(***************************************************************************)
EXTENDS VitaTx, TLAPS

-----------------------------------------------------------------------------
(* Division                                                                *)

(* Quotient and remainder.                                                 *)
LEMMA DivMod ==
    ASSUME NEW a \in Nat, NEW b \in Nat \ {0}
    PROVE  a \div b \in Nat /\ a % b \in 0 .. b - 1 /\ a = b * (a \div b) + (a % b)
  OBVIOUS

(* A product grows with its factor.                                        *)
LEMMA TimesMonotonic ==
    ASSUME NEW b \in Nat, NEW p \in Int, NEW q \in Int, p <= q
    PROVE  b * p <= b * q
  OBVIOUS

(* There is one quotient and one remainder.                                *)
LEMMA DivModUnique ==
    ASSUME NEW a \in Nat, NEW b \in Nat \ {0}, NEW q \in Nat, NEW r \in 0 .. b - 1,
           a = b * q + r
    PROVE  q = a \div b /\ r = a % b
<1> DEFINE p == a \div b
<1>1. p \in Nat /\ a % b \in 0 .. b - 1 /\ a = b * p + (a % b)
  BY DivMod, Zenon
<1>2. CASE p >= q + 1
  <2>1. b * (q + 1) <= b * p
    BY <1>1, <1>2, TimesMonotonic
  <2>2. b * (q + 1) = b * q + b
    OBVIOUS
  <2> QED
    BY <1>1, <2>1, <2>2
<1>3. CASE q >= p + 1
  <2>1. b * (p + 1) <= b * q
    BY <1>1, <1>3, TimesMonotonic
  <2>2. b * (p + 1) = b * p + b
    BY <1>1
  <2> QED
    BY <1>1, <2>1, <2>2
<1>4. CASE p = q
  BY <1>1, <1>4
<1> QED
  BY <1>1, <1>2, <1>3, <1>4

(* Seconds and fraction, rounded once, are the time rounded once.          *)
LEMMA StampSplits ==
    ASSUME NEW sc \in Nat, NEW r \in Nat \ {0}, NEW u \in Nat \ {0}
    PROVE  (sc \div r) * u + (((sc % r) * u) \div r) = (sc * u) \div r
<1> DEFINE q == sc \div r
           m == sc % r
           p == (m * u) \div r
           e == (m * u) % r
<1>1. q \in Nat /\ m \in Nat /\ sc = r * q + m
  BY DivMod
<1>2. m * u \in Nat /\ sc * u \in Nat /\ q * u \in Nat
  BY <1>1
<1>3. p \in Nat /\ e \in 0 .. r - 1 /\ m * u = r * p + e
  BY <1>2, DivMod, Zenon
<1> HIDE DEF q, m, p, e
<1>4. sc * u = r * (q * u) + m * u
  BY <1>1
<1>5. q * u + p \in Nat /\ r * (q * u) + r * p = r * (q * u + p)
  BY <1>2, <1>3
<1>6. sc * u = r * (q * u + p) + e
  BY <1>2, <1>3, <1>4, <1>5
<1>7. q * u + p = (sc * u) \div r
  BY <1>2, <1>3, <1>5, <1>6, DivModUnique, Zenon
<1> QED
  BY <1>7 DEF q, m, p, e

(* The packet count, kept modulo CountMod, is the packet's index modulo    *)
(* CountMod.                                                               *)
LEMMA CountSplits ==
    ASSUME NEW t \in Nat, t % Spp = 0, NEW k \in Nat
    PROVE  /\ t + k * Spp \in Nat /\ (t + k * Spp) % Spp = 0
           /\ (((t \div Spp) % CountMod) + k) % CountMod
                = ((t + k * Spp) \div Spp) % CountMod
<1> DEFINE q == t \div Spp
           a == q \div CountMod
           b == q % CountMod
           c == (b + k) \div CountMod
           d == (b + k) % CountMod
<1>0. Spp \in Nat \ {0} /\ CountMod \in Nat \ {0}
  BY TxAssumption
<1>1. q \in Nat /\ t = Spp * q
  BY <1>0, DivMod
<1>2. t + k * Spp \in Nat /\ t + k * Spp = Spp * (q + k) + 0 /\ q + k \in Nat
  <2> HIDE DEF q
  <2> QED
    BY <1>0, <1>1
<1>3. q + k = (t + k * Spp) \div Spp /\ 0 = (t + k * Spp) % Spp
  <2>1. 0 \in 0 .. Spp - 1
    BY <1>0
  <2> HIDE DEF q
  <2> QED
    BY <1>0, <1>2, <2>1, DivModUnique
<1>4. a \in Nat /\ b \in Nat /\ q = CountMod * a + b
  <2> HIDE DEF q
  <2> QED
    BY <1>0, <1>1, DivMod
<1>5. c \in Nat /\ d \in 0 .. CountMod - 1 /\ b + k = CountMod * c + d
  <2> HIDE DEF b
  <2>1. b + k \in Nat
    BY <1>4
  <2> QED
    BY <1>0, <2>1, DivMod, Zenon
<1>6. d = (q + k) % CountMod
  <2> HIDE DEF q, a, b, c, d
  <2>1. q + k \in Nat /\ a + c \in Nat /\ q + k = CountMod * (a + c) + d
    BY <1>0, <1>2, <1>4, <1>5
  <2> QED
    BY <1>0, <1>5, <2>1, DivModUnique
<1> QED
  BY <1>2, <1>3, <1>6

-----------------------------------------------------------------------------
(* One slot                                                                *)

Words == PayloadWords \cup {"none"}
SlotRecords ==
    [active : BOOLEAN, pf : Words, if_count : 0 .. CountMod - 1,
     ctx_count : 0 .. CountMod - 1, ctx_sent : BOOLEAN, last_ref : Int,
     last_pf : Words, samples : Nat, rate : Rates \cup {0}]
Contexts == {<<>>} \cup (Int \X Words)
DataSeen == {<<>>} \cup (Nat \X [count : Nat, stamp : Nat \X Nat])
HeardRecords == [ctx : Contexts, marked : BOOLEAN, data : DataSeen, taken : Nat]

(* The packet whose first sample has this index in a stream at rate r.     *)
PacketAt(index, r) ==
    [count |-> (index \div Spp) % CountMod, stamp |-> Stamp(index, r)]

(* The invariant of a slot v and of what its client has: whatever the      *)
(* socket took, the counters follow the samples taken from the tuner, and  *)
(* the packet the client has is the one of its index.                      *)
SlotInv(v, h) ==
    /\ v \in SlotRecords /\ h \in HeardRecords
    /\ h.taken <= MaxSamples
    /\ ~v.active => v = Inactive /\ h = Silence
    /\ v.active => /\ v.rate \in Rates
                   /\ v.samples = h.taken
                   /\ h.taken % Spp = 0
                   /\ v.if_count = (h.taken \div Spp) % CountMod
    /\ h.data # <<>> => \E index \in Nat : h.data = <<index, PacketAt(index, v.rate)>>

(* When the socket takes every Context packet, the slot remembers what the *)
(* client has.                                                             *)
ContextInv(v, h) ==
    v.active /\ ContextEnabled => v.ctx_sent /\ h.ctx = <<v.last_ref, v.last_pf>>

(* The Reference Level is a number.                                        *)
LEMMA RefWordNumber == \A g \in Gains : RefWord(g) \in Int
<1> SUFFICES ASSUME NEW g \in Gains PROVE RefWord(g) \in Int
  OBVIOUS
<1>1. g \in Int
  BY TxAssumption
<1> QED
  BY <1>1 DEF RefWord

(* A timestamp is a pair of natural numbers.                               *)
LEMMA StampFits ==
    ASSUME NEW sc \in Nat, NEW r \in Rates PROVE Stamp(sc, r) \in Nat \X Nat
<1>1. r \in Nat \ {0} /\ Second \in Nat \ {0}
  BY TxAssumption
<1>2. sc \div r \in Nat /\ sc % r \in Nat
  <2>1. \A a \in Nat, b \in Nat \ {0} : a \div b \in Nat /\ a % b \in Nat
    BY DivMod
  <2> QED
    BY <1>1, <2>1, Zenon
<1>3. (sc % r) * Second \in Nat
  BY <1>1, <1>2
<1>4. ((sc % r) * Second) \div r \in Nat
  BY <1>1, <1>3, DivMod, Zenon
<1> QED
  BY <1>2, <1>4 DEF Stamp

(* The packet of an index is well formed.                                  *)
LEMMA PacketFits ==
    ASSUME NEW index \in Nat, NEW r \in Rates
    PROVE  PacketAt(index, r) \in [count : Nat, stamp : Nat \X Nat]
<1>1. Spp \in Nat \ {0} /\ CountMod \in Nat \ {0}
  BY TxAssumption
<1>2. index \div Spp \in Nat
  BY <1>1, DivMod
<1>3. (index \div Spp) % CountMod \in Nat
  BY <1>1, <1>2, DivMod
<1> QED
  BY <1>3, StampFits DEF PacketAt

(* A USB buffer fills whole packets, and one burst sends them all.         *)
LEMMA BurstWhole ==
    ASSUME NEW len \in Buffers
    PROVE  len \in Nat /\ Packets(len) \in Nat /\ Packets(len) * Spp = len
<1> DEFINE q == len \div Spp
<1>1. len \in Nat /\ len % Spp = 0 /\ len <= MaxBurst * Spp
      /\ Spp \in Nat \ {0} /\ MaxBurst \in Nat
  BY TxAssumption, BuffersAssumption
<1>2. q \in Nat /\ len = Spp * q
  BY <1>1, DivMod
<1>3. ~(q > MaxBurst)
  <2> SUFFICES ASSUME q > MaxBurst PROVE FALSE
    OBVIOUS
  <2> HIDE DEF q
  <2>1. Spp * (MaxBurst + 1) <= Spp * q
    BY <1>1, <1>2, TimesMonotonic
  <2>2. Spp * (MaxBurst + 1) = MaxBurst * Spp + Spp
    BY <1>1
  <2> QED
    BY <1>1, <1>2, <2>1, <2>2
<1>4. Packets(len) = q
  BY <1>3 DEF Packets
<1>5. q * Spp = Spp * q
  BY <1>1, <1>2
<1> QED
  BY <1>1, <1>2, <1>4, <1>5

(* The k-th packet of a burst is the one of its index: what was lost       *)
(* before it neither shifts its count nor its stamp.                       *)
LEMMA BurstPacket ==
    ASSUME NEW v, NEW h, SlotInv(v, h), v.active, NEW k \in Nat
    PROVE  /\ h.taken + k * Spp \in Nat /\ (h.taken + k * Spp) % Spp = 0
           /\ DataPacket(v, k) = PacketAt(h.taken + k * Spp, v.rate)
<1>1. /\ h.taken \in Nat /\ h.taken % Spp = 0 /\ v.samples = h.taken
      /\ v.if_count = (h.taken \div Spp) % CountMod
  BY DEF SlotInv, HeardRecords
<1>2. /\ h.taken + k * Spp \in Nat /\ (h.taken + k * Spp) % Spp = 0
      /\ (((h.taken \div Spp) % CountMod) + k) % CountMod
           = ((h.taken + k * Spp) \div Spp) % CountMod
  BY <1>1, CountSplits
<1> QED
  BY <1>1, <1>2 DEF DataPacket, PacketAt

(* A callback keeps the invariant of an active slot, however much of the   *)
(* burst the socket took.                                                  *)
LEMMA BurstKeeps ==
    ASSUME NEW v, NEW h, SlotInv(v, h), v.active, NEW len \in Buffers,
           h.taken + len <= MaxSamples, NEW sent \in 0 .. Packets(len)
    PROVE  SlotInv(Advance(v, Packets(len), sent),
                   [h EXCEPT !.taken = @ + len,
                             !.data = IF sent = 0 THEN @
                                      ELSE <<h.taken + (sent - 1) * Spp,
                                             DataPacket(v, sent - 1)>>])
<1> DEFINE n == Packets(len)
           w == Advance(v, n, sent)
           g == [h EXCEPT !.taken = @ + len,
                          !.data = IF sent = 0 THEN @
                                   ELSE <<h.taken + (sent - 1) * Spp,
                                          DataPacket(v, sent - 1)>>]
<1>1. len \in Nat /\ n \in Nat /\ n * Spp = len
  BY BurstWhole
<1>2. /\ v \in SlotRecords /\ h \in HeardRecords /\ h.taken \in Nat /\ v.rate \in Rates
      /\ v.samples = h.taken /\ v.if_count = (h.taken \div Spp) % CountMod
  BY DEF SlotInv, HeardRecords
<1>3. /\ (h.taken + len) % Spp = 0
      /\ (v.if_count + n) % CountMod = ((h.taken + len) \div Spp) % CountMod
  <2> HIDE DEF n
  <2>1. h.taken % Spp = 0
    BY DEF SlotInv
  <2>2. /\ (h.taken + n * Spp) % Spp = 0
        /\ (((h.taken \div Spp) % CountMod) + n) % CountMod
             = ((h.taken + n * Spp) \div Spp) % CountMod
    BY <1>1, <1>2, <2>1, CountSplits
  <2> QED
    BY <1>1, <1>2, <2>2, Zenon
<1>4. w = [v EXCEPT !.if_count = (v.if_count + n) % CountMod,
                    !.samples = v.samples + n * Spp]
  BY DEF Advance
<1>5. (v.if_count + n) % CountMod \in 0 .. CountMod - 1
  <2>1. v.if_count + n \in Nat /\ CountMod \in Nat \ {0}
    BY <1>1, <1>2, TxAssumption DEF SlotRecords
  <2> QED
    BY <2>1, DivMod, Zenon
<1>6. v.samples + n * Spp \in Nat /\ v.samples + n * Spp = h.taken + len
  BY <1>1, <1>2
<1> HIDE DEF n
<1>7. /\ w \in SlotRecords /\ w.active /\ w.rate = v.rate
      /\ w.samples = h.taken + len
      /\ w.if_count = ((h.taken + len) \div Spp) % CountMod
  BY <1>2, <1>3, <1>4, <1>5, <1>6, Zenon DEF SlotRecords
<1>0. h \in HeardRecords /\ h.taken + len \in Nat
  BY <1>1, <1>2
<1>8. ASSUME sent = 0 PROVE SlotInv(w, g)
  <2>1. g = [h EXCEPT !.taken = h.taken + len, !.data = h.data]
    BY <1>8
  <2> HIDE DEF g
  <2>2. g \in HeardRecords /\ g.taken = h.taken + len /\ g.data = h.data
    BY <1>0, <2>1, Zenon DEF HeardRecords
  <2>3. g.data # <<>> => \E index \in Nat : g.data = <<index, PacketAt(index, w.rate)>>
    BY <1>7, <2>2, Zenon DEF SlotInv
  <2> HIDE DEF w
  <2> QED
    BY <1>2, <1>3, <1>7, <2>2, <2>3, Zenon DEF SlotInv
<1>9. ASSUME sent # 0 PROVE SlotInv(w, g)
  <2> DEFINE index == h.taken + (sent - 1) * Spp
  <2>1. sent - 1 \in Nat
    BY <1>1, <1>9 DEF n
  <2>2. index \in Nat /\ DataPacket(v, sent - 1) = PacketAt(index, v.rate)
    BY <2>1, BurstPacket
  <2>3. PacketAt(index, v.rate) \in [count : Nat, stamp : Nat \X Nat]
    BY <1>2, <2>2, PacketFits
  <2>4. g = [h EXCEPT !.taken = h.taken + len, !.data = <<index, PacketAt(index, v.rate)>>]
    BY <1>9, <2>2, Zenon
  <2> HIDE DEF index, g
  <2>5. /\ g \in HeardRecords /\ g.taken = h.taken + len
        /\ g.data = <<index, PacketAt(index, v.rate)>>
    <3>1. <<index, PacketAt(index, v.rate)>> \in DataSeen
      BY <2>2, <2>3 DEF DataSeen
    <3> QED
      BY <1>0, <2>4, <3>1, Zenon DEF HeardRecords
  <2> HIDE DEF w
  <2> QED
    BY <1>2, <1>3, <1>7, <2>2, <2>5, Zenon DEF SlotInv
<1> QED
  BY <1>8, <1>9 DEF n

(* Sending a Context packet, taken or refused by the socket, keeps it.     *)
LEMMA ContextKeeps ==
    ASSUME NEW v, NEW h, SlotInv(v, h), gain \in Gains
    PROVE  /\ SlotInv(ContextSlot(v), h)
           /\ SlotInv(ContextSlot(v), ContextHeard(v, h))
<1>1. CASE ~v.active \/ ~ContextEnabled
  BY <1>1 DEF ContextSlot, ContextHeard
<1>2. CASE v.active /\ ContextEnabled
  <2> DEFINE w == ContextSlot(v)
             g == ContextHeard(v, h)
  <2>1. /\ v \in SlotRecords /\ h \in HeardRecords /\ RefWord(gain) \in Int
        /\ (v.ctx_count + 1) % CountMod \in 0 .. CountMod - 1
    <3>1. v \in SlotRecords /\ h \in HeardRecords /\ RefWord(gain) \in Int
      BY RefWordNumber DEF SlotInv
    <3>2. v.ctx_count + 1 \in Nat /\ CountMod \in Nat \ {0}
      BY <3>1, TxAssumption DEF SlotRecords
    <3> QED
      BY <3>1, <3>2, DivMod, Zenon
  <2>2. w = [v EXCEPT !.ctx_count = (v.ctx_count + 1) % CountMod, !.ctx_sent = TRUE,
                      !.last_ref = RefWord(gain), !.last_pf = v.pf]
    BY <1>2 DEF ContextSlot
  <2>3. /\ w \in SlotRecords /\ w.active /\ w.rate = v.rate /\ w.samples = v.samples
        /\ w.if_count = v.if_count
    BY <1>2, <2>1, <2>2, Zenon DEF SlotRecords
  <2>4. g = [h EXCEPT !.ctx = <<RefWord(gain), v.pf>>, !.marked = Changed(v)]
    BY <1>2 DEF ContextHeard
  <2>5. Changed(v) \in BOOLEAN
    BY DEF Changed
  <2>6. g \in HeardRecords /\ g.data = h.data /\ g.taken = h.taken
    <3>1. <<RefWord(gain), v.pf>> \in Contexts
      BY <2>1 DEF Contexts, SlotRecords
    <3> QED
      BY <2>1, <2>4, <2>5, <3>1, Zenon DEF HeardRecords
  <2> HIDE DEF w, g
  <2>7. SlotInv(w, h)
    BY <1>2, <2>1, <2>3 DEF SlotInv
  <2>8. SlotInv(w, g)
    BY <1>2, <2>1, <2>3, <2>6 DEF SlotInv
  <2> QED
    BY <2>7, <2>8 DEF w, g
<1> QED
  BY <1>1, <1>2

(* A slot that no stream uses, and one that was just anchored.             *)
LEMMA EmptyAndAnchored ==
    ASSUME rate \in Rates, pf \in PayloadWords
    PROVE  SlotInv(Inactive, Silence) /\ SlotInv(Anchored, Silence) /\ Anchored.active
<1>0. 0 \in 0 .. CountMod - 1
  BY TxAssumption
<1>1. Inactive \in SlotRecords /\ ~Inactive.active
  BY <1>0 DEF Inactive, SlotRecords, Words
<1>2. /\ Anchored \in SlotRecords /\ Anchored.active /\ Anchored.rate = rate
      /\ Anchored.samples = 0 /\ Anchored.if_count = 0
  <2>1. Inactive.samples = 0 /\ Inactive.if_count = 0
    BY DEF Inactive
  <2>2. pf \in Words /\ rate \in Rates \cup {0}
    BY DEF Words
  <2>3. /\ Anchored \in SlotRecords /\ Anchored.active /\ Anchored.rate = rate
        /\ Anchored.samples = Inactive.samples /\ Anchored.if_count = Inactive.if_count
    BY <1>1, <2>2, Zenon DEF Anchored, SlotRecords
  <2> QED
    BY <2>1, <2>3
<1>3. /\ Silence \in HeardRecords /\ Silence.taken = 0 /\ Silence.data = <<>>
  BY DEF Silence, HeardRecords, Contexts, DataSeen
<1>4. 0 % Spp = 0 /\ (0 \div Spp) % CountMod = 0 /\ 0 <= MaxSamples
  <2>1. Spp \in Nat \ {0} /\ CountMod \in Nat \ {0} /\ MaxSamples \in Nat
    BY TxAssumption
  <2>2. 0 \div Spp = 0 /\ 0 % Spp = 0 /\ 0 % CountMod = 0
    BY <2>1
  <2> QED
    BY <2>1, <2>2
<1>5. SlotInv(Inactive, Silence)
  BY <1>1, <1>3, <1>4 DEF SlotInv
<1>6. SlotInv(Anchored, Silence)
  BY <1>2, <1>3, <1>4, Zenon DEF SlotInv
<1> QED
  BY <1>2, <1>5, <1>6

-----------------------------------------------------------------------------
(* The table of slots                                                      *)

(* The invariant of the table: each slot keeps its own.                    *)
TxInv ==
    /\ slots \in [Tokens -> SlotRecords] /\ heard \in [Tokens -> HeardRecords]
    /\ rate \in Rates /\ gain \in Gains /\ pf \in PayloadWords
    /\ \A i \in Tokens : SlotInv(slots[i], heard[i])

(* Every step on the table is a step on each slot by itself.               *)
LEMMA SlotwiseTx ==
    ASSUME DOMAIN slots' = Tokens, DOMAIN heard' = Tokens,
           slots' = [i \in Tokens |-> slots'[i]], heard' = [i \in Tokens |-> heard'[i]],
           rate' \in Rates, gain' \in Gains, pf' \in PayloadWords,
           \A i \in Tokens : SlotInv(slots'[i], heard'[i])
    PROVE  TxInv'
<1>1. \A i \in Tokens : slots'[i] \in SlotRecords /\ heard'[i] \in HeardRecords
  BY DEF SlotInv
<1>2. slots' \in [Tokens -> SlotRecords] /\ heard' \in [Tokens -> HeardRecords]
  BY <1>1
<1> QED
  BY <1>2 DEF TxInv

(* The transmitter starts with every slot empty.                           *)
LEMMA InitTx == Init => TxInv
<1> SUFFICES ASSUME Init PROVE TxInv
  OBVIOUS
<1>1. rate \in Rates /\ gain \in Gains /\ pf \in PayloadWords
  BY DEF Init
<1>2. SlotInv(Inactive, Silence)
  BY <1>1, EmptyAndAnchored
<1>3. Inactive \in SlotRecords /\ Silence \in HeardRecords
  BY <1>2 DEF SlotInv
<1> QED
  BY <1>1, <1>2, <1>3 DEF Init, TxInv

(* Every step keeps TxInv.                                                 *)
LEMMA TxStep == TxInv /\ [Next]_vars => TxInv'
<1> SUFFICES ASSUME TxInv, [Next]_vars PROVE TxInv'
  OBVIOUS
<1>0. /\ slots \in [Tokens -> SlotRecords] /\ heard \in [Tokens -> HeardRecords]
      /\ rate \in Rates /\ gain \in Gains /\ pf \in PayloadWords
      /\ \A i \in Tokens : SlotInv(slots[i], heard[i])
  BY DEF TxInv
<1>1. ASSUME NEW i \in Tokens, SessionAdd(i) PROVE TxInv'
  <2>1. /\ SlotInv(ContextSlot(Anchored), Silence)
        /\ SlotInv(ContextSlot(Anchored), FirstHeard)
    BY <1>0, EmptyAndAnchored, ContextKeeps DEF FirstHeard
  <2>2. PICK h \in {Silence, FirstHeard} : heard' = [heard EXCEPT ![i] = h]
    BY <1>1, Zenon DEF SessionAdd
  <2>3. SlotInv(ContextSlot(Anchored), h)
    BY <2>1, <2>2
  <2>4. slots' = [slots EXCEPT ![i] = ContextSlot(Anchored)] /\ UNCHANGED settings
    BY <1>1 DEF SessionAdd
  <2>5. \A j \in Tokens : SlotInv(slots'[j], heard'[j])
    BY <1>0, <2>2, <2>3, <2>4, Zenon
  <2> QED
    BY <1>0, <2>2, <2>4, <2>5, SlotwiseTx, Zenon DEF settings
<1>2. ASSUME NEW i \in Tokens, SessionRemove(i) PROVE TxInv'
  <2>1. SlotInv(Inactive, Silence)
    BY <1>0, EmptyAndAnchored
  <2>2. /\ slots' = [slots EXCEPT ![i] = Inactive] /\ heard' = [heard EXCEPT ![i] = Silence]
        /\ UNCHANGED settings
    BY <1>2 DEF SessionRemove
  <2>3. \A j \in Tokens : SlotInv(slots'[j], heard'[j])
    BY <1>0, <2>1, <2>2, Zenon
  <2> QED
    BY <1>0, <2>2, <2>3, SlotwiseTx, Zenon DEF settings
<1>3. ASSUME NEW len \in Buffers, Callback(len) PROVE TxInv'
  <2> DEFINE n == Packets(len)
             on == {i \in Tokens : slots[i].active}
  <2>1. PICK sent \in [on -> 0 .. n] :
          /\ slots' = [i \in Tokens |-> IF i \in on THEN Advance(slots[i], n, sent[i])
                                                     ELSE slots[i]]
          /\ heard' = [i \in Tokens |->
                IF i \notin on THEN heard[i]
                ELSE [heard[i] EXCEPT
                        !.taken = @ + len,
                        !.data = IF sent[i] = 0 THEN @
                                 ELSE <<heard[i].taken + (sent[i] - 1) * Spp,
                                        DataPacket(slots[i], sent[i] - 1)>>]]
    BY <1>3, Zenon DEF Callback
  <2>2. UNCHANGED settings /\ \A i \in on : heard[i].taken + len <= MaxSamples
    BY <1>3, Zenon DEF Callback
  <2>3. ASSUME NEW i \in Tokens PROVE SlotInv(slots'[i], heard'[i])
    <3>1. CASE i \in on
      <4>1. /\ slots[i].active /\ SlotInv(slots[i], heard[i])
            /\ sent[i] \in 0 .. Packets(len) /\ heard[i].taken + len <= MaxSamples
        BY <1>0, <2>1, <2>2, <3>1, Zenon
      <4> QED
        BY <2>1, <3>1, <4>1, BurstKeeps, Zenon
    <3>2. CASE i \notin on
      BY <1>0, <2>1, <3>2, Zenon
    <3> QED
      BY <3>1, <3>2
  <2> QED
    BY <1>0, <2>1, <2>2, <2>3, SlotwiseTx, Zenon DEF settings
<1>4. CASE SendContextAll
  <2>1. PICK refused \in SUBSET Tokens :
          heard' = [i \in Tokens |-> IF i \in refused THEN heard[i]
                                     ELSE ContextHeard(slots[i], heard[i])]
    BY <1>4 DEF SendContextAll, Refused
  <2>2. slots' = [i \in Tokens |-> ContextSlot(slots[i])] /\ UNCHANGED settings
    BY <1>4 DEF SendContextAll
  <2>3. \A i \in Tokens : SlotInv(slots'[i], heard'[i])
    BY <1>0, <2>1, <2>2, ContextKeeps
  <2> QED
    BY <1>0, <2>1, <2>2, <2>3, SlotwiseTx DEF settings
<1>5. CASE UpdatePayloadFormat
  <2>1. /\ slots' = [i \in Tokens |-> IF slots[i].active THEN [slots[i] EXCEPT !.pf = pf]
                                                         ELSE slots[i]]
        /\ UNCHANGED <<settings, heard>>
    BY <1>5 DEF UpdatePayloadFormat
  <2>2. ASSUME NEW i \in Tokens, slots[i].active
        PROVE  SlotInv([slots[i] EXCEPT !.pf = pf], heard[i])
    <3> DEFINE v == slots[i]
               w == [slots[i] EXCEPT !.pf = pf]
    <3>1. v \in SlotRecords /\ pf \in Words
      BY <1>0 DEF Words
    <3>2. /\ w \in SlotRecords /\ w.active = v.active /\ w.rate = v.rate
          /\ w.samples = v.samples /\ w.if_count = v.if_count
      BY <3>1 DEF SlotRecords
    <3>3. SlotInv(v, heard[i])
      BY <1>0
    <3> HIDE DEF v, w
    <3>4. v.active
      BY <2>2 DEF v
    <3> QED
      BY <3>2, <3>3, <3>4, Zenon DEF SlotInv, w
  <2>3. \A i \in Tokens : SlotInv(slots'[i], heard'[i])
    BY <1>0, <2>1, <2>2
  <2> QED
    BY <1>0, <2>1, <2>3, SlotwiseTx DEF settings
<1>6. CASE SettingsChange
  BY <1>0, <1>6 DEF SettingsChange, TxInv
<1>7. CASE UNCHANGED vars
  BY <1>0, <1>7 DEF vars, settings, TxInv
<1> QED
  BY <1>1, <1>2, <1>3, <1>4, <1>5, <1>6, <1>7 DEF Next

(* TxInv holds in every reachable state.                                   *)
THEOREM TxSafe == Spec => []TxInv
  BY InitTx, TxStep, PTL DEF Spec

(* A packet is stamped with the exact time of its first sample, whatever   *)
(* the socket lost before it and however long the stream runs.             *)
THEOREM StampsExact == Spec => []StampExact
<1>1. TxInv => StampExact
  <2> SUFFICES ASSUME TxInv, NEW i \in Tokens, heard[i].data # <<>>
               PROVE  heard[i].data[2].stamp[1] * Second + heard[i].data[2].stamp[2]
                        = (heard[i].data[1] * Second) \div slots[i].rate
    BY DEF StampExact
  <2> DEFINE r == slots[i].rate
  <2>1. SlotInv(slots[i], heard[i])
    BY DEF TxInv
  <2>2. PICK index \in Nat : heard[i].data = <<index, PacketAt(index, r)>>
    BY <2>1 DEF SlotInv
  <2>3. r \in Rates
    BY <2>1 DEF SlotInv, Silence
  <2>4. r \in Nat \ {0} /\ Second \in Nat \ {0}
    BY <2>3, TxAssumption, Zenon
  <2>5. /\ heard[i].data[1] = index
        /\ heard[i].data[2].stamp = <<index \div r, ((index % r) * Second) \div r>>
    BY <2>2 DEF PacketAt, Stamp
  <2>6. (index \div r) * Second + (((index % r) * Second) \div r) = (index * Second) \div r
    BY <2>4, StampSplits, Zenon
  <2> HIDE DEF r
  <2> QED
    BY <2>5, <2>6 DEF r
<1> QED
  BY TxSafe, <1>1, PTL

(* The packet count of a packet is its index in the stream: a client sees  *)
(* from it how many packets before it were lost, up to the modulus.        *)
THEOREM LossesCounted == Spec => []LossCounted
<1>1. TxInv => LossCounted
  <2> SUFFICES ASSUME TxInv, NEW i \in Tokens, heard[i].data # <<>>
               PROVE  heard[i].data[2].count = (heard[i].data[1] \div Spp) % CountMod
    BY DEF LossCounted
  <2>1. SlotInv(slots[i], heard[i])
    BY DEF TxInv
  <2>2. PICK index \in Nat : heard[i].data = <<index, PacketAt(index, slots[i].rate)>>
    BY <2>1 DEF SlotInv
  <2> QED
    BY <2>2 DEF PacketAt
<1> QED
  BY TxSafe, <1>1, PTL

-----------------------------------------------------------------------------
(* Context packets, when the socket takes them all                         *)

ContextsInStep == \A i \in Tokens : ContextInv(slots[i], heard[i])

(* What sending a Context packet leaves in the slot and at the client.     *)
LEMMA ContextTold ==
    ASSUME NEW v, NEW h, SlotInv(v, h), gain \in Gains
    PROVE  ContextInv(ContextSlot(v), ContextHeard(v, h))
<1>1. CASE ~v.active \/ ~ContextEnabled
  BY <1>1 DEF ContextSlot, ContextHeard, ContextInv
<1>2. CASE v.active /\ ContextEnabled
  <2>1. v \in SlotRecords /\ h \in HeardRecords
    BY DEF SlotInv
  <2>2. /\ ContextSlot(v).ctx_sent /\ ContextSlot(v).last_ref = RefWord(gain)
        /\ ContextSlot(v).last_pf = v.pf
    BY <1>2, <2>1 DEF ContextSlot, SlotRecords
  <2>3. ContextHeard(v, h).ctx = <<RefWord(gain), v.pf>>
    BY <1>2, <2>1 DEF ContextHeard, HeardRecords
  <2> QED
    BY <2>2, <2>3 DEF ContextInv
<1> QED
  BY <1>1, <1>2

(* A callback leaves the Context fields of a slot alone.                   *)
LEMMA ContextLeft ==
    ASSUME NEW v \in SlotRecords, NEW n, NEW sent
    PROVE  /\ Advance(v, n, sent).active = v.active
           /\ Advance(v, n, sent).ctx_count = v.ctx_count
           /\ Advance(v, n, sent).ctx_sent = v.ctx_sent
           /\ Advance(v, n, sent).last_ref = v.last_ref
           /\ Advance(v, n, sent).last_pf = v.last_pf
  BY DEF Advance, SlotRecords

ContextUntouched ==
    \A i \in Tokens : /\ slots'[i].active = slots[i].active
                      /\ slots'[i].ctx_count = slots[i].ctx_count
                      /\ slots'[i].ctx_sent = slots[i].ctx_sent
                      /\ slots'[i].last_ref = slots[i].last_ref
                      /\ slots'[i].last_pf = slots[i].last_pf
                      /\ heard'[i].ctx = heard[i].ctx

(* So no step but vita_session_add, vita_session_remove and                *)
(* vita_send_context_all touches them.                                     *)
LEMMA OthersLeaveContext ==
    ASSUME TxInv,
           \/ \E len \in Buffers : Callback(len)
           \/ UpdatePayloadFormat \/ SettingsChange \/ UNCHANGED vars
    PROVE  ContextUntouched
<1>0. slots \in [Tokens -> SlotRecords] /\ heard \in [Tokens -> HeardRecords]
  BY DEF TxInv
<1>1. ASSUME NEW len \in Buffers, Callback(len) PROVE ContextUntouched
  <2> DEFINE n == Packets(len)
             on == {i \in Tokens : slots[i].active}
  <2>1. PICK sent \in [on -> 0 .. n] :
          /\ slots' = [i \in Tokens |-> IF i \in on THEN Advance(slots[i], n, sent[i])
                                                     ELSE slots[i]]
          /\ heard' = [i \in Tokens |->
                IF i \notin on THEN heard[i]
                ELSE [heard[i] EXCEPT
                        !.taken = @ + len,
                        !.data = IF sent[i] = 0 THEN @
                                 ELSE <<heard[i].taken + (sent[i] - 1) * Spp,
                                        DataPacket(slots[i], sent[i] - 1)>>]]
    BY <1>1, Zenon DEF Callback
  <2> SUFFICES ASSUME NEW i \in Tokens
               PROVE  /\ slots'[i].active = slots[i].active
                      /\ slots'[i].ctx_count = slots[i].ctx_count
                      /\ slots'[i].ctx_sent = slots[i].ctx_sent
                      /\ slots'[i].last_ref = slots[i].last_ref
                      /\ slots'[i].last_pf = slots[i].last_pf
                      /\ heard'[i].ctx = heard[i].ctx
    BY DEF ContextUntouched
  <2>2. \/ slots'[i] = slots[i]
        \/ slots'[i] = Advance(slots[i], n, sent[i])
    BY <2>1, Zenon
  <2>3. heard'[i].ctx = heard[i].ctx
    BY <1>0, <2>1, Zenon DEF HeardRecords
  <2>4. slots[i] \in SlotRecords
    BY <1>0
  <2> QED
    BY <2>2, <2>3, <2>4, ContextLeft
<1>2. CASE UpdatePayloadFormat
  <2> SUFFICES ASSUME NEW i \in Tokens
               PROVE  /\ slots'[i].active = slots[i].active
                      /\ slots'[i].ctx_count = slots[i].ctx_count
                      /\ slots'[i].ctx_sent = slots[i].ctx_sent
                      /\ slots'[i].last_ref = slots[i].last_ref
                      /\ slots'[i].last_pf = slots[i].last_pf
                      /\ heard'[i].ctx = heard[i].ctx
    BY DEF ContextUntouched
  <2>1. \/ slots'[i] = slots[i]
        \/ slots'[i] = [slots[i] EXCEPT !.pf = pf]
    BY <1>2 DEF UpdatePayloadFormat
  <2>2. heard' = heard /\ slots[i] \in SlotRecords
    BY <1>0, <1>2 DEF UpdatePayloadFormat
  <2> QED
    BY <2>1, <2>2 DEF SlotRecords
<1>3. CASE SettingsChange \/ UNCHANGED vars
  BY <1>3 DEF SettingsChange, vars, ContextUntouched
<1> QED
  BY <1>1, <1>2, <1>3

(* Every step keeps what the slots remember and what the clients have in   *)
(* step, when no Context packet is refused.                                *)
LEMMA ContextStep ==
    ASSUME ~ContextDropped
    PROVE  TxInv /\ ContextsInStep /\ [Next]_vars => ContextsInStep'
<1> SUFFICES ASSUME TxInv, ContextsInStep, [Next]_vars PROVE ContextsInStep'
  OBVIOUS
<1>0. /\ slots \in [Tokens -> SlotRecords] /\ heard \in [Tokens -> HeardRecords]
      /\ rate \in Rates /\ gain \in Gains /\ pf \in PayloadWords
      /\ \A i \in Tokens : SlotInv(slots[i], heard[i]) /\ ContextInv(slots[i], heard[i])
  BY DEF TxInv, ContextsInStep
<1>1. ASSUME NEW i \in Tokens, SessionAdd(i) PROVE ContextsInStep'
  <2>1. ContextInv(ContextSlot(Anchored), FirstHeard)
    BY <1>0, EmptyAndAnchored, ContextTold DEF FirstHeard
  <2>2. /\ slots' = [slots EXCEPT ![i] = ContextSlot(Anchored)]
        /\ heard' = [heard EXCEPT ![i] = FirstHeard]
    BY <1>1, Zenon DEF SessionAdd, Refused
  <2>3. \A j \in Tokens : ContextInv(slots'[j], heard'[j])
    BY <1>0, <2>1, <2>2, Zenon
  <2> QED
    BY <2>3 DEF ContextsInStep, ContextInv
<1>2. ASSUME NEW i \in Tokens, SessionRemove(i) PROVE ContextsInStep'
  <2>1. /\ slots' = [slots EXCEPT ![i] = Inactive] /\ heard' = [heard EXCEPT ![i] = Silence]
    BY <1>2 DEF SessionRemove
  <2>2. ContextInv(Inactive, Silence)
    BY DEF ContextInv, Inactive
  <2>3. \A j \in Tokens : ContextInv(slots'[j], heard'[j])
    BY <1>0, <2>1, <2>2, Zenon
  <2> QED
    BY <2>3 DEF ContextsInStep, ContextInv
<1>3. CASE SendContextAll
  <2>1. /\ slots' = [i \in Tokens |-> ContextSlot(slots[i])]
        /\ heard' = [i \in Tokens |-> ContextHeard(slots[i], heard[i])]
    BY <1>3 DEF SendContextAll, Refused
  <2>2. \A i \in Tokens : ContextInv(slots'[i], heard'[i])
    BY <1>0, <2>1, ContextTold
  <2> QED
    BY <2>2 DEF ContextsInStep, ContextInv
<1>4. CASE \/ \E len \in Buffers : Callback(len)
           \/ UpdatePayloadFormat \/ SettingsChange \/ UNCHANGED vars
  <2>1. ContextUntouched
    BY <1>4, OthersLeaveContext
  <2> QED
    BY <1>0, <2>1 DEF ContextUntouched, ContextsInStep, ContextInv
<1> QED
  BY <1>1, <1>2, <1>3, <1>4 DEF Next

(* The same holds in every reachable state.                                *)
LEMMA ContextsKept ==
    ASSUME ~ContextDropped PROVE Spec => []ContextsInStep
<1>1. Init => ContextsInStep
  BY DEF Init, ContextsInStep, ContextInv, Inactive
<1>2. TxInv /\ ContextsInStep /\ [Next]_vars => ContextsInStep'
  BY ContextStep
<1> QED
  BY TxSafe, <1>1, <1>2, PTL DEF Spec

(* No client gets samples before the Context packet that describes them.   *)
THEOREM ContextIsFirst ==
    ASSUME ~ContextDropped PROVE Spec => []ContextFirst
<1>1. TxInv /\ ContextsInStep => ContextFirst
  <2> SUFFICES ASSUME TxInv, ContextsInStep, ContextEnabled,
                      NEW i \in Tokens, heard[i].data # <<>>
               PROVE  heard[i].ctx # <<>>
    BY DEF ContextFirst
  <2>1. slots[i].active
    BY DEF TxInv, SlotInv, Silence
  <2>2. heard[i].ctx = <<slots[i].last_ref, slots[i].last_pf>>
    BY <2>1 DEF ContextsInStep, ContextInv
  <2> QED
    BY <2>2
<1> QED
  BY TxSafe, ContextsKept, <1>1, PTL

(* A client that looks only at the change indicator misses no change and   *)
(* acts on none that did not happen, across every reuse of the slot.       *)
THEOREM ChangesHonest ==
    ASSUME ~ContextDropped PROVE Spec => ChangeHonest
<1> DEFINE Honest == \A i \in Tokens :
                ContextSent(i) => (heard'[i].marked <=> heard'[i].ctx # heard[i].ctx)
<1>1. TxInv /\ ContextsInStep /\ [Next]_vars => Honest
  <2> SUFFICES ASSUME TxInv, ContextsInStep, [Next]_vars, NEW i \in Tokens, ContextSent(i)
               PROVE  heard'[i].marked <=> heard'[i].ctx # heard[i].ctx
    OBVIOUS
  <2>0. /\ slots \in [Tokens -> SlotRecords] /\ heard \in [Tokens -> HeardRecords]
        /\ SlotInv(slots[i], heard[i]) /\ ContextInv(slots[i], heard[i])
        /\ rate \in Rates /\ pf \in PayloadWords
    BY DEF TxInv, ContextsInStep
  <2>1. ASSUME NEW j \in Tokens, SessionAdd(j)
        PROVE  heard'[i].marked <=> heard'[i].ctx # heard[i].ctx
    <3>1. /\ slots' = [slots EXCEPT ![j] = ContextSlot(Anchored)]
          /\ heard' = [heard EXCEPT ![j] = FirstHeard] /\ ~slots[j].active
      BY <2>1, Zenon DEF SessionAdd, Refused
    <3>2. i = j
      BY <2>0, <3>1 DEF ContextSent
    <3>3. slots[i] = Inactive /\ heard[i].ctx = <<>>
      BY <2>0, <3>1, <3>2 DEF SlotInv, Silence
    <3>4. ContextEnabled
      BY <2>0, <3>1, <3>2, <3>3 DEF ContextSent, ContextSlot, Anchored, Inactive
    <3>5. ~Anchored.ctx_sent /\ Anchored.active
      BY DEF Anchored, Inactive
    <3>6. /\ FirstHeard.ctx = <<RefWord(gain), Anchored.pf>>
          /\ FirstHeard.marked = TRUE
      BY <3>4, <3>5 DEF FirstHeard, ContextHeard, Changed, Silence
    <3>7. heard'[i] = FirstHeard
      BY <2>0, <3>1, <3>2
    <3>8. <<RefWord(gain), Anchored.pf>> # <<>>
      OBVIOUS
    <3> QED
      BY <3>3, <3>6, <3>7, <3>8, Zenon
  <2>2. ASSUME NEW j \in Tokens, SessionRemove(j)
        PROVE  heard'[i].marked <=> heard'[i].ctx # heard[i].ctx
    BY <2>0, <2>2, Zenon DEF SessionRemove, ContextSent, Inactive
  <2>3. CASE SendContextAll
    <3>1. slots'[i] = ContextSlot(slots[i]) /\ heard'[i] = ContextHeard(slots[i], heard[i])
      BY <2>3 DEF SendContextAll, Refused
    <3>2. slots[i].active /\ ContextEnabled
      BY <3>1, Zenon DEF ContextSent, ContextSlot
    <3>3. slots[i].ctx_sent /\ heard[i].ctx = <<slots[i].last_ref, slots[i].last_pf>>
      BY <2>0, <3>2 DEF ContextInv
    <3>4. /\ heard'[i].ctx = <<RefWord(gain), slots[i].pf>>
          /\ heard'[i].marked = Changed(slots[i])
      BY <2>0, <3>1, <3>2 DEF ContextHeard, HeardRecords
    <3>5. Changed(slots[i]) <=> (RefWord(gain) # slots[i].last_ref
                                   \/ slots[i].pf # slots[i].last_pf)
      BY <3>3 DEF Changed
    <3> QED
      BY <3>3, <3>4, <3>5
  <2>4. CASE \/ \E len \in Buffers : Callback(len)
             \/ UpdatePayloadFormat \/ SettingsChange \/ UNCHANGED vars
    BY <2>4, OthersLeaveContext DEF ContextUntouched, ContextSent
  <2> QED
    BY <2>1, <2>2, <2>3, <2>4 DEF Next
<1> QED
  BY TxSafe, ContextsKept, <1>1, PTL DEF Spec, ChangeHonest

=============================================================================
