------------------------- MODULE CpTransportProofs --------------------------
(***************************************************************************)
(* Proofs about CpTransport for any number of slots and connections: its   *)
(* types, FramesWhole and SendsToLive.                                     *)
(*                                                                         *)
(* Two mutexes carry the argument.  Whoever visits slots holds             *)
(* s_table_mutex, so no slot is freed meanwhile (TableInv); whoever is     *)
(* between a length and its body holds the slot's send_mutex (TargetInv);  *)
(* a frame is open only for that thread (WireInv).  That one connection    *)
(* belongs to one slot (ConnInv) makes the slot's mutex the socket's.      *)
(***************************************************************************)
EXTENDS CpTransport, TLAPS

(* Every busy slot has a connection, of its own, accepted before.          *)
ConnInv ==
    /\ accepted \in 0 .. MaxConns
    /\ \A s \in Slots : /\ conn[s] = None <=> pc[s] = "none"
                        /\ conn[s] <= accepted
    /\ \A r, s \in Slots : conn[r] = conn[s] /\ conn[r] # None => r = s

(* The thread that holds s_table_mutex is the one that broadcasts.         *)
TableInv ==
    \A t \in Threads : /\ pc[t] \in {"visit", "length"} => table = t
                       /\ table = t => pc[t] \in {"visit", "length", "body"}

(* What a thread sends to: the slot's present connection, under its        *)
(* send_mutex from the length on; its own, unless it broadcasts.           *)
TargetInv ==
    \A t \in Threads :
        /\ pc[t] \in {"length", "body"} =>
              /\ target[t].slot \in Slots
              /\ target[t].conn \in Conns
              /\ conn[target[t].slot] = target[t].conn
        /\ pc[t] = "body" =>
              /\ lock[target[t].slot] = t
              /\ table # t => target[t].slot = t

(* A frame is open exactly while its sender is at the body.                *)
WireInv ==
    /\ \A t \in Threads : pc[t] = "body" => wire[target[t].conn] = [state |-> "open", by |-> t]
    /\ \A c \in Conns : \/ wire[c] = Whole
                        \/ \E t \in Threads : pc[t] = "body" /\ target[t].conn = c

(* The functions have their domains.                                       *)
ShapeInv ==
    /\ wire \in [Conns -> [state : {"whole", "open", "torn"}, by : Threads \cup {None}]]
    /\ target \in [Threads -> [slot : Slots \cup {None}, conn : Conns \cup {None}]]

SendInv == TypeOK /\ ShapeInv /\ ConnInv /\ TableInv /\ TargetInv /\ WireInv

-----------------------------------------------------------------------------
(* The names that stand for no thread, slot or connection are none, and    *)
(* the USB thread is no slot.                                              *)
LEMMA Distinct ==
    /\ None \notin Threads /\ None \notin Slots /\ None \notin Conns /\ Usb \notin Slots
    /\ Usb \in Threads /\ Slots \subseteq Threads /\ Slots \subseteq Nat
    /\ Conns \subseteq Nat /\ MaxConns \in Nat
BY TransportAssumption DEF None, Threads, Usb, Conns

(* The invariant holds before the first connection.                        *)
LEMMA SendInit == Init => SendInv
<1> SUFFICES ASSUME Init PROVE SendInv
  OBVIOUS
<1> USE Distinct DEF Init
<1>1. TypeOK
  BY DEF TypeOK
<1>2. ShapeInv
  BY DEF ShapeInv, Whole, NoTarget
<1>3. ConnInv
  BY DEF ConnInv, None
<1>4. \A t \in Threads : pc[t] \notin {"visit", "length", "body"}
  OBVIOUS
<1>5. TableInv
  BY <1>4 DEF TableInv
<1>6. TargetInv /\ WireInv
  BY <1>4 DEF TargetInv, WireInv
<1> QED  BY <1>1, <1>2, <1>3, <1>5, <1>6 DEF SendInv

(* send_framed up to the length: the mutex is free, so no frame was open.  *)
LEMMA LengthOpens ==
    ASSUME SendInv, NEW t \in Threads, NEW s \in Slots, NEW c \in Conns,
           conn[s] = c, pc[t] # "body", Length(t, s, c)
    PROVE  WireInv'
<1> USE Distinct DEF SendInv
<1>1. wire[c] = Whole
  <2> SUFFICES ASSUME NEW u \in Threads, pc[u] = "body", target[u].conn = c
               PROVE  FALSE
    BY DEF WireInv
  <2>1. target[u].slot = s
    BY DEF TargetInv, ConnInv
  <2> QED  BY <2>1 DEF TargetInv, Length, MayWrite
<1>2. /\ wire' = [wire EXCEPT ![c] = [state |-> "open", by |-> t]]
      /\ wire'[c] = [state |-> "open", by |-> t]
  BY <1>1 DEF Length, AfterLength, ShapeInv
<1>3. /\ pc'[t] = "body" /\ target'[t].conn = c
      /\ \A u \in Threads \ {t} : pc'[u] = pc[u] /\ target'[u] = target[u]
  BY DEF Length, Goto, TypeOK, ShapeInv
<1>4. \A u \in Threads : pc[u] = "body" => target[u].conn \in Conns \ {c}
  <2> SUFFICES ASSUME NEW u \in Threads, pc[u] = "body"
               PROVE  target[u].conn \in Conns \ {c}
    OBVIOUS
  <2>1. wire[c].state = "whole"
    BY <1>1 DEF Whole
  <2>2. wire[target[u].conn].state = "open"
    <3>1. wire[target[u].conn] = [state |-> "open", by |-> u]
      BY DEF WireInv
    <3> QED  BY <3>1
  <2> QED  BY <2>1, <2>2 DEF TargetInv
<1>5. \A d \in Conns \ {c} : wire'[d] = wire[d]
  BY <1>2 DEF ShapeInv
<1>6. ASSUME NEW u \in Threads, pc'[u] = "body"
      PROVE  wire'[target'[u].conn] = [state |-> "open", by |-> u]
  <2>1. CASE u = t
    BY <2>1, <1>2, <1>3
  <2>2. CASE u # t
    BY <2>2, <1>3, <1>4, <1>5, <1>6 DEF WireInv
  <2> QED  BY <2>1, <2>2
<1>7. ASSUME NEW d \in Conns
      PROVE  wire'[d] = Whole \/ \E u \in Threads : pc'[u] = "body" /\ target'[u].conn = d
  <2>1. CASE d = c
    BY <2>1, <1>3
  <2>2. CASE d # c
    BY <2>2, <1>3, <1>5 DEF WireInv
  <2> QED  BY <2>1, <2>2
<1>8. WireInv' <=> /\ \A u \in Threads : pc'[u] = "body" =>
                         wire'[target'[u].conn] = [state |-> "open", by |-> u]
                   /\ \A d \in Conns : wire'[d] = Whole \/
                         \E u \in Threads : pc'[u] = "body" /\ target'[u].conn = d
  BY DEF WireInv, Whole
<1> QED  BY <1>6, <1>7, <1>8

(* A thread that is not sending takes a step that touches nobody's socket. *)
LEMMA QuietStep ==
    ASSUME SendInv, NEW t \in Threads,
           NEW label \in {"idle", "recv", "parse", "ready", "free"},
           pc[t] \in {"idle", "recv", "parse", "ready"},
           Goto(t, label), UNCHANGED <<conn, table, lock, target, wire, accepted>>
    PROVE  ShapeInv' /\ ConnInv' /\ TableInv' /\ TargetInv' /\ WireInv'
<1> USE DEF SendInv
<1>1. /\ pc'[t] = label
      /\ \A u \in Threads \ {t} : pc'[u] = pc[u]
  BY DEF Goto, TypeOK
<1>2. \A u \in Threads : \A busy \in {"visit", "length", "body"} :
          pc'[u] = busy <=> pc[u] = busy
  BY <1>1
<1>3. ShapeInv'
  BY DEF ShapeInv
<1>4. ConnInv'
  BY <1>1, Distinct DEF ConnInv
<1>5. TableInv'
  BY <1>2 DEF TableInv
<1>6. TargetInv'
  BY <1>2 DEF TargetInv
<1>7. WireInv'
  BY <1>2 DEF WireInv, Whole
<1> QED  BY <1>3, <1>4, <1>5, <1>6, <1>7

(* What a client does at its end of a connection changes none of them.     *)
LEMMA SameStep ==
    ASSUME SendInv, UNCHANGED <<pc, conn, table, lock, target, wire, accepted>>
    PROVE  ShapeInv' /\ ConnInv' /\ TableInv' /\ TargetInv' /\ WireInv'
<1>1. ShapeInv'
  BY DEF SendInv, ShapeInv
<1>2. ConnInv'
  BY DEF SendInv, ConnInv
<1>3. TableInv'
  BY DEF SendInv, TableInv
<1>4. TargetInv'
  BY DEF SendInv, TargetInv
<1>5. WireInv'
  BY DEF SendInv, WireInv
<1> QED  BY <1>1, <1>2, <1>3, <1>4, <1>5

(* Every step of a thread or a client preserves it.                        *)
LEMMA SendInductive == SendInv /\ [Next]_vars => SendInv'
<1> SUFFICES ASSUME SendInv, [Next]_vars PROVE SendInv'
  OBVIOUS
<1> USE Distinct
<1>1. ASSUME NEW s \in Slots, Accept(s) PROVE SendInv'
  <2>1. TypeOK'
    BY <1>1 DEF SendInv, TypeOK, ConnInv, TargetInv, Conns, client, Accept, Goto
  <2>2. ShapeInv'
    BY <1>1 DEF SendInv, ShapeInv, TargetInv, sending, client, Accept, Goto
  <2>3. ConnInv'
    BY <1>1 DEF SendInv, TypeOK, ConnInv, Conns, slots, locks, Accept, Goto
  <2>4. TableInv'
    BY <1>1 DEF SendInv, TypeOK, TableInv, slots, locks, client, Accept, Goto
  <2>5. TargetInv'
    BY <1>1 DEF SendInv, ConnInv, TableInv, TargetInv, sending, Accept, Goto
  <2>6. WireInv'
    BY <1>1 DEF SendInv, TargetInv, WireInv, sending, client, Accept, Goto
  <2> QED  BY <2>1, <2>2, <2>3, <2>4, <2>5, <2>6 DEF SendInv
<1>2. ASSUME NEW s \in Slots, Receive(s) PROVE SendInv'
  <2>1. PICK label \in {"idle", "recv", "parse", "ready", "free"} : Goto(s, label)
    BY <1>2 DEF Receive
  <2>2. ShapeInv' /\ ConnInv' /\ TableInv' /\ TargetInv' /\ WireInv'
    BY <1>2, <2>1, QuietStep DEF Receive, slots, locks, sending, client
  <2>3. TypeOK'
    BY <1>2, <2>1 DEF Receive, SendInv, TypeOK, Goto, slots, locks, client
  <2> QED  BY <2>2, <2>3 DEF SendInv
<1>3. ASSUME NEW s \in Slots, Dispatch(s) PROVE SendInv'
  <2>1. PICK label \in {"idle", "recv", "parse", "ready", "free"} : Goto(s, label)
    BY <1>3 DEF Dispatch, Continue
  <2>2. ShapeInv' /\ ConnInv' /\ TableInv' /\ TargetInv' /\ WireInv'
    BY <1>3, <2>1, QuietStep DEF Dispatch, slots, locks, sending, client
  <2>3. TypeOK'
    BY <1>3, <2>1 DEF Dispatch, SendInv, TypeOK, Goto, slots, locks, client
  <2> QED  BY <2>2, <2>3 DEF SendInv
<1>4. ASSUME NEW s \in Slots, Hello(s) PROVE SendInv'
  <2>1. PICK label \in {"idle", "recv", "parse", "ready", "free"} : Goto(s, label)
    BY <1>4 DEF Hello, Continue
  <2>2. ShapeInv' /\ ConnInv' /\ TableInv' /\ TargetInv' /\ WireInv'
    BY <1>4, <2>1, QuietStep DEF Hello, slots, locks, sending, client
  <2>3. TypeOK'
    BY <1>4, <2>1 DEF Hello, SendInv, TypeOK, ConnInv, Goto, slots, locks, client
  <2> QED  BY <2>2, <2>3 DEF SendInv
<1>5. ASSUME NEW s \in Slots, Expel(s) PROVE SendInv'
  <2>1. PICK label \in {"idle", "recv", "parse", "ready", "free"} : Goto(s, label)
    BY <1>5 DEF Expel, Continue
  <2>2. ShapeInv' /\ ConnInv' /\ TableInv' /\ TargetInv' /\ WireInv'
    BY <1>5, <2>1, QuietStep DEF Expel, slots, locks, sending, client
  <2>3. TypeOK'
    BY <1>5, <2>1 DEF Expel, SendInv, TypeOK, Goto, slots, locks, client
  <2> QED  BY <2>2, <2>3 DEF SendInv
<1>6. ASSUME NEW s \in Slots, Leave(s) PROVE SendInv'
  <2>1. PICK label \in {"idle", "recv", "parse", "ready", "free"} : Goto(s, label)
    BY <1>6 DEF Leave, Continue
  <2>2. ShapeInv' /\ ConnInv' /\ TableInv' /\ TargetInv' /\ WireInv'
    BY <1>6, <2>1, QuietStep DEF Leave, slots, locks, sending, client
  <2>3. TypeOK'
    BY <1>6, <2>1 DEF Leave, SendInv, TypeOK, Goto, slots, locks, client
  <2> QED  BY <2>2, <2>3 DEF SendInv
<1>7. ASSUME NEW s \in Slots, FreeSlot(s) PROVE SendInv'
  <2>1. TypeOK'
    BY <1>7, Zenon DEF SendInv, TypeOK, locks, FreeSlot, FreeAllowed, Cleared, Goto
  <2>2. ShapeInv'
    BY <1>7 DEF SendInv, ShapeInv, sending, FreeSlot, FreeAllowed, Cleared, Goto
  <2>3. ConnInv'
    BY <1>7 DEF SendInv, TypeOK, ConnInv, FreeSlot, Goto, None
  <2>4. TableInv'
    BY <1>7 DEF SendInv, TableInv, locks, FreeSlot, FreeAllowed, Cleared, Goto
  <2>5. TargetInv'
    BY <1>7 DEF SendInv, TableInv, TargetInv, locks, sending, FreeSlot, FreeAllowed, Goto
  <2>6. WireInv'
    BY <1>7 DEF SendInv, WireInv, sending, FreeSlot, FreeAllowed, Cleared, Goto
  <2> QED  BY <2>1, <2>2, <2>3, <2>4, <2>5, <2>6 DEF SendInv
<1>8. ASSUME NEW s \in Slots, SendOwn(s) PROVE SendInv'
  <2>1. TypeOK'
    BY <1>8 DEF SendInv, TypeOK, slots, SendOwn, Length, AfterLength, Goto
  <2>2. ShapeInv'
    BY <1>8, Zenon DEF SendInv, TypeOK, ShapeInv, SendOwn, Length, AfterLength, Goto
  <2>3. ConnInv'
    BY <1>8 DEF SendInv, TypeOK, ConnInv, slots, SendOwn, Length, Goto
  <2>4. TableInv'
    BY <1>8 DEF SendInv, TableInv, SendOwn, Length, MayWrite, AfterLength, Goto
  <2>5. TargetInv'
    BY <1>8 DEF SendInv, TypeOK, ShapeInv, ConnInv, TargetInv, slots, SendOwn, Length,
           MayWrite, Goto
  <2>6. WireInv'
    <3>1. conn[s] \in Conns
      BY <1>8 DEF SendInv, TypeOK, ConnInv, SendOwn
    <3> QED  BY <1>8, <3>1, LengthOpens, Zenon DEF SendOwn
  <2> QED  BY <2>1, <2>2, <2>3, <2>4, <2>5, <2>6 DEF SendInv
<1>9. ASSUME NEW t \in Threads, Broadcast(t) PROVE SendInv'
  <2>1. TypeOK'
    BY <1>9 DEF SendInv, TypeOK, TargetInv, slots, client, Broadcast, Goto
  <2>2. ShapeInv'
    BY <1>9 DEF SendInv, ShapeInv, ConnInv, TargetInv, client, Broadcast, Goto
  <2>3. ConnInv'
    BY <1>9 DEF SendInv, TypeOK, ConnInv, Conns, slots, locks, Broadcast, Goto
  <2>4. TableInv'
    BY <1>9 DEF SendInv, TypeOK, TableInv, slots, locks, client, Broadcast, Goto
  <2>5. TargetInv'
    BY <1>9 DEF SendInv, ConnInv, TableInv, TargetInv, slots, Broadcast, Goto
  <2>6. WireInv'
    BY <1>9 DEF SendInv, ShapeInv, TargetInv, WireInv, client, Broadcast, Goto
  <2> QED  BY <2>1, <2>2, <2>3, <2>4, <2>5, <2>6 DEF SendInv
<1>10. ASSUME NEW t \in Threads, Visit(t) PROVE SendInv'
  <2>1. TypeOK'
    BY <1>10 DEF SendInv, TypeOK, slots, locks, client, Visit, Reaches, Goto
  <2>2. ShapeInv'
    <3>1. PICK s : IF Reaches(s)
                   THEN target' = [target EXCEPT ![t] = [slot |-> s, conn |-> conn[s]]]
                   ELSE UNCHANGED target
      BY <1>10 DEF Visit
    <3>2. CASE Reaches(s)
      <4>1. s \in Slots /\ conn[s] \in Conns
        BY <3>2 DEF Reaches, SendInv, TypeOK
      <4> QED  BY <1>10, <3>1, <3>2, <4>1 DEF SendInv, ShapeInv, Visit, client
    <3>3. CASE ~Reaches(s)
      BY <1>10, <3>1, <3>3 DEF SendInv, ShapeInv, Visit, client
    <3> QED  BY <3>2, <3>3
  <2>3. ConnInv'
    BY <1>10 DEF SendInv, TypeOK, ConnInv, Conns, slots, Visit, Reaches, Goto
  <2>4. TableInv'
    BY <1>10 DEF SendInv, TypeOK, TableInv, slots, locks, Visit, Reaches, Goto
  <2>5. TargetInv'
    <3>1. PICK s : IF Reaches(s)
                   THEN /\ target' = [target EXCEPT ![t] = [slot |-> s, conn |-> conn[s]]]
                        /\ Goto(t, "length")
                   ELSE UNCHANGED <<pc, target>>
      BY <1>10 DEF Visit
    <3>2. UNCHANGED <<conn, lock, table>>
      BY <1>10 DEF Visit, slots, locks
    <3>3. CASE Reaches(s)
      <4>1. s \in Slots /\ conn[s] \in Conns
        BY <3>3 DEF Reaches, SendInv, TypeOK
      <4>2. /\ target'[t] = [slot |-> s, conn |-> conn[s]] /\ pc'[t] = "length"
            /\ \A u \in Threads \ {t} : target'[u] = target[u] /\ pc'[u] = pc[u]
        BY <3>1, <3>3 DEF SendInv, TypeOK, ShapeInv, Goto
      <4> QED  BY <3>2, <4>1, <4>2 DEF SendInv, TargetInv
    <3>4. CASE ~Reaches(s)
      BY <3>1, <3>2, <3>4 DEF SendInv, TargetInv
    <3> QED  BY <3>3, <3>4
  <2>6. WireInv'
    BY <1>10 DEF SendInv, TypeOK, ShapeInv, WireInv, client, Visit, Goto
  <2> QED  BY <2>1, <2>2, <2>3, <2>4, <2>5, <2>6 DEF SendInv
<1>11. ASSUME NEW t \in Threads, Unlock(t) PROVE SendInv'
  <2>1. TypeOK'
    BY <1>11 DEF SendInv, TypeOK, slots, client, Unlock, Continue, Goto
  <2>2. ShapeInv'
    BY <1>11 DEF SendInv, ShapeInv, TargetInv, client, Unlock, Continue, Goto
  <2>3. ConnInv'
    BY <1>11 DEF SendInv, TypeOK, ConnInv, Conns, slots, Unlock, Continue, Goto
  <2>4. TableInv'
    BY <1>11 DEF SendInv, TypeOK, TableInv, slots, locks, Unlock, Continue, Goto
  <2>5. TargetInv'
    BY <1>11 DEF SendInv, TableInv, TargetInv, slots, Unlock, Continue, Goto
  <2>6. WireInv'
    BY <1>11 DEF SendInv, TargetInv, WireInv, client, Unlock, Continue, Goto
  <2> QED  BY <2>1, <2>2, <2>3, <2>4, <2>5, <2>6 DEF SendInv
<1>12. ASSUME NEW t \in Threads, SendLength(t) PROVE SendInv'
  <2>1. TypeOK'
    BY <1>12, Zenon DEF SendInv, TypeOK, slots, SendLength, Length, AfterLength, Goto
  <2>2. ShapeInv'
    BY <1>12, Zenon DEF SendInv, ShapeInv, SendLength, Length, AfterLength, Goto
  <2>3. ConnInv'
    BY <1>12 DEF SendInv, ConnInv, slots, SendLength, Length, AfterLength, Goto
  <2>4. TableInv'
    BY <1>12 DEF SendInv, TableInv, SendLength, Length, AfterLength, Goto
  <2>5. TargetInv'
    BY <1>12 DEF SendInv, TypeOK, TableInv, TargetInv, slots, SendLength, Length,
           MayWrite, Goto
  <2>6. WireInv'
    <3>1. /\ target[t].slot \in Slots /\ target[t].conn \in Conns
          /\ conn[target[t].slot] = target[t].conn
      BY <1>12 DEF SendInv, TargetInv, SendLength
    <3> QED  BY <1>12, <3>1, LengthOpens, Zenon DEF SendLength
  <2> QED  BY <2>1, <2>2, <2>3, <2>4, <2>5, <2>6 DEF SendInv
<1>13. ASSUME NEW t \in Threads, SendBody(t) PROVE SendInv'
  <2>1. TypeOK'
    <3>1. target[t].slot \in Slots /\ target[t].conn \in Conns
      BY <1>13 DEF SendInv, TargetInv, SendBody
    <3>2. pc' \in [Threads -> {"idle", "none", "recv", "parse", "ready", "visit",
                               "length", "body", "free"}]
      BY <1>13 DEF SendInv, TypeOK, SendBody, Continue, Goto
    <3>3. full' \subseteq Conns /\ lock' \in [Slots -> Threads \cup {None}]
      BY <1>13, <3>1 DEF SendInv, TypeOK, SendBody
    <3> QED  BY <1>13, <3>2, <3>3 DEF SendInv, TypeOK, SendBody, slots
  <2>2. ShapeInv'
    BY <1>13, Zenon DEF SendInv, ShapeInv, NoTarget, Whole, SendBody, AfterBody, Goto
  <2>3. ConnInv'
    BY <1>13 DEF SendInv, TypeOK, ConnInv, slots, SendBody, Continue, Goto
  <2>4. TableInv'
    BY <1>13 DEF SendInv, TypeOK, TableInv, SendBody, AfterBody, Continue, Goto
  <2>5. TargetInv'
    BY <1>13 DEF SendInv, TypeOK, TargetInv, slots, SendBody, Continue, Goto
  <2>6. WireInv'
    <3>1. pc'[t] # "body" /\ \A u \in Threads \ {t} : pc'[u] = pc[u] /\ target'[u] = target[u]
      BY <1>13 DEF SendInv, TypeOK, ShapeInv, SendBody, Continue, Goto
    <3>2. wire[target[t].conn] = [state |-> "open", by |-> t] /\ target[t].conn \in Conns
      BY <1>13 DEF SendInv, WireInv, TargetInv, SendBody
    <3>3. wire' = [wire EXCEPT ![target[t].conn] = Whole]
      BY <1>13, <3>2 DEF SendBody, AfterBody
    <3>4. \A u \in Threads \ {t} : pc[u] = "body" => target[u].conn # target[t].conn
      <4> SUFFICES ASSUME NEW u \in Threads \ {t}, pc[u] = "body",
                          target[u].conn = target[t].conn
                   PROVE  FALSE
        OBVIOUS
      <4>1. wire[target[u].conn] = [state |-> "open", by |-> u]
        BY DEF SendInv, WireInv
      <4>2. wire[target[u].conn].by = u /\ wire[target[t].conn].by = t
        BY <3>2, <4>1
      <4> QED  BY <4>2
    <3>5. \A u \in Threads :
            pc'[u] = "body" => wire'[target'[u].conn] = [state |-> "open", by |-> u]
      BY <3>1, <3>3, <3>4 DEF SendInv, ShapeInv, WireInv, TargetInv
    <3>6. \A c \in Conns : \/ wire'[c] = Whole
                          \/ \E u \in Threads : pc'[u] = "body" /\ target'[u].conn = c
      <4> TAKE c \in Conns
      <4>1. CASE c = target[t].conn
        BY <3>3, <4>1 DEF SendInv, ShapeInv
      <4>2. CASE c # target[t].conn
        <5>1. wire'[c] = wire[c]
          BY <3>3, <4>2 DEF SendInv, ShapeInv
        <5>2. ASSUME NEW u \in Threads, pc[u] = "body", target[u].conn = c
              PROVE  pc'[u] = "body" /\ target'[u].conn = c
          BY <3>1, <4>2, <5>2
        <5> QED  BY <5>1, <5>2 DEF SendInv, WireInv
      <4> QED  BY <4>1, <4>2
    <3> QED  BY <3>5, <3>6 DEF WireInv
  <2> QED  BY <2>1, <2>2, <2>3, <2>4, <2>5, <2>6 DEF SendInv
<1>14. ASSUME Overload PROVE SendInv'
  <2>1. PICK label \in {"idle", "recv", "parse", "ready", "free"} : Goto(Usb, label)
    BY <1>14 DEF Overload, Continue
  <2>2. ShapeInv' /\ ConnInv' /\ TableInv' /\ TargetInv' /\ WireInv'
    BY <1>14, <2>1, QuietStep DEF Overload, slots, locks, sending, client
  <2>3. TypeOK'
    BY <1>14, <2>1 DEF Overload, SendInv, TypeOK, Goto, slots, locks, client
  <2> QED  BY <2>2, <2>3 DEF SendInv
<1>15. ASSUME NEW c \in Conns, Read(c) PROVE SendInv'
  <2>1. TypeOK'
    BY <1>15, SMTT(30) DEF Read, SendInv, TypeOK, slots, locks, client
  <2>2. ShapeInv' /\ ConnInv' /\ TableInv' /\ TargetInv' /\ WireInv'
    BY <1>15, SameStep DEF Read, slots, locks, sending
  <2> QED  BY <2>1, <2>2 DEF SendInv
<1>16. ASSUME NEW c \in Conns, Hangup(c) PROVE SendInv'
  <2>1. TypeOK'
    BY <1>16, SMTT(30) DEF Hangup, SendInv, TypeOK, slots, locks, client
  <2>2. ShapeInv' /\ ConnInv' /\ TableInv' /\ TargetInv' /\ WireInv'
    BY <1>16, SameStep DEF Hangup, slots, locks, sending, client
  <2> QED  BY <2>1, <2>2 DEF SendInv
<1>17. CASE UNCHANGED vars
  <2>1. TypeOK'
    BY <1>17 DEF vars, slots, locks, client, SendInv, TypeOK
  <2>2. ShapeInv' /\ ConnInv' /\ TableInv' /\ TargetInv' /\ WireInv'
    BY <1>17, SameStep DEF vars, slots, locks, sending, client
  <2> QED  BY <2>1, <2>2 DEF SendInv
<1> QED
  BY <1>1, <1>2, <1>3, <1>4, <1>5, <1>6, <1>7, <1>8, <1>9, <1>10, <1>11, <1>12, <1>13,
         <1>14, <1>15, <1>16, <1>17 DEF Next, Session, Send

(* The invariant holds throughout.                                         *)
LEMMA SendAlways == Spec => []SendInv
BY SendInit, SendInductive, PTL DEF Spec

(* Type correctness of the session table and its locks.                    *)
THEOREM TransportTypes == Spec => []TypeOK
<1>1. SendInv => TypeOK  BY SMTT(30) DEF SendInv
<1> QED  BY SendAlways, <1>1, PTL

(* send_framed under send_mutex: replies and events of any number of       *)
(* threads never interleave on a socket.                                   *)
THEOREM FramesStayWhole == Spec => []FramesWhole
<1>1. SendInv => FramesWhole
  <2> SUFFICES ASSUME SendInv, NEW c \in Conns PROVE wire[c].state # "torn"
    BY DEF FramesWhole
  <2>1. CASE wire[c] = Whole
    BY <2>1 DEF Whole
  <2>2. ASSUME NEW t \in Threads, pc[t] = "body", target[t].conn = c
        PROVE  wire[c].state # "torn"
    <3>1. wire[c] = [state |-> "open", by |-> t]
      BY <2>2 DEF SendInv, WireInv
    <3> QED  BY <3>1
  <2> QED  BY <2>1, <2>2 DEF SendInv, WireInv
<1> QED  BY SendAlways, <1>1, PTL

(* broadcast under s_table_mutex: no session is destroyed underneath a     *)
(* send to it.                                                             *)
THEOREM SendsReachTheLiving == Spec => []SendsToLive
<1>1. SendInv => SendsToLive
  BY DEF SendInv, TargetInv, SendsToLive
<1> QED  BY SendAlways, <1>1, PTL
=============================================================================
