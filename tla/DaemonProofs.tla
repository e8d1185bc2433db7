---------------------------- MODULE DaemonProofs ----------------------------
(***************************************************************************)
(* Proofs about Daemon and KeyFile for every command line, every number of *)
(* processes and of async threads, every ring size and any set of keygens: *)
(* what the process holds at each step, the quiet shutdown, and what       *)
(* becomes of a key that keygen reported.                                  *)
(***************************************************************************)
EXTENDS Daemon, FiniteSetTheorems, SequenceTheorems, TLAPS

-----------------------------------------------------------------------------
(* What the process holds                                                  *)

(* The device, the socket and the port are open exactly between the step   *)
(* that opens and the step that closes them.                               *)
ServingSteps == {"mdns", "loop", "mdns_stop", "server_stop"}
ResourceInv ==
    /\ device <=> main \in {"vita", "server"} \cup ServingSteps \cup Ending
    /\ sock <=> main \in {"server"} \cup ServingSteps \cup (Ending \ {"device_close"})
    /\ listening <=> main \in ServingSteps
    /\ advertised => main \in {"loop", "mdns_stop"}

(* Every step of main() that opens or closes something goes on to the step *)
(* at which that is so; sessions and keygen open and close nothing.        *)
LEMMA ResourceStep ==
    ASSUME ResourceInv, [Next]_vars
    PROVE  ResourceInv'
<1> USE DEF ResourceInv, ServingSteps, Ending
<1>1. CASE Launch
  BY <1>1 DEF Launch, Fresh
<1>2. CASE Signal
  BY <1>2 DEF Signal
<1>3. CASE ParseOptions
  BY <1>3 DEF ParseOptions, process
<1>4. CASE LoadKeys
  BY <1>4 DEF LoadKeys
<1>5. CASE OpenDevice
  BY <1>5 DEF OpenDevice
<1>6. CASE InitVita
  <2>1. main = "vita" /\ ~listening /\ ~advertised /\ device /\ ~sock
    BY <1>6 DEF InitVita
  <2>2. CASE main' = "server" /\ sock' = TRUE /\ UNCHANGED device
    BY <1>6, <2>1, <2>2 DEF InitVita
  <2>3. CASE main' = "off" /\ device' = FALSE /\ UNCHANGED sock
    BY <1>6, <2>1, <2>3 DEF InitVita
  <2> QED
    BY <1>6, <2>2, <2>3, Zenon DEF InitVita
<1>7. CASE StartServer
  <2>1. main = "server" /\ ~listening /\ ~advertised /\ device /\ sock
    BY <1>7 DEF StartServer
  <2>2. CASE main' = "mdns" /\ listening' = TRUE /\ UNCHANGED <<device, sock>>
    BY <1>7, <2>1, <2>2 DEF StartServer
  <2>3. CASE main' = "off" /\ sock' = FALSE /\ device' = FALSE /\ UNCHANGED listening
    BY <1>7, <2>1, <2>3 DEF StartServer
  <2> QED
    BY <1>7, <2>2, <2>3, Zenon DEF StartServer, DeviceAfterFailure
<1>8. CASE StartMdns
  BY <1>8 DEF StartMdns
<1>9. CASE LeaveLoop
  BY <1>9 DEF LeaveLoop, FirstStop, process
<1>10. CASE StopMdns
  BY <1>10 DEF StopMdns
<1>11. CASE StopServer
  BY <1>11 DEF StopServer, AfterServer
<1>12. CASE ForceStop
  BY <1>12 DEF ForceStop, process
<1>13. CASE ForceCancel
  BY <1>13 DEF ForceCancel, process
<1>14. CASE ForceJoin
  BY <1>14 DEF ForceJoin, process
<1>15. CASE DestroyVita
  BY <1>15 DEF DestroyVita
<1>16. CASE CloseDevice
  BY <1>16 DEF CloseDevice
<1>17. ASSUME UNCHANGED <<main, process>>
       PROVE  ResourceInv'
  BY <1>17 DEF process
<1> QED
  BY <1>1, <1>2, <1>3, <1>4, <1>5, <1>6, <1>7, <1>8, <1>9, <1>10, <1>11, <1>12, <1>13,
     <1>14, <1>15, <1>16, <1>17, Zenon
  DEF Next, MainStep, ThreadExit, Connect, StartRx, StopRx, StopJoin, Disconnect, daemon,
      vars

(* The labels of main() and what it holds agree in every reachable state.  *)
LEMMA HeldAtEachStep == Spec => []ResourceInv
<1>1. Init => ResourceInv
  BY DEF Init, ResourceInv, ServingSteps, Ending
<1> QED
  BY <1>1, ResourceStep, PTL DEF Spec

(* What the daemon holds is nested: the mDNS record is published only      *)
(* while the port is served, the port is served only with the device and   *)
(* the VITA socket open, and a process that ended, on a signal or because  *)
(* a step of its start failed, has closed both.                            *)
THEOREM ResourcesAreNested == Spec => []ResourcesNested
<1>1. ResourceInv => ResourcesNested
  BY DEF ResourceInv, ResourcesNested, AdvertisedIsServed, NothingLeftOpen, ServingSteps,
         Ending
<1> QED
  BY <1>1, HeldAtEachStep, PTL

-----------------------------------------------------------------------------
(* The shutdown                                                            *)

(* The bridge as its one client leaves it: the thread of s_async_tid is    *)
(* the only one that may be alive, and it is alive only while it streams   *)
(* or while the session that stopped it joins it.                          *)
BridgeInv ==
    /\ running <=> client = "recv" /\ streaming
    /\ count = IF running THEN 1 ELSE 0
    /\ running => tid \notin joined
    /\ alive \subseteq {tid}
    /\ tid \in alive => running \/ client \in {"stop_join", "end_join"}
    /\ \A t \in joined : t <= tid

(* While nobody disturbs the shutdown, force_stop finds the bridge so, and *)
(* what it has not joined yet is the one thread it is about to join.       *)
QuietInv ==
    /\ tid \in Nat /\ joined \subseteq Nat
    /\ main \in {"off", "options", "keys", "device", "vita", "server"} =>
         client = "none" /\ alive = {}
    /\ ~disturbed =>
         /\ ~twice
         /\ main \notin (Ending \ {"force_stop"}) \cup {"off"} => BridgeInv
         /\ main = "force_check" => alive \subseteq {tid} /\ tid \notin joined
         /\ main = "force_join" => alive \subseteq {joining}
         /\ main \in {"vita_destroy", "device_close"} => alive = {}

(* A step of start or stop, of the session or of main(), keeps the bridge  *)
(* as force_stop counts on it, as long as the shutdown is not disturbed.   *)
LEMMA QuietStep ==
    ASSUME ResourceInv, QuietInv, [Next]_vars
    PROVE  QuietInv'
<1> USE DEF Ending
<1>1. CASE Launch
  BY <1>1 DEF Launch, Fresh, QuietInv, BridgeInv, NoThread
<1>2. ASSUME UNCHANGED <<session, bridge>>,
             \/ main' = main
             \/ main' = "off" /\ main \in {"options", "keys", "device", "vita", "server"}
             \/ main' \in {"keys", "device", "vita", "server"}
                  /\ main \in {"options", "keys", "device", "vita"}
             \/ main' \in {"mdns", "loop", "mdns_stop", "server_stop", "force_stop"}
                  /\ main \in {"server", "mdns", "loop", "mdns_stop", "server_stop"}
             \/ main' = "device_close" /\ main = "vita_destroy"
      PROVE  QuietInv'
  BY <1>2 DEF QuietInv, BridgeInv, session, bridge
<1>3. CASE ForceStop
  BY <1>3, Zenon DEF ForceStop, QuietInv, BridgeInv, session
<1>4. CASE ForceCancel
  BY <1>4, Zenon DEF ForceCancel, BeginJoin, QuietInv, session
<1>5. CASE ForceJoin
  BY <1>5 DEF ForceJoin, QuietInv, session, bridge
<1>6. CASE CloseDevice
  BY <1>6 DEF CloseDevice, QuietInv
<1>7. CASE Connect
  BY <1>7 DEF Connect, ResourceInv, ServingSteps, QuietInv, BridgeInv, bridge
<1>8. CASE StartRx
  <2>1. /\ client = "recv" /\ client' = "recv" /\ main' = main
        /\ tid \in Nat /\ tid' = tid + 1 /\ joined' = joined /\ joined \subseteq Nat
        /\ main \notin {"off", "options", "keys", "device", "vita", "server"}
    BY <1>8 DEF StartRx, QuietInv
  <2>2. ASSUME ~disturbed'
        PROVE  ~disturbed /\ main \notin Ending /\ ~twice'
    BY <1>8, <2>2, Zenon DEF StartRx, Disturb, QuietInv
  <2>3. ASSUME ~disturbed'
        PROVE  BridgeInv'
    <3>1. BridgeInv
      BY <2>1, <2>2, <2>3 DEF QuietInv
    <3>2. alive = {}
      BY <1>8, <3>1 DEF StartRx, BridgeInv
    <3>3. running' /\ streaming' /\ count' = 1 /\ alive' = {tid'}
      BY <1>8, <2>1, <3>2 DEF StartRx
    <3>4. \A t \in joined : t <= tid
      BY <3>1 DEF BridgeInv
    <3>5. \A t \in joined' : t <= tid' /\ t # tid'
      BY <2>1, <3>4
    <3> QED
      BY <2>1, <3>3, <3>5 DEF BridgeInv
  <2> QED
    BY <2>1, <2>2, <2>3 DEF QuietInv
<1>9. ASSUME NEW after \in {"recv", "none"}, StopRx(after)
      PROVE  QuietInv'
  <2>1. /\ client = "recv" /\ streaming /\ main' = main
        /\ tid \in Nat /\ tid' = tid /\ joined \subseteq Nat /\ alive' = alive
        /\ joined' \in {joined, joined \cup {tid}}
        /\ main \notin {"off", "options", "keys", "device", "vita", "server"}
    BY <1>9, Zenon DEF StopRx, BeginJoin, QuietInv
  <2>2. ASSUME ~disturbed'
        PROVE  ~disturbed /\ main \notin Ending /\ ~twice
    BY <1>9, <2>2, Zenon DEF StopRx, Disturb, QuietInv
  <2>3. ASSUME ~disturbed'
        PROVE  BridgeInv' /\ ~twice'
    <3>1. BridgeInv
      BY <2>1, <2>2, <2>3 DEF QuietInv
    <3>2. running /\ count = 1 /\ tid \notin joined /\ alive \subseteq {tid}
      BY <2>1, <3>1 DEF BridgeInv
    <3>3. count' = 0
      BY <1>9, <3>2 DEF StopRx
    <3>4. /\ running' = FALSE /\ client' \in {"stop_join", "end_join"}
          /\ joined' = joined \cup {tid} /\ twice' = (twice \/ tid \in joined)
      BY <1>9, <3>2, <3>3 DEF StopRx, BeginJoin
    <3>5. ~twice'
      BY <2>2, <2>3, <3>2, <3>4, Zenon
    <3>6. \A t \in joined' : t <= tid'
      BY <2>1, <3>1, <3>4 DEF BridgeInv
    <3> QED
      BY <2>1, <3>2, <3>3, <3>4, <3>5, <3>6 DEF BridgeInv
  <2> QED
    BY <2>1, <2>2, <2>3 DEF QuietInv
<1>10. CASE StopJoin
  BY <1>10 DEF StopJoin, QuietInv, BridgeInv, bridge
<1>11. CASE Disconnect
  BY <1>11 DEF Disconnect, QuietInv, BridgeInv, bridge
<1>12. CASE ThreadExit
  BY <1>12 DEF ThreadExit, QuietInv, BridgeInv, session
<1>13. CASE ParseOptions \/ LoadKeys \/ OpenDevice \/ InitVita \/ StartServer
  BY <1>2, <1>13 DEF ParseOptions, LoadKeys, OpenDevice, InitVita, StartServer
<1>14. CASE StartMdns \/ LeaveLoop \/ StopMdns \/ StopServer \/ DestroyVita \/ Signal
  BY <1>2, <1>14, Zenon
  DEF StartMdns, LeaveLoop, FirstStop, StopMdns, StopServer, AfterServer, DestroyVita,
      Signal
<1>15. CASE UNCHANGED daemon
  BY <1>2, <1>15 DEF daemon
<1> QED
  BY <1>1, <1>3, <1>4, <1>5, <1>6, <1>7, <1>8, <1>9, <1>10, <1>11, <1>12, <1>13, <1>14,
     <1>15
  DEF Next, MainStep, vars

(* A client may be streaming when the signal comes.  As long as its        *)
(* session is not stopping it at force_stop, and neither starts nor stops  *)
(* a stream from then on, the async thread has ended before the socket and *)
(* the device are closed, and no thread is joined twice.                   *)
THEOREM ShutdownIsQuiet == Spec => []QuietShutdown
<1>1. Init => QuietInv
  BY DEF Init, QuietInv, NoThread
<1>2. QuietInv => QuietShutdown
  BY DEF QuietInv, QuietShutdown
<1> QED
  BY <1>1, <1>2, HeldAtEachStep, QuietStep, PTL DEF Spec

-----------------------------------------------------------------------------
(* The key file                                                            *)

(* The keys that keygen reported, that nobody deleted and that are gone.   *)
Lost == {key \in acked \ deleted : ~InFile(key)}

(* Only the last line may lack its end, and then the key in it is not one  *)
(* that was reported.                                                      *)
Dangling == file # <<>> /\ ~file[Len(file)].ended
LinesInv ==
    \A i \in DOMAIN file :
        ~file[i].ended => i = Len(file) /\ \A key \in acked : key.secret # file[i].secret

KeyInv ==
    /\ file \in Seq(Lines)
    /\ gen \in [Keygens -> {"start", "write", "done"}]
    /\ want \in [Keygens -> KeyIds \cup {NoId}]
    /\ \A k \in Keygens : gen[k] = "write" => want[k] \in KeyIds
    /\ acked \subseteq [id : KeyIds, secret : Keygens] /\ IsFiniteSet(acked)
    /\ \A key \in acked : gen[key.secret] = "done"
    /\ cuts \in Nat
    /\ LinesInv
    /\ cuts = 0 => \A i \in DOMAIN file : file[i].ended /\ file[i].secret \in Keygens
    /\ Cardinality(Lost) + (IF Dangling THEN 1 ELSE 0) <= cuts

(* What write() leaves: the lines before it as they were, and at the end   *)
(* the new line, or what the new line and a dangling one ran together to.  *)
LEMMA Written ==
    ASSUME file \in Seq(Lines), NEW line \in Lines, NEW f \in Appended(file, line)
    PROVE  LET n == IF Dangling THEN Len(file) - 1 ELSE Len(file)
           IN  /\ f \in Seq(Lines) /\ Len(f) = n + 1
               /\ \A i \in 1 .. n : f[i] = file[i]
               /\ f[n + 1].ended = line.ended
               /\ f[n + 1].secret \in {Mixed, line.secret}
               /\ ~Dangling => f[n + 1] = line
<1>1. CASE ~Dangling
  <2>1. f = Append(file, line)
    BY <1>1 DEF Appended, Dangling, Last
  <2> QED
    BY <1>1, <2>1
<1>2. CASE Dangling
  <2>1. file # <<>> /\ Len(file) \in Nat \ {0} /\ Last(file) \in Lines
    BY <1>2 DEF Dangling, Last
  <2>2. PICK m \in RunInto(Last(file), line) : f = Append(Front(file), m)
    BY <1>2 DEF Appended, Dangling, Last
  <2>3. m \in Lines /\ m.ended = line.ended /\ m.secret \in {Mixed, line.secret}
    BY <2>1, <2>2, Zenon DEF RunInto, Lines
  <2>4. Front(file) = SubSeq(file, 1, Len(file) - 1)
    BY DEF Front
  <2>5. /\ Front(file) \in Seq(Lines) /\ Len(Front(file)) = Len(file) - 1
        /\ \A i \in 1 .. Len(file) - 1 : Front(file)[i] = file[i]
    <3> DEFINE last == Len(file) - 1
    <3>1. last \in Int /\ 1 \in Int /\ \A i \in 1 .. last : file[i] \in Lines
      BY <2>1
    <3> HIDE DEF last
    <3>2. /\ SubSeq(file, 1, last) \in Seq(Lines)
          /\ Len(SubSeq(file, 1, last)) = IF 1 <= last THEN last - 1 + 1 ELSE 0
          /\ \A i \in 1 .. last - 1 + 1 : SubSeq(file, 1, last)[i] = file[1 + i - 1]
      BY <3>1, SubSeqProperties
    <3>3. last >= 0
      BY <2>1 DEF last
    <3>4. /\ SubSeq(file, 1, last) \in Seq(Lines)
          /\ Len(SubSeq(file, 1, last)) = last
          /\ \A i \in 1 .. last : SubSeq(file, 1, last)[i] = file[i]
      BY <3>1, <3>2, <3>3
    <3> QED
      BY <2>4, <3>4 DEF last
  <2> QED
    BY <1>2, <2>1, <2>2, <2>3, <2>5
<1> QED
  BY <1>1, <1>2

(* A write spoils no key that was reported before and is in the file: the  *)
(* only line it may change is a dangling one, which holds no such key.     *)
LEMMA WriteKeeps ==
    ASSUME file \in Seq(Lines), LinesInv, NEW line \in Lines, file' \in Appended(file, line),
           NEW key \in acked, InFile(key)
    PROVE  InFile(key)'
<1>1. PICK i \in DOMAIN file : file[i].id = key.id /\ file[i].secret = key.secret
  BY DEF InFile
<1>2. file[i].ended
  BY <1>1 DEF LinesInv
<1>3. i \in 1 .. Len(file) /\ (Dangling => i # Len(file))
  BY <1>2 DEF Dangling
<1>4. file' \in Seq(Lines) /\ i \in 1 .. Len(file') /\ file'[i] = file[i]
  BY <1>3, Written
<1> QED
  BY <1>1, <1>4 DEF InFile

(* A write that reports its key: the key is in the file, unless it ran     *)
(* into a dangling line, and no line dangles afterwards.                   *)
LEMMA AppendStep ==
    ASSUME KeyInv, NEW k \in Keygens, KeygenAppend(k)
    PROVE  KeyInv'
<1> DEFINE line == [id |-> want[k], secret |-> k, ended |-> TRUE]
           n == IF Dangling THEN Len(file) - 1 ELSE Len(file)
<1>0. PICK new \in [id : KeyIds, secret : Keygens] :
               new = [id |-> want[k], secret |-> k]
  BY Zenon DEF KeygenAppend, Done, KeyInv
<1>1. /\ line \in Lines /\ line.ended /\ line.secret = k
      /\ file' \in Appended(file, line) /\ acked' = acked \cup {new}
      /\ new.secret = k /\ new.id = want[k]
      /\ line.id = want[k]
      /\ cuts' = cuts /\ deleted' = deleted
  BY <1>0 DEF KeygenAppend, Done, LineEnd, KeyInv, Lines
<1>2. /\ gen' \in [Keygens -> {"start", "write", "done"}]
      /\ want' \in [Keygens -> KeyIds \cup {NoId}]
      /\ \A j \in Keygens : gen'[j] = "write" => want'[j] \in KeyIds
      /\ gen'[k] = "done" /\ \A j \in Keygens : gen[j] = "done" => gen'[j] = "done"
  BY DEF KeygenAppend, Done, KeyInv
<1>3. acked' \subseteq [id : KeyIds, secret : Keygens] /\ IsFiniteSet(acked')
  BY <1>1, FS_AddElement DEF KeyInv
<1>4. \A key \in acked' : gen'[key.secret] = "done"
  BY <1>1, <1>2 DEF KeyInv
<1> HIDE DEF line
<1>5. n \in Nat /\ n <= Len(file)
  BY DEF Dangling, KeyInv
<1>6. /\ file' \in Seq(Lines) /\ Len(file') = n + 1
      /\ \A i \in 1 .. n : file'[i] = file[i]
      /\ file'[n + 1].ended = line.ended /\ file'[n + 1].secret \in {Mixed, line.secret}
      /\ ~Dangling => file'[n + 1] = line
  BY <1>1, Written, Zenon DEF KeyInv
<1>7. \A i \in 1 .. n : file[i].ended
  BY <1>5 DEF Dangling, KeyInv, LinesInv
<1> HIDE DEF n
<1>8. \A i \in DOMAIN file' : file'[i].ended
  <2>1. SUFFICES ASSUME NEW i \in 1 .. n + 1
                 PROVE  file'[i].ended
    BY <1>5, <1>6
  <2>2. i \in 1 .. n \/ i = n + 1
    BY <1>5
  <2>3. CASE i \in 1 .. n
    BY <1>6, <1>7, <2>3
  <2>4. CASE i = n + 1
    BY <1>1, <1>6, <2>4, Zenon
  <2> QED
    BY <2>2, <2>3, <2>4
<1>9. LinesInv' /\ ~Dangling'
  BY <1>6, <1>5, <1>8 DEF LinesInv, Dangling
<1>10. cuts' = 0 => \A i \in DOMAIN file' : file'[i].ended /\ file'[i].secret \in Keygens
  <2>1. SUFFICES ASSUME cuts = 0
                 PROVE  \A i \in DOMAIN file' : file'[i].secret \in Keygens
    BY <1>1, <1>8
  <2>2. ~Dangling /\ \A i \in DOMAIN file : file[i].secret \in Keygens
    BY <2>1 DEF KeyInv, Dangling
  <2> QED
    BY <1>1, <1>5, <1>6, <2>2 DEF KeyInv
<1>11. IsFiniteSet(Lost) /\ Cardinality(Lost) \in Nat
  BY FS_Subset, FS_CardinalityType DEF KeyInv, Lost
<1>12. \A key \in acked : InFile(key) => InFile(key)'
  BY <1>1, WriteKeeps DEF KeyInv
<1>13. Lost' \subseteq Lost \cup {new}
  BY <1>1, <1>12 DEF Lost
<1>14. ~Dangling => Lost' \subseteq Lost
  <2>1. ~Dangling => InFile(new)'
    BY <1>1, <1>5, <1>6 DEF InFile
  <2> QED
    BY <1>13, <2>1 DEF Lost
<1>15. /\ IsFiniteSet(Lost \cup {new})
       /\ Cardinality(Lost \cup {new}) <= Cardinality(Lost) + 1
  <2>1. /\ IsFiniteSet(Lost \cup {new})
        /\ Cardinality(Lost \cup {new}) =
               IF new \in Lost THEN Cardinality(Lost) ELSE Cardinality(Lost) + 1
    BY <1>11, FS_AddElement
  <2> QED
    BY <1>11, <2>1
<1>16. IsFiniteSet(Lost') /\ Cardinality(Lost') \in Nat
  BY <1>13, <1>15, FS_Subset, FS_CardinalityType
<1>17. /\ Cardinality(Lost') <= Cardinality(Lost \cup {new})
       /\ ~Dangling => Cardinality(Lost') <= Cardinality(Lost)
  BY <1>11, <1>13, <1>14, <1>15, FS_Subset
<1>18. Cardinality(Lost') <= cuts
  <2>1. CASE Dangling
    BY <1>11, <1>15, <1>16, <1>17, <2>1, FS_CardinalityType DEF KeyInv
  <2>2. CASE ~Dangling
    BY <1>11, <1>16, <1>17, <2>2 DEF KeyInv
  <2> QED
    BY <2>1, <2>2
<1> QED
  BY <1>1, <1>2, <1>3, <1>4, <1>6, <1>9, <1>10, <1>16, <1>18 DEF KeyInv

(* A write cut short leaves one line dangling, which holds no key that was *)
(* reported, and pays for the one key that may run into it.                *)
LEMMA ShortWriteStep ==
    ASSUME KeyInv, NEW k \in Keygens, KeygenShortWrite(k)
    PROVE  KeyInv'
<1> DEFINE n == IF Dangling THEN Len(file) - 1 ELSE Len(file)
<1>1. PICK secret \in {NoSecret, Mixed, k} :
               file' \in Appended(file, [id |-> want[k], secret |-> secret, ended |-> FALSE])
  BY Zenon DEF KeygenShortWrite
<1> DEFINE line == [id |-> want[k], secret |-> secret, ended |-> FALSE]
<1>2. /\ line \in Lines /\ ~line.ended /\ line.secret = secret
      /\ file' \in Appended(file, line)
      /\ acked' = acked /\ deleted' = deleted /\ cuts' = cuts + 1
      /\ cuts \in Nat /\ gen[k] = "write"
  BY <1>1 DEF KeygenShortWrite, Done, KeyInv, Lines
<1>3. /\ gen' \in [Keygens -> {"start", "write", "done"}]
      /\ want' \in [Keygens -> KeyIds \cup {NoId}]
      /\ \A j \in Keygens : gen'[j] = "write" => want'[j] \in KeyIds
      /\ \A j \in Keygens : gen[j] = "done" => gen'[j] = "done"
  BY DEF KeygenShortWrite, Done, KeyInv
<1>4. \A key \in acked' : gen'[key.secret] = "done"
  BY <1>2, <1>3 DEF KeyInv
<1> HIDE DEF line
<1>5. n \in Nat /\ n <= Len(file)
  BY DEF Dangling, KeyInv
<1>6. /\ file' \in Seq(Lines) /\ Len(file') = n + 1
      /\ \A i \in 1 .. n : file'[i] = file[i]
      /\ file'[n + 1].secret \in {Mixed, line.secret}
  BY <1>2, Written DEF KeyInv
<1>7. \A i \in 1 .. n : file[i].ended
  BY <1>5 DEF Dangling, KeyInv, LinesInv
<1> HIDE DEF n
<1>8. \A key \in acked : key.secret # file'[n + 1].secret
  <2>1. \A key \in acked : key.secret \in Keygens /\ gen[key.secret] = "done"
    BY DEF KeyInv
  <2>2. file'[n + 1].secret \in {NoSecret, Mixed, k}
    BY <1>1, <1>2, <1>6
  <2>3. NoSecret \notin Keygens /\ Mixed \notin Keygens
    BY IdsAssumption
  <2> QED
    BY <1>2, <2>1, <2>2, <2>3
<1>9. LinesInv'
  <2>1. SUFFICES ASSUME NEW i \in 1 .. n + 1, ~file'[i].ended
                 PROVE  i = Len(file') /\ \A key \in acked : key.secret # file'[i].secret
    BY <1>2, <1>5, <1>6 DEF LinesInv
  <2>2. i = n + 1
    BY <1>5, <1>6, <1>7, <2>1
  <2> QED
    BY <1>6, <1>8, <2>2
<1>10. IsFiniteSet(Lost) /\ Cardinality(Lost) \in Nat
  BY FS_Subset, FS_CardinalityType DEF KeyInv, Lost
<1>11. Lost' \subseteq Lost
  BY <1>2, WriteKeeps DEF KeyInv, Lost
<1>12. Cardinality(Lost') \in Nat /\ Cardinality(Lost') <= Cardinality(Lost)
  BY <1>10, <1>11, FS_Subset, FS_CardinalityType
<1>13. Cardinality(Lost) <= cuts
  BY <1>2, <1>10 DEF KeyInv
<1>14. Cardinality(Lost') + (IF Dangling' THEN 1 ELSE 0) <= cuts'
  BY <1>2, <1>10, <1>12, <1>13
<1> QED
  BY <1>2, <1>3, <1>4, <1>6, <1>9, <1>14 DEF KeyInv

(* Deleting a line moves the later ones up by one.                         *)
LEMMA Removed ==
    ASSUME file \in Seq(Lines), NEW i \in DOMAIN file
    PROVE  LET f == RemoveAt(file, i)
           IN  /\ f \in Seq(Lines) /\ Len(f) = Len(file) - 1
               /\ \A j \in 1 .. Len(f) : f[j] = IF j < i THEN file[j] ELSE file[j + 1]
<1> DEFINE before == SubSeq(file, 1, i - 1)
           after == SubSeq(file, i + 1, Len(file))
<1>1. /\ Len(file) \in Nat /\ i \in 1 .. Len(file)
      /\ \A j \in 1 .. Len(file) : file[j] \in Lines
  OBVIOUS
<1>2. /\ before \in Seq(Lines) /\ Len(before) = i - 1
      /\ \A j \in 1 .. i - 1 : before[j] = file[j]
  <2> DEFINE m == i - 1
  <2>1. m \in Int /\ 1 \in Int /\ m >= 0 /\ \A j \in 1 .. m : file[j] \in Lines
    BY <1>1
  <2> HIDE DEF m
  <2>2. /\ SubSeq(file, 1, m) \in Seq(Lines)
        /\ Len(SubSeq(file, 1, m)) = IF 1 <= m THEN m - 1 + 1 ELSE 0
        /\ \A j \in 1 .. m - 1 + 1 : SubSeq(file, 1, m)[j] = file[1 + j - 1]
    BY <2>1, SubSeqProperties
  <2>3. /\ SubSeq(file, 1, m) \in Seq(Lines) /\ Len(SubSeq(file, 1, m)) = m
        /\ \A j \in 1 .. m : SubSeq(file, 1, m)[j] = file[j]
    BY <2>1, <2>2
  <2> QED
    BY <2>3 DEF m
<1>3. /\ after \in Seq(Lines) /\ Len(after) = Len(file) - i
      /\ \A j \in 1 .. Len(file) - i : after[j] = file[i + j]
  <2> DEFINE m == i + 1
             last == Len(file)
  <2>1. m \in Int /\ last \in Int /\ m <= last + 1 /\ \A j \in m .. last : file[j] \in Lines
    BY <1>1
  <2> HIDE DEF m, last
  <2>2. /\ SubSeq(file, m, last) \in Seq(Lines)
        /\ Len(SubSeq(file, m, last)) = IF m <= last THEN last - m + 1 ELSE 0
        /\ \A j \in 1 .. last - m + 1 : SubSeq(file, m, last)[j] = file[m + j - 1]
    BY <2>1, SubSeqProperties
  <2>3. /\ SubSeq(file, m, last) \in Seq(Lines)
        /\ Len(SubSeq(file, m, last)) = last - m + 1
        /\ \A j \in 1 .. last - m + 1 : SubSeq(file, m, last)[j] = file[m + j - 1]
    BY <2>1, <2>2
  <2>4. last - m + 1 = Len(file) - i /\ \A j \in 1 .. Len(file) - i : m + j - 1 = i + j
    BY <1>1 DEF m, last
  <2> QED
    BY <2>3, <2>4 DEF m, last
<1>4. RemoveAt(file, i) = before \o after
  BY DEF RemoveAt
<1> HIDE DEF before, after
<1>5. /\ before \o after \in Seq(Lines) /\ Len(before \o after) = Len(before) + Len(after)
      /\ \A j \in 1 .. Len(before) + Len(after) :
            (before \o after)[j] = IF j <= Len(before) THEN before[j]
                                   ELSE after[j - Len(before)]
  BY <1>2, <1>3, ConcatProperties, Zenon
<1>6. PICK g : g = RemoveAt(file, i)
  OBVIOUS
<1>7. /\ g \in Seq(Lines) /\ Len(g) = Len(before) + Len(after)
      /\ \A j \in 1 .. Len(before) + Len(after) :
            g[j] = IF j <= Len(before) THEN before[j] ELSE after[j - Len(before)]
  BY <1>4, <1>5, <1>6
<1>8. Len(before) + Len(after) = Len(file) - 1
  BY <1>1, <1>2, <1>3
<1>9. ASSUME NEW j \in 1 .. Len(file) - 1
      PROVE  g[j] = IF j < i THEN file[j] ELSE file[j + 1]
  <2>1. g[j] = IF j <= i - 1 THEN before[j] ELSE after[j - (i - 1)]
    BY <1>2, <1>7, <1>8, SMTT(30)
  <2>2. CASE j < i
    BY <1>1, <1>2, <2>1, <2>2
  <2>3. CASE j >= i
    <3>1. j - (i - 1) \in 1 .. Len(file) - i /\ i + (j - (i - 1)) = j + 1
      BY <1>1, <2>3
    <3>2. after[j - (i - 1)] = file[i + (j - (i - 1))]
      BY <1>3, <3>1
    <3> QED
      BY <1>1, <2>1, <2>3, <3>1, <3>2
  <2> QED
    BY <1>1, <2>2, <2>3
<1>10. /\ g \in Seq(Lines) /\ Len(g) = Len(file) - 1
       /\ \A j \in 1 .. Len(g) : g[j] = IF j < i THEN file[j] ELSE file[j + 1]
  BY <1>7, <1>8, <1>9
<1> QED
  BY <1>6, <1>10

(* The operator deletes one line: no other key leaves the file, and a line *)
(* dangles afterwards only if one did before.                              *)
LEMMA DeleteStep ==
    ASSUME KeyInv, DeleteLine
    PROVE  KeyInv'
<1>1. PICK i \in DOMAIN file :
               /\ file' = RemoveAt(file, i)
               /\ deleted' = deleted \cup {[id |-> file[i].id, secret |-> file[i].secret]}
  BY DEF DeleteLine
<1>2. UNCHANGED <<gen, want, acked, cuts>>
  BY DEF DeleteLine
<1>3. /\ file' \in Seq(Lines) /\ Len(file') = Len(file) - 1
      /\ \A j \in 1 .. Len(file') : file'[j] = IF j < i THEN file[j] ELSE file[j + 1]
  BY <1>1, Removed, SMTT(30) DEF KeyInv
<1>4. i \in 1 .. Len(file) /\ Len(file) \in Nat
  BY DEF KeyInv
<1>5. ASSUME NEW j \in 1 .. Len(file'), ~file'[j].ended
      PROVE  /\ j = Len(file') /\ ~file[Len(file)].ended
             /\ \A key \in acked : key.secret # file'[j].secret
  <2>1. PICK m \in 1 .. Len(file) : file'[j] = file[m] /\ (m = j \/ m = j + 1)
                                   /\ (m = j => j < i)
    BY <1>3, <1>4, <1>5
  <2>2. m = Len(file) /\ \A key \in acked : key.secret # file[m].secret
    BY <1>5, <2>1 DEF KeyInv, LinesInv
  <2> QED
    BY <1>3, <1>4, <1>5, <2>1, <2>2
<1>6. LinesInv'
  BY <1>2, <1>3, <1>5 DEF LinesInv
<1>7. Dangling' => Dangling
  <2>1. SUFFICES ASSUME Dangling' PROVE Dangling
    OBVIOUS
  <2>2. Len(file') \in 1 .. Len(file') /\ ~file'[Len(file')].ended
    BY <1>3, <2>1 DEF Dangling
  <2> QED
    BY <1>4, <1>5, <2>2 DEF Dangling
<1>8. cuts' = 0 => \A j \in DOMAIN file' : file'[j].ended /\ file'[j].secret \in Keygens
  <2>1. SUFFICES ASSUME cuts = 0, NEW j \in 1 .. Len(file')
                 PROVE  file'[j].ended /\ file'[j].secret \in Keygens
    BY <1>2, <1>3
  <2>2. \A m \in 1 .. Len(file) : file[m].ended /\ file[m].secret \in Keygens
    BY <2>1 DEF KeyInv
  <2>3. PICK m \in 1 .. Len(file) : file'[j] = file[m]
    BY <1>3, <1>4
  <2> QED
    BY <2>2, <2>3
<1>9. ASSUME NEW key \in acked \ deleted', InFile(key)
      PROVE  InFile(key)'
  <2>1. PICK m \in 1 .. Len(file) : file[m].id = key.id /\ file[m].secret = key.secret
    BY <1>9 DEF InFile, KeyInv
  <2>2. key = [id |-> key.id, secret |-> key.secret]
    BY <1>9 DEF KeyInv
  <2>3. m # i
    BY <1>1, <1>9, <2>1, <2>2
  <2>4. CASE m < i
    <3>1. m \in 1 .. Len(file') /\ file'[m] = file[m]
      BY <1>3, <1>4, <2>4
    <3> QED
      BY <1>3, <2>1, <3>1 DEF InFile
  <2>5. CASE m > i
    <3>1. m - 1 \in 1 .. Len(file') /\ ~(m - 1 < i) /\ (m - 1) + 1 = m
      BY <1>3, <1>4, <2>5
    <3>2. file'[m - 1] = file[m]
      BY <1>3, <3>1
    <3> QED
      BY <1>3, <2>1, <3>1, <3>2, SMTT(30) DEF InFile
  <2> QED
    BY <1>4, <2>3, <2>4, <2>5
<1>10. IsFiniteSet(Lost) /\ Cardinality(Lost) \in Nat
  BY FS_Subset, FS_CardinalityType DEF KeyInv, Lost
<1>11. Lost' \subseteq Lost
  BY <1>1, <1>2, <1>9 DEF Lost
<1>12. Cardinality(Lost') \in Nat /\ Cardinality(Lost') <= Cardinality(Lost)
  BY <1>10, <1>11, FS_Subset, FS_CardinalityType
<1>13. Cardinality(Lost') + (IF Dangling' THEN 1 ELSE 0) <= cuts'
  <2>1. /\ cuts' = cuts /\ cuts \in Nat
        /\ Cardinality(Lost) + (IF Dangling THEN 1 ELSE 0) <= cuts
    BY <1>2 DEF KeyInv
  <2>2. CASE Dangling
    BY <1>10, <1>12, <2>1, <2>2
  <2>3. CASE ~Dangling
    BY <1>7, <1>10, <1>12, <2>1, <2>3
  <2> QED
    BY <2>2, <2>3
<1> QED
  BY <1>2, <1>3, <1>6, <1>8, <1>13 DEF KeyInv

(* Every step of keygen, of the operator and of the daemon keeps KeyInv.   *)
LEMMA KeyStep ==
    ASSUME KeyInv, [Next]_vars
    PROVE  KeyInv'
<1>1. ASSUME NEW k \in Keygens, KeygenCheck(k)
      PROVE  KeyInv'
  <2>1. /\ UNCHANGED <<file, acked, deleted, cuts>>
        /\ gen' \in [Keygens -> {"start", "write", "done"}]
        /\ want' \in [Keygens -> KeyIds \cup {NoId}]
        /\ \A j \in Keygens : gen'[j] = "write" => want'[j] \in KeyIds
        /\ \A j \in Keygens : gen[j] = "done" => gen'[j] = "done"
    BY <1>1 DEF KeygenCheck, KeyInv
  <2>2. LinesInv' /\ Lost' = Lost /\ Dangling' = Dangling
    BY <2>1 DEF KeyInv, LinesInv, Lost, InFile, Dangling
  <2> QED
    BY <2>1, <2>2 DEF KeyInv
<1>2. ASSUME NEW k \in Keygens, KeygenFails(k)
      PROVE  KeyInv'
  <2>1. /\ UNCHANGED <<file, acked, deleted, cuts>>
        /\ gen' \in [Keygens -> {"start", "write", "done"}]
        /\ want' \in [Keygens -> KeyIds \cup {NoId}]
        /\ \A j \in Keygens : gen'[j] = "write" => want'[j] \in KeyIds
        /\ \A j \in Keygens : gen[j] = "done" => gen'[j] = "done"
    BY <1>2 DEF KeygenFails, Done, KeyInv
  <2>2. LinesInv' /\ Lost' = Lost /\ Dangling' = Dangling
    BY <2>1 DEF KeyInv, LinesInv, Lost, InFile, Dangling
  <2> QED
    BY <2>1, <2>2 DEF KeyInv
<1>3. CASE UNCHANGED keyvars
  <2>1. LinesInv' /\ Lost' = Lost /\ Dangling' = Dangling
    BY <1>3 DEF KeyInv, LinesInv, Lost, InFile, Dangling, keyvars
  <2> QED
    BY <1>3, <2>1 DEF KeyInv, keyvars
<1>4. CASE KeyNext
  BY <1>1, <1>2, <1>4, AppendStep, ShortWriteStep, DeleteStep DEF KeyNext
<1> QED
  BY <1>3, <1>4, Zenon
  DEF Next, MainStep, vars, Launch, Signal, ParseOptions, LoadKeys, OpenDevice, InitVita,
      StartServer, StartMdns, LeaveLoop, StopMdns, StopServer, ForceStop, ForceCancel,
      ForceJoin, DestroyVita, CloseDevice, ThreadExit, Connect, StartRx, StopRx, StopJoin,
      Disconnect

(* The file agrees with what keygen reported in every reachable state.     *)
LEMMA KeysAccounted == Spec => []KeyInv
<1>1. Init => KeyInv
  <2>1. SUFFICES ASSUME Init PROVE KeyInv
    OBVIOUS
  <2>2. Lost = {} /\ ~Dangling /\ LinesInv
    BY <2>1 DEF Init, KeyInit, Lost, Dangling, LinesInv
  <2>3. IsFiniteSet(acked) /\ Cardinality(Lost) = 0
    BY <2>1, <2>2, FS_EmptySet DEF Init, KeyInit
  <2> QED
    BY <2>1, <2>2, <2>3 DEF Init, KeyInit, KeyInv
<1> QED
  BY <1>1, KeyStep, PTL DEF Spec

(* A key that keygen reported stays usable: it loads as long as no write   *)
(* was cut short and the ring is large enough, overlapping keygens or not, *)
(* and each write that was cut short costs at most one key.                *)
THEOREM KeysAreKept == Spec => []AckedKeysKept
<1>1. KeyInv => CutsSpoilOneEach
  <2>1. SUFFICES ASSUME KeyInv PROVE Cardinality(Lost) <= cuts
    BY DEF CutsSpoilOneEach, Lost
  <2>2. IsFiniteSet(Lost) /\ Cardinality(Lost) \in Nat
    BY <2>1, FS_Subset, FS_CardinalityType DEF KeyInv, Lost
  <2> QED
    BY <2>1, <2>2 DEF KeyInv
<1>2. KeyInv => AckedKeyLoads
  <2>1. SUFFICES ASSUME KeyInv, cuts = 0, Len(file) <= AUTH_MAX_KEYS
                 PROVE  ~Malformed(file) /\ acked \ deleted \subseteq Ring(file)
    BY DEF AckedKeyLoads
  <2>2. /\ file \in Seq(Lines) /\ Len(file) \in Nat
        /\ \A i \in 1 .. Len(file) : file[i].secret \in Keygens
    BY <2>1 DEF KeyInv
  <2>3. Scanned(file) = file
    <3>1. Scanned(file) = SubSeq(file, 1, Len(file))
      BY <2>1, <2>2, MaxKeysAssumption DEF Scanned
    <3> QED
      BY <2>2, <3>1, SubSeqFull
  <2>4. ~Malformed(file)
    BY <2>2, <2>3, IdsAssumption DEF Malformed
  <2>5. Lost = {}
    <3>1. IsFiniteSet(Lost) /\ Cardinality(Lost) \in Nat
      BY <2>1, FS_Subset, FS_CardinalityType DEF KeyInv, Lost
    <3>2. Cardinality(Lost) = 0
      BY <2>1, <3>1 DEF KeyInv
    <3> QED
      BY <3>1, <3>2, FS_EmptySet
  <2>6. ASSUME NEW key \in acked \ deleted
        PROVE  key \in Ring(file)
    <3>1. PICK i \in 1 .. Len(file) : file[i].id = key.id /\ file[i].secret = key.secret
      BY <2>2, <2>5, <2>6 DEF Lost, InFile
    <3>2. key = [id |-> file[i].id, secret |-> file[i].secret]
      BY <2>1, <2>6, <3>1 DEF KeyInv
    <3>3. i \in DOMAIN file /\ i <= AUTH_MAX_KEYS
      BY <2>1, <2>2, <3>1, MaxKeysAssumption
    <3> QED
      BY <3>2, <3>3 DEF Ring
  <2> QED
    BY <2>4, <2>6
<1> QED
  BY <1>1, <1>2, KeysAccounted, PTL DEF AckedKeysKept

=============================================================================
