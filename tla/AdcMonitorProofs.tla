-------------------------- MODULE AdcMonitorProofs --------------------------
(***************************************************************************)
(* Proofs about AdcMonitor, for every gap and every bound on the clock and *)
(* on the count of streams.                                                *)
(***************************************************************************)
EXTENDS AdcMonitor, TLAPS

(* The rate limit and what it is measured against are the same instant,    *)
(* and an onset that was kept quiet lies within the gap after it.          *)
GapInv ==
    /\ now \in Nat /\ last \in Nat /\ missed \in Nat
    /\ last = sent
    /\ missed # NotMissed => missed - last < Gap

(* Only an event, an onset kept quiet and the clock touch them.            *)
LEMMA GapInductive ==
    ASSUME GapInv, [Next]_vars
    PROVE  GapInv'
<1> USE GapAssumption DEF GapInv, NotMissed
<1>1. CASE Tell
  BY <1>1 DEF Tell, LastAfterOnset
<1>2. CASE Mark
  BY <1>2 DEF Mark
<1>3. CASE Tick
  BY <1>3 DEF Tick, events
<1>4. CASE StartRx \/ StopRx \/ Join \/ ResetStep
  BY <1>4 DEF StartRx, StopRx, Join, ResetStep, BeginReset, LastAfterReset
<1>5. CASE \/ CreateThread \/ CreateThreadFails \/ Started \/ Stopped \/ Hello
           \/ Buffer \/ ThreadExit \/ Publish \/ Judge \/ GetStatus \/ Load
  BY <1>5, Zenon DEF CreateThread, CreateThreadFails, Started, Stopped, Hello, Buffer,
     ThreadExit, Publish, Judge, GetStatus, Load, events
<1>6. CASE UNCHANGED vars
  BY <1>6 DEF vars, events
<1>7. QED
  BY <1>1, <1>2, <1>3, <1>4, <1>5, <1>6 DEF Next, Step

(* It holds from the start.                                                *)
LEMMA GapAlways == Spec => []GapInv
<1>1. Init => GapInv
  BY GapAssumption DEF Init, GapInv, NotMissed
<1>2. QED
  BY <1>1, GapInductive, PTL DEF Spec

(* An onset that measure_adc_level kept quiet came within                  *)
(* ADC_OVERLOAD_MIN_GAP_MS after an event that was sent.                   *)
THEOREM SilenceIsExplained == Spec => []SilenceExplained
<1>1. GapInv => SilenceExplained
  BY DEF GapInv, SilenceExplained
<1>2. QED
  BY <1>1, GapAlways, PTL

(* Only Tell sends, and it compares the clock with the last event.         *)
LEMMA SpacedStep ==
    ASSUME GapInv, [Next]_vars, sent' # sent
    PROVE  sent' - sent >= Gap
<1>1. CASE Tell
  BY <1>1, GapAssumption DEF Tell, GapInv
<1>2. CASE Tick \/ Mark \/ StartRx \/ StopRx \/ Join \/ ResetStep
  BY <1>2 DEF Tick, Mark, StartRx, StopRx, Join, ResetStep, events
<1>3. CASE \/ CreateThread \/ CreateThreadFails \/ Started \/ Stopped \/ Hello
           \/ Buffer \/ ThreadExit \/ Publish \/ Judge \/ GetStatus \/ Load
  BY <1>3, Zenon DEF CreateThread, CreateThreadFails, Started, Stopped, Hello, Buffer,
     ThreadExit, Publish, Judge, GetStatus, Load, events
<1>4. CASE UNCHANGED vars
  BY <1>4 DEF vars, events
<1>5. QED
  BY <1>1, <1>2, <1>3, <1>4 DEF Next, Step

(* Two adc_overload events are ADC_OVERLOAD_MIN_GAP_MS apart, also across  *)
(* a restart of the stream.                                                *)
THEOREM EventsAreSpaced == Spec => EventsSpaced
<1>1. GapInv /\ [Next]_vars => [sent' # sent => sent' - sent >= Gap]_vars
  BY SpacedStep
<1>2. QED
  BY <1>1, GapAlways, PTL DEF Spec, EventsSpaced

-----------------------------------------------------------------------------
(* Silence between streams                                                 *)

AdcFields == {"sumsq", "n", "valid", "overload"}

(* Where the controller is says whether the bridge runs; a thread is left  *)
(* only while it runs or is being joined; and without a thread whatever    *)
(* the reset has not still to store is cleared.                            *)
ControlInv ==
    /\ count \in Nat
    /\ running \in BOOLEAN
    /\ ctl \in {"recv", "started", "stop_reset", "stopped"} =>
          running = IF count = 0 THEN FALSE ELSE TRUE
    /\ ctl \in {"start_reset", "create"} => running = FALSE /\ count = 1
    /\ ctl = "join" => running = FALSE /\ count = 0
    /\ ctl \in {"recv", "start_reset", "create", "started", "join", "stop_reset",
                "stopped"}
    /\ ctl \notin {"start_reset", "stop_reset"} => resetting = {}
    /\ resetting \subseteq AdcFields
    /\ thread # "none" => running = TRUE \/ ctl = "join"

ClearedInv ==
    /\ adc = [f \in AdcFields |-> adc[f]]
    /\ publishing \subseteq Fields
    /\ running = FALSE /\ ctl # "join" => \A f \in AdcFields \ resetting : adc[f] = Cleared[f]

(* rtl_bridge_stop joins before it resets, and the next start follows.     *)
LEMMA ControlInductive ==
    ASSUME ControlInv, [Next]_vars
    PROVE  ControlInv'
<1> USE CountAssumption DEF ControlInv
<1>1. CASE StartRx
  <2>1. ctl = "recv" /\ resetting = {} /\ count' = count + 1
    BY <1>1 DEF StartRx
  <2>2. UNCHANGED <<running, thread>>
    BY <1>1 DEF StartRx, usb
  <2>3. CASE count = 0
    <3>1. ctl' = "start_reset" /\ resetting' = AdcFields /\ count' = 1
      BY <1>1, <2>1, <2>3 DEF StartRx, BeginReset, ResetStores, Fields, AdcFields
    <3>2. running = FALSE /\ thread = "none"
      BY <2>1, <2>3
    <3>3. QED
      BY <2>2, <3>1, <3>2
  <2>4. CASE count # 0
    <3>1. ctl' = "started" /\ resetting' = {} /\ count' \in Nat \ {0}
      BY <1>1, <2>1, <2>4 DEF StartRx
    <3>2. running = TRUE
      BY <2>1, <2>4
    <3>3. QED
      BY <2>2, <3>1, <3>2
  <2>5. QED
    BY <2>3, <2>4, Zenon
<1>2. CASE CreateThread \/ CreateThreadFails
  <2>1. CASE CreateThread
    BY <1>2, <2>1 DEF CreateThread, level
  <2>2. CASE CreateThreadFails
    <3>1. /\ ctl = "create" /\ ctl' = "recv" /\ count' = count - 1
          /\ UNCHANGED <<running, resetting, thread>>
      BY <2>2 DEF CreateThreadFails, level, usb
    <3>2. count' = 0
      BY <3>1
    <3>3. running' = FALSE /\ thread' = "none" /\ resetting' = {} /\ ctl' = "recv"
      BY <3>1
    <3>4. QED
      BY <3>2, <3>3, Zenon
  <2>3. QED
    BY <1>2, <2>1, <2>2, Zenon
<1>3. CASE Started \/ Stopped \/ Hello
  <2>1. /\ ctl \in {"recv", "started", "stopped"} /\ ctl' = "recv"
        /\ UNCHANGED <<count, running, resetting, thread>>
    BY <1>3 DEF Started, Stopped, Hello, level, usb
  <2>2. QED
    BY <2>1, Zenon
<1>4. CASE StopRx
  <2>1. /\ ctl = "recv" /\ resetting = {} /\ UNCHANGED thread
        /\ count' = IF count = 0 THEN 0 ELSE count - 1
    BY <1>4 DEF StopRx, usb
  <2>2. count' \in Nat
    BY <2>1
  <2>3. CASE count' = 0 /\ running = TRUE
    <3>1. ctl' = "join" /\ running' = FALSE /\ resetting' = {}
      BY <1>4, <2>1, <2>3, Zenon DEF StopRx
    <3>2. QED
      BY <2>2, <2>3, <3>1, Zenon
  <2>4. CASE ~(count' = 0 /\ running = TRUE)
    <3>1. ctl' = "stop_reset" /\ resetting' = AdcFields /\ UNCHANGED running
      BY <1>4, <2>1, <2>4 DEF StopRx, BeginReset, ResetStores, Fields, AdcFields
    <3>2. count = 0 <=> count' = 0
      BY <2>1, <2>4, Zenon
    <3>3. QED
      BY <2>1, <2>2, <3>1, <3>2, Zenon
  <2>5. QED
    BY <2>3, <2>4, Zenon
<1>5. CASE Join
  <2>1. /\ ctl = "join" /\ thread = "none" /\ ctl' = "stop_reset"
        /\ resetting' = AdcFields
        /\ UNCHANGED <<count, running, thread>>
    BY <1>5 DEF Join, Joined, BeginReset, ResetStores, Fields, AdcFields, usb
  <2>2. QED
    BY <2>1, Zenon
<1>6. CASE ResetStep
  <2>1. /\ ctl \in {"start_reset", "stop_reset"}
        /\ \/ ctl' = ctl
           \/ resetting' = {} /\ ctl = "start_reset" /\ ctl' = "create"
           \/ resetting' = {} /\ ctl = "stop_reset" /\ ctl' = "stopped"
        /\ resetting' \subseteq resetting
        /\ UNCHANGED <<count, running, thread>>
    BY <1>6 DEF ResetStep, usb
  <2>2. QED
    BY <2>1, Zenon
<1>7. CASE Buffer \/ ThreadExit \/ Publish \/ Judge \/ Mark \/ Tell
  BY <1>7, Zenon DEF Buffer, ThreadExit, Publish, Judge, Mark, Tell, bridge, level
<1>8. CASE GetStatus \/ Load \/ Tick \/ UNCHANGED vars
  <2>1. UNCHANGED <<count, running, ctl, resetting, thread>>
    BY <1>8, Zenon DEF GetStatus, Load, Tick, vars, bridge, level, usb
  <2>2. QED
    BY <2>1, Zenon
<1>9. QED
  BY <1>1, <1>2, <1>3, <1>4, <1>5, <1>6, <1>7, <1>8, Zenon DEF Next, Step

(* Only the USB thread publishes a level, and each store of a reset        *)
(* clears its field.                                                       *)
LEMMA ClearedInductive ==
    ASSUME ControlInv, ClearedInv, [Next]_vars
    PROVE  ClearedInv'
<1> USE DEF ClearedInv, ControlInv
<1>1. CASE StartRx
  BY <1>1 DEF StartRx, BeginReset, ResetStores, Fields, AdcFields, usb
<1>2. CASE CreateThread \/ CreateThreadFails
  BY <1>2 DEF CreateThread, CreateThreadFails, level, usb
<1>3. CASE Started \/ Stopped \/ Hello
  BY <1>3 DEF Started, Stopped, Hello, level, usb
<1>4. CASE StopRx \/ Join
  BY <1>4 DEF StopRx, Join, BeginReset, ResetStores, Fields, AdcFields, usb
<1>5. CASE ResetStep
  <2>1. PICK f \in resetting :
            /\ adc' = [adc EXCEPT ![f] = Cleared[f]]
            /\ resetting' = resetting \ {f}
    BY <1>5 DEF ResetStep
  <2>2. UNCHANGED <<running, publishing>> /\ ctl # "join"
    BY <1>5 DEF ResetStep, usb
  <2>3. f \in AdcFields
    BY <2>1
  <2>4. adc' = [g \in AdcFields |-> IF g = f THEN Cleared[f] ELSE adc[g]]
    BY <2>1, <2>3
  <2>5. QED
    BY <2>1, <2>2, <2>3, <2>4
<1>6. CASE Publish
  <2>1. PICK f \in publishing :
            /\ adc' = [adc EXCEPT ![f] = Published[f]]
            /\ publishing' = publishing \ {f}
    BY <1>6 DEF Publish
  <2>2. UNCHANGED <<running, ctl, resetting>> /\ (running = TRUE \/ ctl = "join")
    BY <1>6 DEF Publish, bridge
  <2>3. f \in AdcFields
    BY <2>1 DEF Fields, AdcFields
  <2>4. adc' = [g \in AdcFields |-> IF g = f THEN Published[f] ELSE adc[g]]
    BY <2>1, <2>3
  <2>5. QED
    BY <2>1, <2>2, <2>4
<1>7. CASE Mark
  <2>1. UNCHANGED <<running, ctl, resetting, publishing>> /\ (running = TRUE \/ ctl = "join")
    BY <1>7 DEF Mark, bridge
  <2>2. adc' = [g \in AdcFields |-> IF g = "overload" THEN clip ELSE adc[g]]
    BY <1>7 DEF Mark, AdcFields
  <2>3. QED
    BY <2>1, <2>2
<1>8. CASE Buffer \/ ThreadExit \/ Judge \/ Tell
  BY <1>8 DEF Buffer, ThreadExit, Judge, Tell, bridge, level
<1>9. CASE GetStatus \/ Load \/ Tick
  BY <1>9, Zenon DEF GetStatus, Load, Tick, bridge, level, usb
<1>10. CASE UNCHANGED vars
  BY <1>10 DEF vars, bridge, level, usb
<1>11. QED
  BY <1>1, <1>2, <1>3, <1>4, <1>5, <1>6, <1>7, <1>8, <1>9, <1>10, Zenon DEF Next, Step

(* The daemon starts with no level.                                        *)
LEMMA SilentInit ==
    ASSUME Init
    PROVE  ControlInv /\ ClearedInv
<1>1. ControlInv
  BY Zenon DEF Init, ControlInv
<1>2. Cleared = [f \in AdcFields |-> Cleared[f]]
  BY DEF Cleared, AdcFields
<1>3. ClearedInv
  BY <1>2 DEF Init, ClearedInv
<1>4. QED
  BY <1>1, <1>3

(* Once rtl_bridge_stop has returned, neither a level nor an overload is   *)
(* left of the stream: the join comes before the reset, so no buffer that  *)
(* was in hand is published after it.                                      *)
THEOREM IdleStaysSilent == Spec => []IdleIsSilent
<1>1. Init => ControlInv /\ ClearedInv
  BY SilentInit
<1>2. ControlInv /\ ClearedInv => IdleIsSilent
  <2>1. Cleared = [f \in AdcFields |-> Cleared[f]]
    BY DEF Cleared, AdcFields
  <2>2. QED
    BY <2>1 DEF ControlInv, ClearedInv, IdleIsSilent
<1>3. QED
  BY <1>1, <1>2, ControlInductive, ClearedInductive, PTL DEF Spec

-----------------------------------------------------------------------------
(* The edge                                                                *)

(* The flag that says whether the last buffer clipped is down, and was     *)
(* read down, only when an onset may follow.                               *)
EdgeInv ==
    /\ clip \in BOOLEAN
    /\ adc["overload"] = FALSE => armed = TRUE
    /\ thread = "mark" /\ was = FALSE => armed = TRUE

(* measure_adc_level reads the flag and then stores it, for each buffer.   *)
LEMMA EdgeInductive ==
    ASSUME ClearedInv, EdgeInv, [Next]_vars
    PROVE  EdgeInv'
<1> USE DEF EdgeInv
<1>1. CASE ResetStep
  BY <1>1 DEF ResetStep, usb
<1>2. CASE Publish
  <2>1. UNCHANGED <<clip, was, armed>> /\ thread' # "mark"
    BY <1>2 DEF Publish, events
  <2>2. adc'["overload"] = adc["overload"]
    BY <1>2 DEF Publish, ClearedInv, Fields, AdcFields
  <2>3. QED
    BY <2>1, <2>2
<1>3. CASE Judge
  <2>1. /\ UNCHANGED <<clip, adc, armed>>
        /\ was' = adc["overload"]
    BY <1>3 DEF Judge, level, events
  <2>2. QED
    BY <2>1
<1>4. CASE Mark
  <2>1. /\ UNCHANGED clip /\ armed' = ~clip /\ thread' # "mark"
    BY <1>4 DEF Mark
  <2>2. adc'["overload"] = clip
    BY <1>4 DEF Mark, ClearedInv, AdcFields
  <2>3. QED
    BY <2>1, <2>2, Zenon
<1>5. CASE Buffer \/ ThreadExit \/ Tell
  <2>1. /\ clip' \in BOOLEAN /\ thread' # "mark"
        /\ UNCHANGED <<adc, armed>>
    BY <1>5 DEF Buffer, ThreadExit, Tell, level, events
  <2>2. QED
    BY <2>1
<1>6. CASE CreateThread
  BY <1>6 DEF CreateThread, level, events
<1>7. CASE \/ StartRx \/ CreateThreadFails \/ Started \/ StopRx \/ Join \/ Stopped
           \/ Hello \/ GetStatus \/ Load \/ Tick \/ UNCHANGED vars
  <2>1. UNCHANGED <<clip, was, armed, adc, thread>>
    BY <1>7, Zenon DEF StartRx, CreateThreadFails, Started, StopRx, Join, Stopped, Hello,
       GetStatus, Load, Tick, vars, usb, level, events
  <2>2. QED
    BY <2>1
<1>8. QED
  BY <1>1, <1>2, <1>3, <1>4, <1>5, <1>6, <1>7, Zenon DEF Next, Step

(* An onset is a clipping buffer that read the flag down.                  *)
LEMMA EdgeStep ==
    ASSUME EdgeInv, [Next]_vars, thread = "mark", thread' = "tell"
    PROVE  armed
<1>1. was = FALSE
  <2>1. Mark
    BY DEF Next, Step, StartRx, CreateThread, CreateThreadFails, Started, StopRx, Join,
       ResetStep, Stopped, Hello, Buffer, ThreadExit, Publish, Judge, Tell, GetStatus,
       Load, Tick, vars, usb
  <2>2. QED
    BY <2>1, SMTT(30) DEF Mark, Onset
<1>2. QED
  BY <1>1 DEF EdgeInv

(* measure_adc_level takes a clipping buffer for an onset only when the    *)
(* buffer before it did not clip, or a reset came in between.              *)
THEOREM EventsAreEdges == Spec => EdgeTriggered
<1>1. Init => ControlInv /\ ClearedInv /\ EdgeInv
  BY SilentInit, Zenon DEF Init, EdgeInv
<1>2. EdgeInv /\ [Next]_vars => [thread = "mark" /\ thread' = "tell" => armed]_vars
  BY EdgeStep
<1>3. QED
  BY <1>1, <1>2, ControlInductive, ClearedInductive, EdgeInductive, PTL
     DEF Spec, EdgeTriggered

(* The adc_overload events are edge-triggered, ADC_OVERLOAD_MIN_GAP_MS     *)
(* apart, and an onset is kept quiet only by an event that was sent.       *)
THEOREM OverloadEventsHold == Spec => OverloadEvents
BY EventsAreSpaced, EventsAreEdges, SilenceIsExplained, PTL DEF OverloadEvents
-----------------------------------------------------------------------------
(* The name of the stream                                                  *)

(* Unless hello was repeated since the thread was created, the bridge is   *)
(* counted once, and by a session that is marked as streaming or about to  *)
(* be; a stop that does not join finds nothing to stop.                    *)
NameInv ==
    ~rehello =>
        /\ count <= 1
        /\ ctl = "recv" /\ count = 1 => streaming
        /\ ctl \in {"stop_reset", "stopped"} => count = 0
        /\ thread # "none" => streaming \/ ctl = "started"

(* Only a repeated hello lets start_rx count the bridge twice.             *)
LEMMA NameInductive ==
    ASSUME ControlInv, NameInv, [Next]_vars
    PROVE  NameInv'
<1>1. CASE StartRx
  <2>1. SUFFICES ASSUME ~rehello
                 PROVE  NameInv'
    BY <1>1 DEF StartRx, NameInv
  <2>2. count = 0 /\ thread = "none"
    BY <1>1, <2>1 DEF StartRx, NameInv, ControlInv
  <2>3. count' = 1 /\ ctl' = "start_reset" /\ thread' = "none"
    BY <1>1, <2>2 DEF StartRx, BeginReset, usb
  <2> QED
    BY <2>3 DEF NameInv
<1>2. CASE CreateThread
  BY <1>2 DEF CreateThread, ControlInv, NameInv
<1>3. CASE CreateThreadFails
  <2>1. count' = 0 /\ ctl' = "recv" /\ thread' = "none"
    BY <1>3 DEF CreateThreadFails, ControlInv, usb
  <2> QED
    BY <2>1 DEF NameInv
<1>4. CASE Started
  BY <1>4 DEF Started, NameInv, usb
<1>5. CASE StopRx
  <2>1. SUFFICES ASSUME ~rehello
                 PROVE  NameInv'
    BY <1>5 DEF StopRx, NameInv
  <2>2. /\ ctl = "recv" /\ streaming /\ streaming' /\ count \in {0, 1} /\ count' = 0
    BY <1>5, <2>1 DEF StopRx, StateWhileStopping, NameInv, ControlInv
  <2>3. ctl' \in {"join", "stop_reset"}
    BY <1>5 DEF StopRx, BeginReset
  <2> QED
    BY <2>2, <2>3 DEF NameInv
<1>6. CASE Join
  BY <1>6 DEF Join, Joined, BeginReset, ControlInv, NameInv, usb
<1>7. CASE ResetStep
  BY <1>7 DEF ResetStep, ControlInv, NameInv, usb
<1>8. CASE Stopped
  BY <1>8 DEF Stopped, ControlInv, NameInv, usb
<1>9. CASE Hello
  BY <1>9 DEF Hello, NameInv
<1>10. CASE Buffer \/ ThreadExit \/ Publish \/ Judge \/ Mark \/ Tell
  BY <1>10 DEF Buffer, ThreadExit, Publish, Judge, Mark, Tell, bridge, NameInv
<1>11. CASE GetStatus \/ Load \/ Tick \/ UNCHANGED vars
  BY <1>11, Zenon DEF GetStatus, Load, Tick, vars, bridge, usb, NameInv
<1> QED
  BY <1>1, <1>2, <1>3, <1>4, <1>5, <1>6, <1>7, <1>8, <1>9, <1>10, <1>11 DEF Next, Step

(* Only Tell sends, with the name of a session that streams.               *)
LEMMA NamedStep ==
    ASSUME NameInv, [Next]_vars, sent' # sent
    PROVE  named' \/ ctl = "started" \/ rehello
<1>1. CASE Tell
  BY <1>1 DEF Tell, NameInv
<1>2. CASE Tick \/ Mark \/ StartRx \/ StopRx \/ Join \/ ResetStep
  BY <1>2 DEF Tick, Mark, StartRx, StopRx, Join, ResetStep, events
<1>3. CASE \/ CreateThread \/ CreateThreadFails \/ Started \/ Stopped \/ Hello
           \/ Buffer \/ ThreadExit \/ Publish \/ Judge \/ GetStatus \/ Load
  BY <1>3, Zenon DEF CreateThread, CreateThreadFails, Started, Stopped, Hello, Buffer,
     ThreadExit, Publish, Judge, GetStatus, Load, events
<1>4. CASE UNCHANGED vars
  BY <1>4 DEF vars, events
<1> QED
  BY <1>1, <1>2, <1>3, <1>4 DEF Next, Step

(* An adc_overload event goes out without the id of a stream only from the *)
(* first buffers, before start_rx has marked its session, or after hello   *)
(* was repeated; a stop that is under way takes the name of no event.      *)
THEOREM EventsAreNamed == Spec => UnnamedExplained
<1>1. Init => NameInv
  BY DEF Init, NameInv
<1>2. Init => ControlInv
  BY SilentInit
<1>3. NameInv /\ [Next]_vars => [sent' # sent => named' \/ ctl = "started" \/ rehello]_vars
  BY NamedStep, SMTT(30)
<1> QED
  BY <1>1, <1>2, <1>3, ControlInductive, NameInductive, PTL DEF Spec, UnnamedExplained

-----------------------------------------------------------------------------
(* The level that get_status reads                                         *)

AllPublished == \A f \in Fields : adc[f] = Published[f]
AllCleared == \A f \in Fields : adc[f] = Cleared[f]
HalfPublished ==
    \A f \in Fields : adc[f] = IF f \in publishing THEN Cleared[f] ELSE Published[f]

(* A get_status that nothing met has loaded what is still stored; and the  *)
(* fields belong to one buffer, or to none, except while a buffer replaces *)
(* a reset.                                                                *)
AnswerInv ==
    /\ publishing # {} => thread = "publish"
    /\ loads \subseteq Fields /\ got = [f \in Fields |-> got[f]]
    /\ loads # {} /\ ~overlapped => \A f \in Fields \ loads : got[f] = adc[f]
    /\ loads # {} /\ ~overlapped /\ ~rehello => AllPublished \/ AllCleared
    /\ resetting = {} /\ ~rehello => \/ AllPublished \/ HalfPublished
                                     \/ publishing = {} /\ AllCleared

(* Without a repeated hello no reset meets the stores of a buffer, and a   *)
(* reset that has stored everything leaves the fields cleared.             *)
LEMMA AnswerInductive ==
    ASSUME ControlInv, ClearedInv, NameInv, AnswerInv, ControlInv', ClearedInv',
           [Next]_vars
    PROVE  AnswerInv'
<1> USE DEF AnswerInv, AllPublished, AllCleared, HalfPublished
<1>1. ASSUME UNCHANGED <<publishing, adc, reader, overlapped>>,
             rehello' = rehello \/ rehello',
             resetting' = resetting \/ resetting' # {},
             publishing # {} => thread' = thread
      PROVE  AnswerInv'
  BY <1>1 DEF reader
<1>2. CASE StartRx \/ StopRx \/ Join \/ Hello
  <2>1. /\ UNCHANGED <<publishing, adc, reader, overlapped, thread>>
        /\ rehello' = rehello \/ rehello'
        /\ resetting' = resetting \/ resetting' # {}
    BY <1>2 DEF StartRx, StopRx, Join, Hello, BeginReset, ResetStores, usb, level, reader
  <2> QED
    BY <1>1, <2>1
<1>3. CASE CreateThread
  <2>1. /\ UNCHANGED <<publishing, adc, reader, overlapped, resetting>>
        /\ thread = "none" /\ ctl = "create" /\ running = FALSE
    BY <1>3 DEF CreateThread, ControlInv, level, reader
  <2>2. publishing = {} /\ AllCleared
    BY <2>1 DEF ClearedInv, ControlInv, Fields, AdcFields
  <2> QED
    BY <2>1, <2>2 DEF reader
<1>4. CASE CreateThreadFails \/ Started \/ Stopped \/ Judge \/ Tell \/ ThreadExit \/ Tick
           \/ UNCHANGED vars
  <2>1. /\ UNCHANGED <<publishing, adc, reader, overlapped, rehello, resetting>>
        /\ thread' = thread \/ thread # "publish"
    BY <1>4 DEF CreateThreadFails, Started, Stopped, Judge, Tell, ThreadExit, Tick, vars,
                usb, level, reader, bridge
  <2> QED
    BY <1>1, <2>1
<1>5. CASE ResetStep
  <2>1. /\ UNCHANGED <<publishing, reader, thread, rehello, count, running>>
        /\ overlapped' = (loads # {}) /\ resetting # {}
    BY <1>5 DEF ResetStep, reader, usb
  <2>2. loads' # {} => overlapped'
    BY <2>1, Zenon DEF reader
  <2>3. ASSUME resetting' = {}, ~rehello
        PROVE  publishing = {} /\ AllCleared'
    <3>1. ctl \in {"start_reset", "stop_reset"}
      BY <2>1 DEF ControlInv
    <3>2. running = FALSE /\ ctl' # "join" /\ thread = "none"
      BY <1>5, <2>3, <3>1, Zenon DEF ResetStep, ControlInv, NameInv
    <3> QED
      BY <2>1, <2>3, <3>2 DEF ClearedInv, Fields, AdcFields
  <2> QED
    BY <2>1, <2>2, <2>3 DEF reader
<1>6. CASE Buffer
  <2>1. /\ UNCHANGED <<adc, reader, overlapped, rehello, resetting>>
        /\ publishing' = Fields /\ thread' = "publish" /\ publishing = {}
    BY <1>6 DEF Buffer, level, reader, bridge
  <2> QED
    BY <2>1 DEF reader
<1>7. CASE Mark
  <2>1. /\ UNCHANGED <<publishing, reader, overlapped, rehello, resetting>>
        /\ publishing = {}
    BY <1>7 DEF Mark, reader, bridge
  <2>2. \A f \in Fields : adc'[f] = adc[f]
    BY <1>7 DEF Mark, ClearedInv, Fields, AdcFields
  <2> QED
    BY <2>1, <2>2 DEF reader
<1>8. CASE Publish
  <2>1. PICK f \in publishing :
            /\ adc' = [adc EXCEPT ![f] = Published[f]]
            /\ publishing' = publishing \ {f}
    BY <1>8, Zenon DEF Publish
  <2>2. /\ UNCHANGED <<reader, rehello, resetting>>
        /\ thread' = IF publishing' = {} THEN "judge" ELSE "publish"
    BY <1>8 DEF Publish, reader, bridge
  <2>3. f \in Fields /\ \A g \in Fields : adc'[g] = IF g = f THEN Published[g] ELSE adc[g]
    BY <2>1 DEF ClearedInv, Fields, AdcFields
  <2>4. loads # {} /\ ~overlapped' => ~overlapped /\ adc' = adc
    BY <1>8, Zenon DEF Publish
  <2>5. resetting = {} /\ ~rehello => AllPublished' \/ HalfPublished'
    BY <2>1, <2>3
  <2> QED
    BY <2>1, <2>2, <2>4, <2>5 DEF reader
<1>9. CASE GetStatus
  <2>1. /\ UNCHANGED <<got, adc, resetting, rehello, publishing, thread>>
        /\ loads' = Fields
    BY <1>9 DEF GetStatus, bridge, usb
  <2>2. ~overlapped' => resetting = {} /\ (publishing = {} \/ AllPublished)
    BY <1>9 DEF GetStatus
  <2>3. ~overlapped' /\ ~rehello => AllPublished \/ AllCleared
    BY <2>2
  <2> QED
    BY <2>1, <2>3
<1>10. CASE Load
  <2>1. PICK f \in loads :
            LET g == [got EXCEPT ![f] = adc[f]]
            IN  /\ loads' = loads \ {f}
                /\ IF loads' = {}
                   THEN answer' = Reported(g) /\ got' = NoLoads /\ overlapped' = FALSE
                   ELSE got' = g /\ UNCHANGED <<answer, overlapped>>
    BY <1>10 DEF Load
  <2>2. UNCHANGED <<adc, resetting, rehello, publishing, thread>>
    BY <1>10 DEF Load, bridge, usb
  <2>3. CASE loads' = {}
    BY <2>1, <2>2, <2>3 DEF NoLoads
  <2>4. CASE loads' # {}
    <3>1. got' = [got EXCEPT ![f] = adc[f]] /\ overlapped' = overlapped /\ f \in Fields
      BY <2>1, <2>4
    <3>2. /\ got' = [h \in Fields |-> got'[h]] /\ got'[f] = adc[f]
          /\ \A h \in Fields : h # f => got'[h] = got[h]
      BY <3>1
    <3> QED
      BY <2>1, <2>2, <2>4, <3>1, <3>2
  <2> QED
    BY <2>3, <2>4
<1> QED
  BY <1>2, <1>3, <1>4, <1>5, <1>6, <1>7, <1>8, <1>9, <1>10 DEF Next, Step

(* The last load decides: what a get_status that nothing met has loaded is *)
(* one buffer's, whose sum is not zero, or a reset's, whose count is.      *)
LEMMA AnswerStep ==
    ASSUME AnswerInv, [Next]_vars, loads # {}, loads' = {}
    PROVE  answer' # "nan" /\ (answer' = "floor" => overlapped \/ rehello)
<1>1. Load
  BY Zenon DEF Next, Step, StartRx, CreateThread, CreateThreadFails, Started, StopRx, Join,
     ResetStep, Stopped, Hello, Buffer, ThreadExit, Publish, Judge, Mark, Tell, GetStatus,
     Tick, vars, reader, Fields
<1>2. PICK f \in loads : loads' = loads \ {f} /\ answer' = Reported([got EXCEPT ![f] = adc[f]])
  BY <1>1 DEF Load
<1>3. PICK g : g = [got EXCEPT ![f] = adc[f]]
  BY Zenon
<1>4. answer' # "nan" /\ (answer' = "floor" => g.valid # 0 /\ g.n # 0 /\ g.sumsq = 0)
  BY <1>2, <1>3 DEF Reported
<1>5. ASSUME ~overlapped, ~rehello
      PROVE  ~(g.valid # 0 /\ g.n # 0 /\ g.sumsq = 0)
  <2>1. \A h \in Fields : g[h] = adc[h]
    BY <1>2, <1>3, <1>5 DEF AnswerInv
  <2>2. \/ \A h \in Fields : g[h] = Published[h]
        \/ \A h \in Fields : g[h] = Cleared[h]
    BY <1>5, <2>1 DEF AnswerInv, AllPublished, AllCleared
  <2> QED
    BY <2>2 DEF Fields, Published, Cleared, Measured
<1> QED
  BY <1>4, <1>5

(* get_status reports no 0/0, and the floor of -120 dBFS for a signal only *)
(* when a reset, or the first buffer after one, met its loads, or after    *)
(* hello was repeated.                                                     *)
THEOREM AnswersAreExplained == Spec => AnswersExplained
<1>1. Init => ControlInv /\ ClearedInv
  BY SilentInit
<1>2. Init => NameInv /\ AnswerInv
  BY DEF Init, NameInv, AnswerInv, AllCleared, NoLoads, Fields
<1>3. AnswerInv /\ [Next]_vars =>
          [loads # {} /\ loads' = {} =>
              answer' # "nan" /\ (answer' = "floor" => overlapped \/ rehello)]_vars
  BY AnswerStep
<1> QED
  BY <1>1, <1>2, <1>3, ControlInductive, ClearedInductive, NameInductive, AnswerInductive,
     PTL
  DEF Spec, AnswersExplained
=============================================================================
