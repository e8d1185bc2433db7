----------------------------- MODULE AdcMonitor -----------------------------
(***************************************************************************)
(* The ADC level and the overload event of rtl/rtl_bridge.c: the USB       *)
(* thread measures every buffer, get_status reads the level from a session *)
(* thread, start_rx and stop_rx reset it.                                  *)
(*                                                                         *)
(* The level is three atomics, written and read with memory_order_relaxed: *)
(* a group of stores, and a group of loads, happens in any order, and the  *)
(* two interleave.  The mutexes that the USB thread takes to send and the  *)
(* creation and the join of the thread keep a group from moving further.   *)
(*                                                                         *)
(* RxStream shows that one session at a time drives the stream, so one     *)
(* controller stands for the sessions that do so one after the other.  A   *)
(* repeated hello takes Session.state back while the stream runs on; the   *)
(* next start_rx then counts the bridge twice.  That a cancel can be lost  *)
(* is left to RxStream.                                                    *)
(***************************************************************************)
EXTENDS Integers, FiniteSets

CONSTANTS
    Gap,        \* ADC_OVERLOAD_MIN_GAP_MS
    MaxTime,    \* bound on the clock
    MaxCount    \* bound on s_stream_count

ASSUME GapAssumption == Gap \in Nat \ {0} /\ MaxTime \in Nat /\ MaxTime > Gap
ASSUME CountAssumption == MaxCount \in Nat \ {0}

(* A measured buffer has one sum of squares and one count that matter: not *)
(* zero.  RTL_ASYNC_BUF_LEN makes every buffer equally long.               *)
Measured == 1

(* What get_status reports: JSON null, a level, the floor of -120 dBFS     *)
(* that stands for a sum of zero, or what 0/0 would give.                  *)
Answers == {"null", "level", "floor", "nan"}

VARIABLES
    ctl,        \* the next step of the controlling session
    streaming,  \* its Session.state is SESSION_STREAMING
    count,      \* s_stream_count
    running,    \* s_running
    thread,     \* the next step of the USB thread; "none": not created
    clip,       \* the buffer in hand has too many clipped samples
    was,        \* the value of g_adc_overload that measure_adc_level read
    adc,        \* s_adc_sumsq, s_adc_n, s_adc_level_valid, g_adc_overload
    resetting,  \* the stores that rtl_reset_adc_level has still to do
    publishing, \* the stores that measure_adc_level has still to do
    now,        \* CLOCK_MONOTONIC
    last,       \* s_last_overload_ms
    loads,      \* the loads of a get_status under way that are still to do
    got,        \* what its other loads returned
    answer,     \* what the last get_status reported
    overlapped, \* a reset or a first publication met that get_status
    sent,       \* when the last adc_overload event was sent, and with the
    named,      \* ... id of a stream or without one
    armed,      \* the last buffer did not clip, or a reset came since
    missed,     \* when the clipping under way began, if no event said so
    rehello,    \* hello was repeated while the stream ran
    client      \* a client polls get_status, or waits for events while time
                \* passes; neither has an effect on what the other sees

bridge == <<ctl, streaming, count, running, rehello>>
usb == <<thread, clip, was, publishing>>
level == <<adc, resetting, overlapped>>
reader == <<loads, got, answer>>
events == <<last, sent, named, armed, missed>>
vars == <<bridge, usb, level, reader, events, now, client>>

Fields == {"sumsq", "n", "valid"}
Cleared == [sumsq |-> 0, n |-> 0, valid |-> 0, overload |-> FALSE]
Published == [sumsq |-> Measured, n |-> Measured, valid |-> 1]
NoLoads == [f \in Fields |-> 0]
NotMissed == 0

Init ==
    /\ ctl = "recv" /\ streaming = FALSE /\ count = 0 /\ running = FALSE
    /\ thread = "none" /\ clip = FALSE /\ was = FALSE
    /\ adc = Cleared
    /\ resetting = {} /\ publishing = {}
    /\ now = Gap /\ last = 0
    /\ loads = {} /\ got = NoLoads /\ answer = "null"
    /\ overlapped = FALSE
    /\ sent = 0 /\ named = TRUE /\ armed = TRUE /\ missed = NotMissed
    /\ rehello = FALSE
    /\ client \in {"polls", "waits"}

-----------------------------------------------------------------------------
(* start_rx, stop_rx and the bridge                                        *)

(* Fault: only the sum is cleared.                                         *)
ResetStores_SumOnly == {"sumsq", "overload"}

ResetStores == Fields \cup {"overload"}

(* Fault: the reset also forgets when the last event was sent.             *)
LastAfterReset_Forget == 0

LastAfterReset == last

BeginReset(label) ==
    /\ ctl' = label
    /\ resetting' = ResetStores
    /\ last' = LastAfterReset

(* rtl_reset_adc_level, one store; the last one lets the caller go on.     *)
ResetStep ==
    /\ \E f \in resetting :
          /\ adc' = [adc EXCEPT ![f] = Cleared[f]]
          /\ resetting' = resetting \ {f}
    /\ IF resetting' # {} THEN UNCHANGED ctl
       ELSE ctl' = IF ctl = "start_reset" THEN "create" ELSE "stopped"
    /\ overlapped' = (loads # {})
    /\ armed' = TRUE
    /\ UNCHANGED <<streaming, count, running, rehello, usb, reader, last, sent, named,
                   missed, now>>

(* rtl_bridge_start, called by start_rx.                                   *)
StartRx ==
    /\ ctl = "recv" /\ ~streaming
    /\ count < MaxCount
    /\ count' = count + 1
    /\ IF count' = 1
       THEN BeginReset("start_reset")
       ELSE ctl' = "started" /\ UNCHANGED <<resetting, last>>
    /\ UNCHANGED <<streaming, running, rehello, usb, adc, overlapped, reader, sent, named,
                   armed, missed, now>>

CreateThread ==
    /\ ctl = "create"
    /\ running' = TRUE
    /\ thread' = "waiting"
    /\ ctl' = "started"
    /\ rehello' = FALSE
    /\ UNCHANGED <<streaming, count, clip, was, publishing, level, reader, events, now>>

CreateThreadFails ==
    /\ ctl = "create"
    /\ count' = count - 1
    /\ ctl' = "recv"
    /\ UNCHANGED <<streaming, running, rehello, usb, level, reader, events, now>>

(* s->state = SESSION_STREAMING, after rtl_bridge_start has returned.      *)
Started ==
    /\ ctl = "started"
    /\ streaming' = TRUE
    /\ ctl' = "recv"
    /\ UNCHANGED <<count, running, rehello, usb, level, reader, events, now>>

(* Fault: the thread is not waited for.                                    *)
Joined_NoWait == TRUE

(* pthread_join                                                            *)
Joined == thread = "none"

(* Fault: the session's state is taken back before the stream is stopped.  *)
StateWhileStopping_Early == FALSE

StateWhileStopping == streaming

(* rtl_bridge_stop, called by stop_rx, close_stream and session_destroy.   *)
StopRx ==
    /\ ctl = "recv" /\ streaming
    /\ streaming' = StateWhileStopping
    /\ count' = IF count = 0 THEN 0 ELSE count - 1
    /\ IF count' = 0 /\ running
       THEN running' = FALSE /\ ctl' = "join" /\ UNCHANGED <<resetting, last>>
       ELSE UNCHANGED running /\ BeginReset("stop_reset")
    /\ UNCHANGED <<rehello, usb, adc, overlapped, reader, sent, named, armed, missed, now>>

Join ==
    /\ ctl = "join" /\ Joined
    /\ BeginReset("stop_reset")
    /\ UNCHANGED <<streaming, count, running, rehello, usb, adc, overlapped, reader, sent,
                   named, armed, missed, now>>

Stopped ==
    /\ ctl = "stopped"
    /\ streaming' = FALSE
    /\ ctl' = "recv"
    /\ UNCHANGED <<count, running, rehello, usb, level, reader, events, now>>

(* s->state = SESSION_IDLE, whatever it was.                               *)
Hello ==
    /\ ctl = "recv" /\ streaming
    /\ streaming' = FALSE
    /\ rehello' = TRUE
    /\ UNCHANGED <<ctl, count, running, usb, level, reader, events, now>>

-----------------------------------------------------------------------------
(* The USB thread                                                          *)

(* rtlsdr_read_async hands over a buffer; rtl_callback returns at once     *)
(* when s_running is false.                                                *)
Buffer ==
    /\ thread = "waiting" /\ running
    /\ clip' \in BOOLEAN
    /\ publishing' = Fields
    /\ thread' = "publish"
    /\ UNCHANGED <<was, bridge, level, reader, events, now>>

(* rtlsdr_read_async returns after the cancel.                             *)
ThreadExit ==
    /\ thread = "waiting" /\ ~running
    /\ thread' = "none"
    /\ UNCHANGED <<clip, was, publishing, bridge, level, reader, events, now>>

(* measure_adc_level: the three stores that publish the level.             *)
Publish ==
    /\ thread = "publish"
    /\ \E f \in publishing :
          /\ adc' = [adc EXCEPT ![f] = Published[f]]
          /\ publishing' = publishing \ {f}
    /\ thread' = IF publishing' = {} THEN "judge" ELSE "publish"
    /\ overlapped' = (loads # {} /\ (overlapped \/ adc' # adc))
    /\ UNCHANGED <<clip, was, resetting, bridge, reader, events, now>>

Judge ==
    /\ thread = "judge"
    /\ was' = adc.overload
    /\ thread' = "mark"
    /\ UNCHANGED <<clip, publishing, bridge, level, reader, events, now>>

Onset == clip /\ ~was

Mark ==
    /\ thread = "mark"
    /\ adc' = [adc EXCEPT !.overload = clip]
    /\ thread' = IF Onset THEN "tell" ELSE "waiting"
    /\ missed' = IF clip THEN missed ELSE NotMissed
    /\ armed' = ~clip
    /\ was' = FALSE
    /\ UNCHANGED <<clip, publishing, bridge, resetting, overlapped, reader, last, sent,
                   named, now>>

LastAfterOnset == IF now - last >= Gap THEN now ELSE last

(* At an onset: the event is sent, by cp_on_adc_overload, when the gap has *)
(* passed, with the id of a session whose state is SESSION_STREAMING.      *)
Tell ==
    /\ thread = "tell"
    /\ last' = LastAfterOnset
    /\ IF now - last >= Gap
       THEN sent' = now /\ named' = streaming /\ missed' = NotMissed
       ELSE missed' = now /\ UNCHANGED <<sent, named>>
    /\ thread' = "waiting"
    /\ UNCHANGED <<clip, was, publishing, bridge, level, reader, armed, now>>

-----------------------------------------------------------------------------
(* get_status, on any session's thread                                     *)

GetStatus ==
    /\ client = "polls"
    /\ loads = {}
    /\ loads' = Fields
    /\ overlapped' = \/ resetting # {}
                     \/ publishing # {} /\ \E f \in Fields : adc[f] # Published[f]
    /\ answer' = "null"
    /\ UNCHANGED <<got, adc, resetting, bridge, usb, events, now>>

(* rtl_get_adc_level_dbfs, from the values it loaded.                      *)
Reported(g) ==
    IF g.valid = 0 \/ g.n = 0 THEN "null"
    ELSE IF g.sumsq = 0 THEN "floor" ELSE "level"

Load ==
    /\ \E f \in loads :
         LET g == [got EXCEPT ![f] = adc[f]]
         IN  /\ loads' = loads \ {f}
             /\ IF loads' = {}
                THEN answer' = Reported(g) /\ got' = NoLoads /\ overlapped' = FALSE
                ELSE got' = g /\ UNCHANGED <<answer, overlapped>>
    /\ UNCHANGED <<adc, resetting, bridge, usb, events, now>>

Tick ==
    /\ client = "waits"
    /\ now < MaxTime
    /\ now' = now + 1
    /\ UNCHANGED <<bridge, usb, level, reader, events>>

Step ==
    \/ StartRx \/ CreateThread \/ CreateThreadFails \/ Started
    \/ StopRx \/ Join \/ ResetStep \/ Stopped \/ Hello
    \/ Buffer \/ ThreadExit \/ Publish \/ Judge \/ Mark \/ Tell
    \/ GetStatus \/ Load \/ Tick

Next == Step /\ UNCHANGED client

Spec == Init /\ [][Next]_vars

-----------------------------------------------------------------------------
(* Properties                                                              *)

(* Type invariant.                                                         *)
TypeOK ==
    /\ ctl \in {"recv", "start_reset", "create", "started", "join", "stop_reset",
                "stopped"}
    /\ streaming \in BOOLEAN /\ running \in BOOLEAN /\ rehello \in BOOLEAN
    /\ count \in 0 .. MaxCount
    /\ thread \in {"none", "waiting", "publish", "judge", "mark", "tell"}
    /\ clip \in BOOLEAN /\ was \in BOOLEAN
    /\ adc \in [sumsq : {0, Measured}, n : {0, Measured}, valid : {0, 1},
                overload : BOOLEAN]
    /\ resetting \subseteq Fields \cup {"overload"} /\ publishing \subseteq Fields
    /\ now \in 0 .. MaxTime /\ last \in 0 .. now
    /\ sent \in 0 .. now /\ missed \in 0 .. now
    /\ loads \subseteq Fields /\ got \in [Fields -> {0, 1}]
    /\ answer \in Answers
    /\ client \in {"polls", "waits"}
    /\ overlapped \in BOOLEAN /\ named \in BOOLEAN /\ armed \in BOOLEAN

(* "Reset the ADC measurement to no data - called when streaming stops":   *)
(* between two streams there is neither a level nor an overload, although  *)
(* a buffer may be measured while the stream is being stopped.             *)
IdleIsSilent == ctl = "recv" /\ ~running => adc = Cleared

(* get_status never divides by a count of zero, although it reads the      *)
(* count apart from the flag that says there is one, and it reports the    *)
(* floor of -120 dBFS for a buffer that had a signal only when a reset, or *)
(* the first buffer after one, met its loads, or when a repeated hello     *)
(* lets a reset meet the stores of a buffer.                               *)
AnswersExplained ==
    [][loads # {} /\ loads' = {} =>
            /\ answer' # "nan"
            /\ answer' = "floor" => overlapped \/ rehello]_vars

(* "rate-limited to ADC_OVERLOAD_MIN_GAP_MS": two events are that far      *)
(* apart, also when the stream was stopped and started in between.         *)
EventsSpaced == [][sent' # sent => sent' - sent >= Gap]_vars

(* "emitted at the onset of clipping, not continuously": a buffer that     *)
(* clips is taken for an onset only when the one before did not clip, or   *)
(* the measurement was reset in between.                                   *)
EdgeTriggered == [][thread = "mark" /\ thread' = "tell" => armed]_vars

(* An onset that no event announced came within the gap after an event     *)
(* that was sent: an onset that was kept quiet does not quiet the next.    *)
SilenceExplained == missed # NotMissed => missed - sent < Gap

(* The adc_overload event as the comment at measure_adc_level describes    *)
(* it: edge-triggered and rate-limited, and no more silent than that.      *)
OverloadEvents == EventsSpaced /\ EdgeTriggered /\ []SilenceExplained

(* An event goes out without a stream id only from the first buffers of a  *)
(* stream, before start_rx has marked the session as streaming, or after   *)
(* hello was repeated: while a stream is stopped it still has its name.    *)
UnnamedExplained ==
    [][sent' # sent => named' \/ ctl = "started" \/ rehello]_vars

(* Stated by cp_on_adc_overload: the event is keyed by the stream's id.    *)
EventNamed == named

(* What a client would like to be told: clipping that outlasts the gap     *)
(* does not stay unannounced.                                              *)
LastingOverloadTold == adc.overload /\ missed # NotMissed => now - missed < Gap

(* A level that get_status reports is the floor only for silence.          *)
NoFalseFloor == answer # "floor"
=============================================================================
