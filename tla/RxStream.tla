------------------------------ MODULE RxStream ------------------------------
(***************************************************************************)
(* The receive stream of the daemon: who holds the rx channel, and how a   *)
(* session opens, starts, stops and closes the stream while other          *)
(* sessions, the USB read thread and client disconnects interleave.        *)
(*                                                                         *)
(*   cp/cp_session.c   session table, s_rx_owner, session_destroy          *)
(*   cp/cp_commands.c  hello, open_stream, start_rx, stop_rx, close_stream *)
(*   vita/vita_tx.c    the table of VITA sessions (slots)                  *)
(*   rtl/rtl_bridge.c  s_stream_count, s_running and the async thread      *)
(*                                                                         *)
(* Each session thread has a program counter.  One step is one critical    *)
(* section (s_table_mutex, s_sess_mutex, s_start_mutex or the join),       *)
(* together with the writes to the thread's own Session around it.         *)
(* A request that is answered without changing anything (an error reply,   *)
(* an idempotent start_rx or stop_rx) is a stuttering step.                *)
(***************************************************************************)
EXTENDS Integers, FiniteSets

CONSTANTS
    MaxSessions,      \* MAX_SESSIONS
    MaxVitaSessions,  \* MAX_VITA_SESSIONS
    MaxStreamId,      \* bound on s_stream_counter
    RepeatHello,      \* may a client send hello again on one connection?
    PromptStart       \* does a new async thread enter rtlsdr_read_async
                      \* before the next request is read?

ASSUME BoundsAssumption == /\ MaxSessions \in Nat \ {0}
                           /\ MaxVitaSessions \in Nat \ {0}
                           /\ MaxStreamId \in Nat

ASSUME SwitchAssumption == /\ RepeatHello \in BOOLEAN
                           /\ PromptStart \in BOOLEAN

Sessions == 1 .. MaxSessions
Tokens == 1 .. MaxVitaSessions

NoOwner == 0     \* s_rx_owner == NULL
NoToken == 0     \* vita_token == -1
NoStream == 0    \* stream_open == false, stream_id empty; slot not active

VARIABLES
    pc,            \* what the thread of a session slot does next
    task,          \* the handler whose stop/release sequence is running
    state,         \* Session.state
    stream_id,     \* Session.stream_id, NoStream unless stream_open
    vita_token,    \* Session.vita_token
    heard,         \* last control_revoked event the client received
    owner,         \* s_rx_owner
    counter,       \* s_stream_counter
    vita,          \* token -> stream id of the active VITA session
    stream_count,  \* s_stream_count
    running,       \* s_running
    async,         \* the thread named by s_async_tid
    dev_async,     \* librtlsdr: an async read is in progress
    adc_valid      \* s_adc_level_valid

threads == <<pc, task>>
sessions == <<state, stream_id, vita_token>>
bridge == <<stream_count, running, async, dev_async>>
vars == <<threads, sessions, heard, owner, counter, vita, bridge, adc_valid>>

-----------------------------------------------------------------------------
(* State spaces and helpers                                                *)

SessionStates == {"AWAIT_HELLO", "IDLE", "STREAM_OPEN", "STREAMING"}

(* "free": the slot is unused.  "recv": the thread waits for a request.    *)
(* Every other value names the step the thread takes next.                 *)
Labels == {"free", "recv", "claimed", "announce_owned", "added", "started",
           "start_failed", "stop", "joining", "stopped", "release",
           "announce_free", "destroy"}

Tasks == {"none", "open", "stop", "close", "destroy"}
ThreadStates == {"none", "spawned", "reading", "in_callback", "exited"}

stream_open(s) == stream_id[s] # NoStream

Goto(s, label) == pc' = [pc EXCEPT ![s] = label]

Begin(s, handler, label) ==
    /\ task' = [task EXCEPT ![s] = handler]
    /\ Goto(s, label)

Return(s) == Begin(s, "none", "recv")

(* The session thread has read its next request, or found the connection   *)
(* closed.                                                                 *)
Receives(s) ==
    /\ pc[s] = "recv"
    /\ PromptStart => async # "spawned"

(* A request other than hello is only dispatched after hello.              *)
Dispatches(s) == Receives(s) /\ state[s] # "AWAIT_HELLO"

(* cp_broadcast_event_except(s, "control_revoked", what): every other      *)
(* session in the table that has completed hello.                          *)
Broadcast(s, what) ==
    heard' = [t \in Sessions |->
                IF t # s /\ pc[t] # "free" /\ state[t] # "AWAIT_HELLO"
                THEN what ELSE heard[t]]

(* if (s->vita_token >= 0) { vita_session_remove; vita_token = -1 }        *)
DropVitaSession(s) ==
    /\ vita' = [i \in Tokens |-> IF i = vita_token[s] THEN NoStream ELSE vita[i]]
    /\ vita_token' = [vita_token EXCEPT ![s] = NoToken]

Init ==
    /\ pc = [s \in Sessions |-> "free"]
    /\ task = [s \in Sessions |-> "none"]
    /\ state = [s \in Sessions |-> "AWAIT_HELLO"]
    /\ stream_id = [s \in Sessions |-> NoStream]
    /\ vita_token = [s \in Sessions |-> NoToken]
    /\ heard = [s \in Sessions |-> "nothing"]
    /\ owner = NoOwner
    /\ counter = 0
    /\ vita = [i \in Tokens |-> NoStream]
    /\ stream_count = 0
    /\ running = FALSE
    /\ async = "none"
    /\ dev_async = FALSE
    /\ adc_valid = FALSE

-----------------------------------------------------------------------------
(* Connections                                                             *)

(* accept_thread: session_create takes the first free slot; the session    *)
(* thread starts, or pthread_create fails and session_destroy follows.     *)
Accept(s) ==
    /\ pc[s] = "free"
    /\ \A t \in Sessions : t < s => pc[t] # "free"
    /\ \/ Return(s)
       \/ Begin(s, "destroy", "release")
    /\ UNCHANGED <<sessions, heard, owner, counter, vita, bridge, adc_valid>>

(* hello puts the session in SESSION_IDLE whatever state it was in.        *)
Hello(s) ==
    /\ Receives(s)
    /\ RepeatHello \/ state[s] = "AWAIT_HELLO"
    /\ state' = [state EXCEPT ![s] = "IDLE"]
    /\ UNCHANGED <<threads, stream_id, vita_token, heard, owner, counter, vita,
                   bridge, adc_valid>>

-----------------------------------------------------------------------------
(* open_stream                                                             *)

(* Fault: the owner is not consulted.                                      *)
ClaimAllowed_NoCheck(s) == TRUE

(* cp_rx_claim: free, or already held by this session.                     *)
ClaimAllowed(s) == owner \in {NoOwner, s}

OpenStream(s) ==
    /\ Dispatches(s)
    /\ ~stream_open(s)
    /\ ClaimAllowed(s)
    /\ owner' = s
    /\ Begin(s, "open", "claimed")
    /\ UNCHANGED <<sessions, heard, counter, vita, bridge, adc_valid>>

(* A parameter is missing or unsupported: every such branch calls          *)
(* cp_rx_release and answers an error.                                     *)
OpenRejected(s) ==
    /\ pc[s] = "claimed"
    /\ Goto(s, "release")
    /\ UNCHANGED <<task, sessions, heard, owner, counter, vita, bridge,
                   adc_valid>>

OpenAccepted(s) ==
    /\ pc[s] = "claimed"
    /\ counter < MaxStreamId
    /\ counter' = counter + 1
    /\ stream_id' = [stream_id EXCEPT ![s] = counter + 1]
    /\ state' = [state EXCEPT ![s] = "STREAM_OPEN"]
    /\ Goto(s, "announce_owned")
    /\ UNCHANGED <<task, vita_token, heard, owner, vita, bridge, adc_valid>>

AnnounceOwned(s) ==
    /\ pc[s] = "announce_owned"
    /\ Broadcast(s, "owned_by_other")
    /\ Return(s)
    /\ UNCHANGED <<sessions, owner, counter, vita, bridge, adc_valid>>

-----------------------------------------------------------------------------
(* start_rx                                                                *)

(* vita_session_add takes the first inactive slot, or returns -1: busy.    *)
StartRx(s) ==
    /\ Dispatches(s)
    /\ stream_open(s)
    /\ state[s] # "STREAMING"
    /\ \/ \E i \in Tokens :
            /\ vita[i] = NoStream
            /\ \A j \in Tokens : j < i => vita[j] # NoStream
            /\ vita' = [vita EXCEPT ![i] = stream_id[s]]
            /\ vita_token' = [vita_token EXCEPT ![s] = i]
            /\ Goto(s, "added")
       \/ /\ \A i \in Tokens : vita[i] # NoStream
          /\ vita_token' = [vita_token EXCEPT ![s] = NoToken]
          /\ UNCHANGED <<pc, vita>>
    /\ UNCHANGED <<task, state, stream_id, heard, owner, counter, bridge,
                   adc_valid>>

(* rtl_bridge_start: only the first stream creates the async thread.       *)
FirstStream == stream_count = 0

BridgeStart(s) ==
    /\ pc[s] = "added"
    /\ \/ /\ ~FirstStream
          /\ stream_count' = stream_count + 1
          /\ Goto(s, "started")
          /\ UNCHANGED <<running, async, adc_valid>>
       \/ /\ FirstStream
          /\ stream_count' = stream_count + 1
          /\ running' = TRUE
          /\ async' = "spawned"
          /\ adc_valid' = FALSE
          /\ Goto(s, "started")
       \/ /\ FirstStream          \* pthread_create fails, all is undone
          /\ running' = FALSE
          /\ adc_valid' = FALSE
          /\ Goto(s, "start_failed")
          /\ UNCHANGED <<stream_count, async>>
    /\ UNCHANGED <<task, sessions, heard, owner, counter, vita, dev_async>>

(* Fault: the caller also gives back the count rtl_bridge_start undid.     *)
StartFailed_Recount(s) ==
    /\ pc[s] = "start_failed"
    /\ DropVitaSession(s)
    /\ stream_count' = stream_count - 1
    /\ Return(s)
    /\ UNCHANGED <<state, stream_id, heard, owner, counter, running, async,
                   dev_async, adc_valid>>

(* Fault: the VITA session added before the failure is kept.               *)
StartFailed_KeepSlot(s) ==
    /\ pc[s] = "start_failed"
    /\ vita_token' = [vita_token EXCEPT ![s] = NoToken]
    /\ Return(s)
    /\ UNCHANGED <<state, stream_id, heard, owner, counter, vita, bridge,
                   adc_valid>>

StartFailed(s) ==
    /\ pc[s] = "start_failed"
    /\ DropVitaSession(s)
    /\ Return(s)
    /\ UNCHANGED <<state, stream_id, heard, owner, counter, bridge, adc_valid>>

Started(s) ==
    /\ pc[s] = "started"
    /\ state' = [state EXCEPT ![s] = "STREAMING"]
    /\ Return(s)
    /\ UNCHANGED <<stream_id, vita_token, heard, owner, counter, vita, bridge,
                   adc_valid>>

-----------------------------------------------------------------------------
(* stop_rx, close_stream and session_destroy share one sequence: drop the  *)
(* VITA session, stop the bridge, reset the ADC level, release the channel *)

(* Fault: the bridge is never stopped.                                     *)
AfterDrop_NoStop(s) == "release"

AfterDrop(s) == IF state[s] = "STREAMING" THEN "stop" ELSE "release"

StopRx(s) ==
    /\ Dispatches(s)
    /\ stream_open(s)
    /\ state[s] = "STREAMING"
    /\ DropVitaSession(s)
    /\ Begin(s, "stop", "stop")
    /\ UNCHANGED <<state, stream_id, heard, owner, counter, bridge, adc_valid>>

CloseStream(s) ==
    /\ Dispatches(s)
    /\ stream_open(s)
    /\ DropVitaSession(s)
    /\ Begin(s, "close", AfterDrop(s))
    /\ UNCHANGED <<state, stream_id, heard, owner, counter, bridge, adc_valid>>

(* The connection is lost or the session loop gives it up.                 *)
Disconnect(s) ==
    /\ Receives(s)
    /\ DropVitaSession(s)
    /\ Begin(s, "destroy", AfterDrop(s))
    /\ UNCHANGED <<state, stream_id, heard, owner, counter, bridge, adc_valid>>

(* Fault: s_running is cleared but the read is not cancelled.              *)
CancelAsync_Omitted == UNCHANGED dev_async

(* rtlsdr_cancel_async has no effect on a read that has not begun.         *)
CancelAsync == dev_async' = FALSE

(* Fault: the cancelled thread is not waited for.                          *)
AfterCancel_NoJoin == "stopped"

AfterCancel == "joining"

(* rtl_bridge_stop, up to the unlock: the last stream cancels the read and *)
(* joins the thread only after s_start_mutex is released.                  *)
BridgeStop(s) ==
    /\ pc[s] = "stop"
    /\ stream_count' = IF stream_count > 0 THEN stream_count - 1 ELSE 0
    /\ IF stream_count' = 0 /\ running
       THEN /\ running' = FALSE
            /\ CancelAsync
            /\ Goto(s, AfterCancel)
       ELSE /\ Goto(s, "stopped")
            /\ UNCHANGED <<running, dev_async>>
    /\ UNCHANGED <<task, sessions, heard, owner, counter, vita, async, adc_valid>>

Join(s) ==
    /\ pc[s] = "joining"
    /\ async = "exited"
    /\ async' = "none"
    /\ Goto(s, "stopped")
    /\ UNCHANGED <<task, sessions, heard, owner, counter, vita, stream_count,
                   running, dev_async, adc_valid>>

ResetAdcLevel == adc_valid' = FALSE

(* rtl_bridge_stop has returned: reset the ADC level, then finish stop_rx  *)
(* or go on with close_stream or session_destroy.                          *)
Stopped(s) ==
    /\ pc[s] = "stopped"
    /\ ResetAdcLevel
    /\ \/ /\ task[s] = "stop"
          /\ state' = [state EXCEPT ![s] = "STREAM_OPEN"]
          /\ Return(s)
       \/ /\ task[s] # "stop"
          /\ Goto(s, "release")
          /\ UNCHANGED <<task, state>>
    /\ UNCHANGED <<stream_id, vita_token, heard, owner, counter, vita, bridge>>

(* What follows cp_rx_release in the handler that called it.               *)
AfterRelease(s) ==
    IF task[s] = "destroy" THEN Goto(s, "destroy") /\ UNCHANGED task
                           ELSE Return(s)

(* Fault: a stream that is closed is not announced as free.                *)
Announces_NotClose(s) == owner = s /\ task[s] # "close"

(* cp_rx_release broadcasts only when this session was the owner.          *)
Announces(s) == owner = s

(* close_stream clears the stream before it calls cp_rx_release.           *)
ClearStream(s) ==
    IF task[s] = "close"
    THEN /\ stream_id' = [stream_id EXCEPT ![s] = NoStream]
         /\ state' = [state EXCEPT ![s] = "IDLE"]
    ELSE UNCHANGED <<stream_id, state>>

(* cp_rx_release, up to the unlock.                                        *)
Release(s) ==
    /\ pc[s] = "release"
    /\ ClearStream(s)
    /\ owner' = IF owner = s THEN NoOwner ELSE owner
    /\ IF Announces(s) THEN Goto(s, "announce_free") /\ UNCHANGED task
                       ELSE AfterRelease(s)
    /\ UNCHANGED <<vita_token, heard, counter, vita, bridge, adc_valid>>

(* The broadcast takes s_table_mutex again, after the release.             *)
AnnounceFree(s) ==
    /\ pc[s] = "announce_free"
    /\ Broadcast(s, "free")
    /\ AfterRelease(s)
    /\ UNCHANGED <<sessions, owner, counter, vita, bridge, adc_valid>>

(* session_destroy clears the slot.                                        *)
FreeSlot(s) ==
    /\ pc[s] = "destroy"
    /\ Begin(s, "none", "free")
    /\ state' = [state EXCEPT ![s] = "AWAIT_HELLO"]
    /\ stream_id' = [stream_id EXCEPT ![s] = NoStream]
    /\ vita_token' = [vita_token EXCEPT ![s] = NoToken]
    /\ heard' = [heard EXCEPT ![s] = "nothing"]
    /\ UNCHANGED <<owner, counter, vita, bridge, adc_valid>>

-----------------------------------------------------------------------------
(* The async thread: rtlsdr_read_async calls rtl_callback until cancelled  *)

EnterRead ==
    /\ async = "spawned"
    /\ async' = "reading"
    /\ dev_async' = TRUE
    /\ UNCHANGED <<threads, sessions, heard, owner, counter, vita, stream_count,
                   running, adc_valid>>

(* rtl_callback returns at once unless s_running.                          *)
CallbackBegin ==
    /\ async = "reading"
    /\ running
    /\ async' = "in_callback"
    /\ UNCHANGED <<threads, sessions, heard, owner, counter, vita, stream_count,
                   running, dev_async, adc_valid>>

(* measure_adc_level has published a level and the packets are sent.       *)
CallbackEnd ==
    /\ async = "in_callback"
    /\ async' = "reading"
    /\ adc_valid' = TRUE
    /\ UNCHANGED <<threads, sessions, heard, owner, counter, vita, stream_count,
                   running, dev_async>>

ExitRead ==
    /\ async = "reading"
    /\ ~dev_async
    /\ async' = "exited"
    /\ UNCHANGED <<threads, sessions, heard, owner, counter, vita, stream_count,
                   running, dev_async, adc_valid>>

(* rtlsdr_read_async returns an error: the thread ends, s_running stays.   *)
ReadFails ==
    /\ async \in {"spawned", "reading"}
    /\ async' = "exited"
    /\ dev_async' = FALSE
    /\ UNCHANGED <<threads, sessions, heard, owner, counter, vita, stream_count,
                   running, adc_valid>>

-----------------------------------------------------------------------------
(* What clients may ask for, what a session thread goes on to do, and the  *)
(* async thread.                                                           *)

Request(s) ==
    \/ Accept(s) \/ Hello(s) \/ OpenStream(s) \/ StartRx(s)
    \/ StopRx(s) \/ CloseStream(s) \/ Disconnect(s)

Continue(s) ==
    \/ OpenRejected(s) \/ OpenAccepted(s) \/ AnnounceOwned(s)
    \/ BridgeStart(s) \/ StartFailed(s) \/ Started(s)
    \/ BridgeStop(s) \/ Join(s) \/ Stopped(s)
    \/ Release(s) \/ AnnounceFree(s) \/ FreeSlot(s)

AsyncThread == EnterRead \/ CallbackBegin \/ CallbackEnd \/ ExitRead \/ ReadFails

Next == (\E s \in Sessions : Request(s) \/ Continue(s)) \/ AsyncThread

Spec == Init /\ [][Next]_vars

(* Threads that can run do run; nothing is assumed of clients or of USB.   *)
Fairness ==
    /\ \A s \in Sessions : WF_vars(Continue(s))
    /\ WF_vars(EnterRead)
    /\ WF_vars(CallbackEnd)
    /\ WF_vars(ExitRead)

FairSpec == Spec /\ Fairness

-----------------------------------------------------------------------------
(* Properties                                                              *)

(* Type invariant of the session table, the owner pointer, the VITA table  *)
(* and the bridge; s_stream_count is never negative.                       *)
TypeOK ==
    /\ pc \in [Sessions -> Labels]
    /\ task \in [Sessions -> Tasks]
    /\ state \in [Sessions -> SessionStates]
    /\ stream_id \in [Sessions -> Nat]
    /\ vita_token \in [Sessions -> Tokens \cup {NoToken}]
    /\ heard \in [Sessions -> {"nothing", "free", "owned_by_other"}]
    /\ owner \in Sessions \cup {NoOwner}
    /\ counter \in Nat
    /\ vita \in [Tokens -> Nat]
    /\ stream_count \in Nat
    /\ running \in BOOLEAN
    /\ async \in ThreadStates
    /\ dev_async \in BOOLEAN
    /\ adc_valid \in BOOLEAN

(* Labels at which a session is between claim and release, whatever the    *)
(* rest of its state says.                                                 *)
HoldingLabels == {"claimed", "announce_owned", "added", "started",
                  "start_failed", "stop", "joining", "stopped"}

HoldsStream(s) ==
    \/ pc[s] \in HoldingLabels
    \/ stream_open(s) /\ pc[s] \notin {"announce_free", "destroy"}
    \/ vita_token[s] # NoToken

(* A session that has an open stream, a VITA slot, or is anywhere inside   *)
(* rtl_bridge_start or rtl_bridge_stop is the one session s_rx_owner names.*)
OnlyOwnerStreams == \A s \in Sessions : HoldsStream(s) => owner = s

(* rtl_bridge_start never creates a thread while s_async_tid still names   *)
(* one that has not been joined, although rtl_bridge_stop joins it after   *)
(* it has released s_start_mutex.                                          *)
ThreadNeverOverwritten ==
    [][async # "none" => async' # "spawned"]_async

(* s_stream_count counts exactly the sessions whose stop has yet to come:  *)
(* no start or stop is lost or done twice across stop_rx, close_stream,    *)
(* disconnects and failed starts.                                          *)
Counted(s) == \/ pc[s] = "started"
              \/ pc[s] \in {"recv", "stop"} /\ state[s] = "STREAMING"

StreamsAccounted == stream_count = Cardinality({s \in Sessions : Counted(s)})

(* No VITA slot sends packets for a stream that no session has: the slot's *)
(* stream is open at the session that holds the slot's token.              *)
NoOrphanStream ==
    \A i \in Tokens : vita[i] # NoStream =>
        \E s \in Sessions : vita_token[s] = i /\ stream_id[s] = vita[i]

(* get_status reports an ADC level only while a stream runs or is being    *)
(* stopped: a callback in flight cannot publish a level after the reset.   *)
AdcLevelFresh ==
    adc_valid => \/ running
                 \/ \E s \in Sessions : pc[s] \in {"joining", "stopped"}

(* Everyone waiting for the receiver learns that it is free: with no       *)
(* announcement outstanding and the channel free, no client was last told  *)
(* that another one owns it.                                               *)
FreeIsAnnounced ==
    /\ owner = NoOwner
    /\ \A s \in Sessions : pc[s] # "announce_free"
    => \A s \in Sessions : heard[s] # "owned_by_other"

(* The detailed stream control implements the exclusive receive channel.   *)
Channel == INSTANCE RxChannel WITH
    Clients <- Sessions,
    Nobody <- NoOwner,
    holder <- owner,
    sampling <- (async # "none")

ImplementsChannel == Channel!Spec

(* A connection that ends is torn down completely: the streams stop, the   *)
(* channel is released and the slot becomes free (session_destroy).        *)
DisconnectCompletes ==
    \A s \in Sessions : task[s] = "destroy" ~> pc[s] = "free"

(* stop_rx and close_stream are answered: the join in rtl_bridge_stop ends.*)
StopAnswered ==
    \A s \in Sessions : task[s] \in {"stop", "close"} ~> pc[s] = "recv"

(* Whatever takes a stream down ends: every stop_rx and close_stream is    *)
(* answered and every disconnect frees its slot, although each waits for   *)
(* the async thread.                                                       *)
TeardownEnds == DisconnectCompletes /\ StopAnswered

-----------------------------------------------------------------------------
(* Statements of the source that the code does not keep                    *)

(* "on TCP disconnect the device stops all active streams and releases all *)
(* open stream sessions" (cp_session.c): with no session left in the       *)
(* table nothing streams.                                                  *)
DisconnectStopsStreams ==
    (\A s \in Sessions : pc[s] = "free") =>
        /\ ~running
        /\ \A i \in Tokens : vita[i] = NoStream

(* "The stream is whichever session is streaming - there is one tuner, so  *)
(* at most one" (cp_on_adc_overload).                                      *)
AtMostOneStreaming ==
    \A s, t \in Sessions :
        state[s] = "STREAMING" /\ state[t] = "STREAMING" => s = t

(* "control_revoked: an exclusive resource was taken or released.          *)
(* Everyone waiting for the receiver wants to know it is free"             *)
(* (cp_rx_release): once every handler has finished, a client whose last   *)
(* event says free is not looking at a channel another session holds.      *)
FreeEventIsCurrent ==
    \A s \in Sessions :
        /\ heard[s] = "free"
        /\ \A t \in Sessions : pc[t] \in {"free", "recv"}
        => owner \in {NoOwner, s}

-----------------------------------------------------------------------------
(* Inductive strengthenings                                                *)

(* Which handler a label belongs to, and what it leaves of the stream.     *)
LabelInv(s) ==
    /\ pc[s] \in {"claimed", "announce_owned"} => task[s] = "open"
    /\ pc[s] \in {"stop", "joining", "stopped"} => task[s] \in {"stop", "close", "destroy"}
    /\ pc[s] \in {"release", "announce_free"} => task[s] \in {"open", "close", "destroy"}
    /\ pc[s] = "destroy" => task[s] = "destroy"
    /\ pc[s] = "claimed" => ~stream_open(s)
    /\ pc[s] = "release" /\ task[s] = "open" => ~stream_open(s)
    /\ pc[s] = "announce_free" /\ task[s] # "destroy" => ~stream_open(s)
    /\ pc[s] \in {"announce_owned", "added", "started", "start_failed"} =>
         stream_open(s) /\ state[s] # "STREAMING"
    /\ pc[s] \in {"stop", "joining", "stopped"} => state[s] = "STREAMING"
    /\ state[s] \in {"STREAM_OPEN", "STREAMING"} => stream_open(s)
    /\ vita_token[s] # NoToken =>
         stream_open(s) /\ pc[s] \in {"recv", "added", "started", "start_failed"}
    /\ pc[s] = "free" => state[s] = "AWAIT_HELLO"

(* The bridge between two critical sections: only a pending join separates *)
(* the count, s_running and the thread.                                    *)
BridgeInv ==
    /\ \A s \in Sessions : Counted(s) => stream_count > 0
    /\ (\A s \in Sessions : pc[s] # "joining") =>
         /\ running <=> stream_count > 0
         /\ async = "none" <=> stream_count = 0
    /\ (\E s \in Sessions : pc[s] = "joining") =>
         /\ stream_count = 0
         /\ ~running
         /\ async # "none"

(* A client told owned_by_other will be told otherwise by someone else.    *)
HeardInv(s) ==
    /\ state[s] = "AWAIT_HELLO" => heard[s] = "nothing"
    /\ heard[s] = "owned_by_other" =>
         \E t \in Sessions \ {s} : owner = t \/ pc[t] = "announce_free"

(* Inductive whatever clients send: it implies OnlyOwnerStreams,           *)
(* AdcLevelFresh and FreeIsAnnounced.                                      *)
SafetyInv ==
    /\ TypeOK
    /\ \A s \in Sessions : LabelInv(s)
    /\ OnlyOwnerStreams
    /\ BridgeInv
    /\ AdcLevelFresh
    /\ \A s \in Sessions : HeardInv(s)

(* Inductive, with SafetyInv, for clients that send hello once: it implies *)
(* StreamsAccounted and NoOrphanStream.                                    *)
AccountInv ==
    /\ \A s \in Sessions : Counted(s) => stream_count = 1
    /\ (\A s \in Sessions : ~Counted(s)) => stream_count = 0
    /\ \A s \in Sessions :
         pc[s] = "recv" /\ vita_token[s] # NoToken => state[s] = "STREAMING"
    /\ NoOrphanStream

=============================================================================
