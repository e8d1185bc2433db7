----------------------------- MODULE CpTransport ----------------------------
(***************************************************************************)
(* How requests, replies and events travel between the session threads and *)
(* their clients (cp/cp_session.c, cp/cp_server.c).                        *)
(*                                                                         *)
(* A thread is a session slot, or Usb: the USB callback thread, which      *)
(* sends adc_overload events.  A connection is a number that is never used *)
(* again, where the code has file descriptors that are.  send_framed is    *)
(* two steps, the length and the body, under send_mutex; a broadcast holds *)
(* s_table_mutex from its first send to its last.  The body waits while    *)
(* the client does not read and its socket buffer is full.                 *)
(***************************************************************************)
EXTENDS Integers, Sequences, FiniteSetsExt

CONSTANTS
    Slots,     \* indices of s_sessions
    Commands,  \* the commands clients send
    MaxConns   \* bound on the connections accepted

ASSUME TransportAssumption ==
    /\ Slots \subseteq Nat \ {0}
    /\ Commands \subseteq {"set", "start", "open", "close"}
    /\ MaxConns \in Nat

Usb == -1
None == 0
Threads == Slots \cup {Usb}
Conns == 1 .. MaxConns

VARIABLES
    pc,        \* the next step of each thread
    conn,      \* the connection of each slot, None: fd == 0
    greeted,   \* slots past SESSION_AWAIT_HELLO
    leaving,   \* slots whose thread is in session_destroy
    table,     \* the thread that holds s_table_mutex, or None
    lock,      \* the thread that holds the slot's send_mutex, or None
    todo,      \* what a thread has still to send: to its "own" client, to
               \* "all", or to the "others"
    at,        \* a broadcast: the slots it has still to visit
    target,    \* the slot and the connection send_framed writes to
    buf,       \* the slot whose request is in msg_buf
    wire,      \* what a client has received: "whole" frames, a frame "open"
               \* after its length, by which thread, or "torn"
    full,      \* connections whose socket buffer is full
    up,        \* connections the client has not closed
    accepted   \* connections accepted so far

locks == <<table, lock>>
slots == <<conn, greeted, leaving>>
sending == <<todo, at, target>>
client == <<wire, full>>
vars == <<pc, slots, locks, sending, buf, client, up, accepted>>

Whole == [state |-> "whole", by |-> None]
NoTarget == [slot |-> None, conn |-> None]

Init ==
    /\ pc = [t \in Threads |-> IF t = Usb THEN "idle" ELSE "none"]
    /\ conn = [s \in Slots |-> None]
    /\ greeted = {} /\ leaving = {}
    /\ table = None
    /\ lock = [s \in Slots |-> None]
    /\ todo = [t \in Threads |-> <<>>]
    /\ at = [t \in Threads |-> {}]
    /\ target = [t \in Threads |-> NoTarget]
    /\ buf = None
    /\ wire = [c \in Conns |-> Whole]
    /\ full = {} /\ up = {} /\ accepted = 0

Goto(t, label) == pc' = [pc EXCEPT ![t] = label]

(* A thread goes on with what it has still to send, and then to its loop.  *)
Continue(t, rest, stays) ==
    /\ todo' = [todo EXCEPT ![t] = rest]
    /\ Goto(t, IF rest # <<>> THEN "ready"
               ELSE IF t = Usb THEN "idle"
               ELSE IF stays THEN "recv" ELSE "free")

-----------------------------------------------------------------------------
(* The client's side                                                       *)

(* A client reads what is in its socket buffer.                            *)
Read(c) ==
    /\ c \in full \cap up
    /\ full' = full \ {c}
    /\ UNCHANGED <<pc, slots, locks, sending, buf, wire, up, accepted>>

Hangup(c) ==
    /\ c \in up
    /\ up' = up \ {c}
    /\ UNCHANGED <<pc, slots, locks, sending, buf, client, accepted>>

-----------------------------------------------------------------------------
(* A connection                                                            *)

(* accept_thread and session_create take the first free slot, and a new    *)
(* send_mutex.  When there is none the connection is closed at once, which *)
(* changes nothing here.                                                   *)
Accept(s) ==
    /\ accepted < MaxConns
    /\ table = None
    /\ conn[s] = None /\ \A r \in Slots : r < s => conn[r] # None
    /\ accepted' = accepted + 1
    /\ conn' = [conn EXCEPT ![s] = accepted']
    /\ lock' = [lock EXCEPT ![s] = None]
    /\ up' = up \cup {accepted'}
    /\ Goto(s, "recv")
    /\ UNCHANGED <<greeted, leaving, table, sending, buf, client>>

(* cp_session_thread reads a request into msg_buf, which is static.        *)
Receive(s) ==
    /\ pc[s] = "recv"
    /\ conn[s] \in up
    /\ buf' = s
    /\ Goto(s, "parse")
    /\ UNCHANGED <<slots, locks, sending, client, up, accepted>>

(* What the handlers send: the set commands answer and tell all; start_rx  *)
(* and stop_rx add an event of their own; open_stream tells the others,    *)
(* and close_stream does so before it answers.                             *)
AnswerTo ==
    [set   |-> <<"own", "all">>,    start |-> <<"own", "own">>,
     open  |-> <<"own", "others">>, close |-> <<"others", "own">>]

(* A query or an error is one answer, and before hello there is no other;  *)
(* a message that is no request gets none.                                 *)
Answers(s) ==
    {<<>>, <<"own">>} \cup {AnswerTo[k] : k \in IF s \in greeted THEN Commands ELSE {}}

(* What session_destroy sends: that the stream stopped and rx is free.     *)
Farewells(s) ==
    IF s \in greeted THEN {<<>>, <<"others">>, <<"others", "others">>} ELSE {<<>>}

(* The handler decodes msg_buf and does its work.                          *)
Dispatch(s) ==
    /\ pc[s] = "parse"
    /\ \E answer \in Answers(s) : Continue(s, answer, TRUE)
    /\ UNCHANGED <<slots, locks, at, target, buf, client, up, accepted>>

(* cmd_hello lets events through before its reply is sent.                 *)
Hello(s) ==
    /\ pc[s] = "parse"
    /\ greeted' = greeted \cup {s}
    /\ Continue(s, <<"own">>, TRUE)
    /\ UNCHANGED <<conn, leaving, locks, at, target, buf, client, up, accepted>>

(* Too many failed attempts to authenticate: the last one is answered      *)
(* before session_destroy runs.                                            *)
Expel(s) ==
    /\ pc[s] = "parse"
    /\ s \in greeted
    /\ leaving' = leaving \cup {s}
    /\ \E farewell \in Farewells(s) :
          Continue(s, <<"own">> \o farewell, FALSE)
    /\ UNCHANGED <<conn, greeted, locks, at, target, buf, client, up, accepted>>

(* recv_exact fails, or the length of a frame is invalid: session_destroy. *)
Leave(s) ==
    /\ pc[s] = "recv"
    /\ leaving' = leaving \cup {s}
    /\ \E farewell \in Farewells(s) : Continue(s, farewell, FALSE)
    /\ UNCHANGED <<conn, greeted, locks, at, target, buf, client, up, accepted>>

(* Fault: the slot is freed whoever holds the table.                       *)
FreeAllowed_NoLock == TRUE

FreeAllowed == table = None

Cleared(s) == greeted' = greeted \ {s}

FreeSlot(s) ==
    /\ pc[s] = "free"
    /\ FreeAllowed
    /\ conn' = [conn EXCEPT ![s] = None]
    /\ Cleared(s)
    /\ leaving' = leaving \ {s}
    /\ full' = full \ {conn[s]}
    /\ up' = up \ {conn[s]}
    /\ Goto(s, "none")
    /\ UNCHANGED <<locks, sending, buf, wire, accepted>>

-----------------------------------------------------------------------------
(* Sending                                                                 *)

(* The USB thread finds the onset of an overload.                          *)
Overload ==
    /\ pc[Usb] = "idle"
    /\ Continue(Usb, <<"all">>, TRUE)
    /\ UNCHANGED <<slots, locks, at, target, buf, client, up, accepted>>

Broadcast(t) ==
    /\ pc[t] = "ready" /\ Head(todo[t]) # "own"
    /\ table = None
    /\ table' = t
    /\ at' = [at EXCEPT ![t] = Slots \ (IF Head(todo[t]) = "others" THEN {t} ELSE {})]
    /\ Goto(t, "visit")
    /\ UNCHANGED <<slots, lock, todo, target, buf, client, up, accepted>>

Reaches(s) == conn[s] # None /\ s \in greeted

(* Fault: the loop goes round without advancing past a slot it skips.      *)
Remaining_Skipped(t, s) == IF Reaches(s) THEN at[t] \ {s} ELSE at[t]

Remaining(t, s) == at[t] \ {s}

(* broadcast visits the slots in order, and sends to the ones past hello.  *)
Visit(t) ==
    /\ pc[t] = "visit"
    /\ at[t] # {}
    /\ LET s == Min(at[t])
       IN  /\ at' = [at EXCEPT ![t] = Remaining(t, s)]
           /\ IF Reaches(s)
              THEN /\ target' = [target EXCEPT ![t] = [slot |-> s, conn |-> conn[s]]]
                   /\ Goto(t, "length")
              ELSE UNCHANGED <<pc, target>>
    /\ UNCHANGED <<slots, locks, todo, buf, client, up, accepted>>

Unlock(t) ==
    /\ pc[t] = "visit"
    /\ at[t] = {}
    /\ table' = None
    /\ Continue(t, Tail(todo[t]), t \notin leaving)
    /\ UNCHANGED <<slots, lock, at, target, buf, client, up, accepted>>

(* Fault: the socket is written whoever else is writing to it.             *)
MayWrite_NoLock(s) == TRUE

MayWrite(s) == lock[s] = None

(* The stream of bytes after a length, or a body, was added to it.         *)
AfterLength(w, t) == IF w = Whole THEN [state |-> "open", by |-> t]
                                  ELSE [state |-> "torn", by |-> None]
AfterBody(w, t) == IF w = [state |-> "open", by |-> t] THEN Whole
                                  ELSE [state |-> "torn", by |-> None]

(* send_framed locks send_mutex and sends the length, with MSG_MORE.       *)
Length(t, s, c) ==
    /\ MayWrite(s)
    /\ lock' = [lock EXCEPT ![s] = t]
    /\ wire' = [wire EXCEPT ![c] = AfterLength(@, t)]
    /\ target' = [target EXCEPT ![t] = [slot |-> s, conn |-> c]]
    /\ Goto(t, "body")
    /\ UNCHANGED <<slots, table, todo, at, buf, full, up, accepted>>

SendLength(t) == pc[t] = "length" /\ Length(t, target[t].slot, target[t].conn)

(* A reply, or an event for the session's own client.                      *)
SendOwn(s) ==
    /\ pc[s] = "ready" /\ Head(todo[s]) = "own"
    /\ Length(s, s, conn[s])

(* Then the body: it waits for room, fails if the client has gone, and may *)
(* fill the buffer.                                                        *)
SendBody(t) ==
    LET s == target[t].slot
        c == target[t].conn
    IN  /\ pc[t] = "body"
        /\ c \in full => c \notin up
        /\ lock' = [lock EXCEPT ![s] = None]
        /\ wire' = [wire EXCEPT ![c] = AfterBody(@, t)]
        /\ full' \in {full, full \cup {c}}
        /\ target' = [target EXCEPT ![t] = NoTarget]
        /\ IF table = t
           THEN Goto(t, "visit") /\ UNCHANGED todo
           ELSE Continue(t, Tail(todo[t]), t \notin leaving)
        /\ UNCHANGED <<slots, table, at, buf, up, accepted>>

Session(s) ==
    \/ Receive(s) \/ Hello(s) \/ Dispatch(s) \/ Expel(s) \/ Leave(s) \/ FreeSlot(s)
    \/ SendOwn(s)

Send(t) == Broadcast(t) \/ Visit(t) \/ Unlock(t) \/ SendLength(t) \/ SendBody(t)

Next ==
    \/ \E s \in Slots : Accept(s) \/ Session(s)
    \/ \E t \in Threads : Send(t)
    \/ Overload
    \/ \E c \in Conns : Read(c) \/ Hangup(c)

Spec == Init /\ [][Next]_vars

(* A thread that can run does, and none waits for ever on a mutex that is  *)
(* released again and again.  A client need not send another request.      *)
ThreadStep(t) == Send(t) \/ (t \in Slots /\
    (\/ Hello(t) \/ Dispatch(t) \/ Expel(t) \/ FreeSlot(t) \/ SendOwn(t)
     \/ Leave(t) /\ conn[t] \notin up))

ThreadFairness == \A t \in Threads : SF_vars(ThreadStep(t))

FairSpec == Spec /\ ThreadFairness

(* In addition every client reads, or hangs up.                            *)
ReadingSpec ==
    FairSpec /\ \A c \in Conns : WF_vars(Read(c))

-----------------------------------------------------------------------------
(* Properties                                                              *)

(* Type invariant of the session table and its locks: a slot without a     *)
(* connection has not been greeted, so a new session awaits hello.         *)
TypeOK ==
    /\ pc \in [Threads -> {"idle", "none", "recv", "parse", "ready", "visit",
                           "length", "body", "free"}]
    /\ conn \in [Slots -> Conns \cup {None}]
    /\ leaving \subseteq Slots
    /\ greeted \subseteq {s \in Slots : conn[s] # None}
    /\ table \in Threads \cup {None}
    /\ lock \in [Slots -> Threads \cup {None}]
    /\ full \subseteq Conns /\ up \subseteq 1 .. accepted

(* Replies and events of different threads on one socket never interleave: *)
(* what a client has received is whole frames and at most the start of one.*)
FramesWhole == \A c \in Conns : wire[c].state # "torn"

(* What is being sent goes to the connection that the sender looked at: no *)
(* slot is freed, and no descriptor closed, underneath a send.             *)
SendsToLive ==
    \A t \in Threads : pc[t] \in {"length", "body"} =>
        conn[target[t].slot] = target[t].conn

(* Stated at msg_buf: being static is safe.  A handler acts on the request *)
(* of its own client.                                                      *)
RequestIntact == \A s \in Slots : pc[s] = "parse" => buf = s

(* Every broadcast lets go of the session table: a comment calls it a      *)
(* handful of microseconds into a socket buffer.                           *)
TableReleased == []<>(table = None)

(* A client that has gone frees its slot for the next one.                 *)
SlotFreed == \A s \in Slots : s \in leaving ~> s \notin leaving

(* Nobody waits for good: every broadcast gives the session table back and *)
(* every session that ends frees its slot, which takes the table.          *)
SessionsProceed == TableReleased /\ SlotFreed
=============================================================================
