-------------------------------- MODULE Mdns --------------------------------
(***************************************************************************)
(* The built-in mDNS responder (common/mdns_builtin.c), started and        *)
(* stopped by main.c, as one listener on the network sees it.              *)
(*                                                                         *)
(* The main thread and the responder thread share the socket and           *)
(* s_running.  A datagram may be lost.  A record set holds the kinds of    *)
(* record one packet carries; names and encoding are left out.             *)
(***************************************************************************)

CONSTANTS
    Modes,         \* sampling modes: each has its own frequency range
    CreateFails    \* may pthread_create fail?

ASSUME MdnsAssumption == CreateFails \in BOOLEAN /\ Modes # {}

VARIABLES
    main,       \* the next step of the main thread
    thread,     \* the responder: "none", "loop", "recv", "answer", "exited"
    sock,       \* s_sock >= 0
    shut,       \* shutdown() was called on the socket
    running,    \* s_running
    published,  \* s_published
    which,      \* the records the responder is about to send
    mode,       \* g_sampling_mode
    txt,        \* the mode whose range is in s_txt
    cache,      \* records the listener holds
    heard       \* the mode in the TXT record the listener heard last

responder == <<thread, which>>
listener == <<cache, heard>>
vars == <<main, responder, sock, shut, running, published, mode, txt, listener>>

R_ALL == {"PTR", "SRV", "TXT", "A"}

Init ==
    /\ main = "off" /\ thread = "none"
    /\ sock = FALSE /\ shut = FALSE /\ running = FALSE /\ published = FALSE
    /\ which = {} /\ cache = {}
    /\ mode \in Modes /\ txt = mode /\ heard = mode

(* send_records: the listener stores what it hears, or drops it when the   *)
(* time to live is 0.  After shutdown() the send fails.                    *)
send_records(records, alive, text) ==
    \/ /\ ~shut
       /\ cache' = IF alive THEN cache \cup records ELSE cache \ records
       /\ heard' = IF alive /\ "TXT" \in records THEN text ELSE heard
    \/ UNCHANGED listener

-----------------------------------------------------------------------------
(* Queries                                                                 *)

Questions ==
    [name : {"service", "services_meta", "instance", "host", "other"},
     type : {"PTR", "SRV", "TXT", "A", "ANY"}]

(* Fault: the enumeration query gets only the PTR record.                  *)
RecordsFor_PtrOnly(q) ==
    IF q.name = "services_meta" /\ q.type \in {"PTR", "ANY"} THEN {"PTR"} ELSE {}

(* The records one question asks for.                                      *)
RecordsFor(q) ==
    CASE q.name \in {"service", "services_meta"} ->
            IF q.type \in {"PTR", "ANY"} THEN R_ALL ELSE {}
      [] q.name = "instance" ->
            (IF q.type \in {"SRV", "ANY"} THEN {"SRV", "A"} ELSE {})
                \cup (IF q.type \in {"TXT", "ANY"} THEN {"TXT"} ELSE {})
      [] q.name = "host" -> IF q.type \in {"A", "ANY"} THEN {"A"} ELSE {}
      [] OTHER -> {}

records_for_query(query) == UNION {RecordsFor(q) : q \in query}

(* Queries of one or two questions.                                        *)
Queries == {{q, r} : q, r \in Questions}

-----------------------------------------------------------------------------
(* The responder thread                                                    *)

Loop ==
    /\ thread = "loop"
    /\ thread' = IF running THEN "recv" ELSE "exited"
    /\ UNCHANGED <<main, which, sock, shut, running, published, mode, txt, listener>>

Receive ==
    /\ thread = "recv"
    /\ \E records \in {records_for_query(query) : query \in Queries} :
          /\ which' = records
          /\ thread' = IF records = {} THEN "loop" ELSE "answer"
    /\ UNCHANGED <<main, sock, shut, running, published, mode, txt, listener>>

(* After shutdown() recvfrom returns nothing.                              *)
Woken ==
    /\ thread = "recv" /\ shut
    /\ thread' = "loop"
    /\ UNCHANGED <<main, which, sock, shut, running, published, mode, txt, listener>>

Answer ==
    /\ thread = "answer"
    /\ send_records(which, TRUE, txt)
    /\ thread' = "loop" /\ which' = {}
    /\ UNCHANGED <<main, sock, shut, running, published, mode, txt>>

-----------------------------------------------------------------------------
(* The main thread                                                         *)

(* No address, no socket, or the port is taken.                            *)
StartFails ==
    /\ main = "off"
    /\ main' = "failed"
    /\ UNCHANGED <<responder, sock, shut, running, published, mode, txt, listener>>

(* mdns_builtin_start copies the TXT strings, announces, publishes.        *)
Announce ==
    /\ main = "off"
    /\ sock' = TRUE /\ txt' = mode /\ published' = TRUE
    /\ send_records(R_ALL, TRUE, mode)
    /\ main' = "spawn"
    /\ UNCHANGED <<responder, shut, running, mode>>

Spawn ==
    /\ main = "spawn"
    /\ running' = TRUE /\ thread' = "loop"
    /\ main' = "up"
    /\ UNCHANGED <<which, sock, shut, published, mode, txt, listener>>

SpawnFails ==
    /\ main = "spawn" /\ CreateFails
    /\ main' = "failed"
    /\ UNCHANGED <<responder, sock, shut, running, published, mode, txt, listener>>

(* A client sets direct_sampling.                                          *)
ModeChange ==
    /\ main \in {"up", "failed"}
    /\ mode' \in Modes \ {mode}
    /\ UNCHANGED <<main, responder, sock, shut, running, published, txt, listener>>

(* mdns_builtin_stop: the goodbye.                                         *)
Goodbye ==
    /\ main \in {"up", "failed"} /\ sock
    /\ IF published THEN send_records(R_ALL, FALSE, txt) ELSE UNCHANGED listener
    /\ main' = "flag"
    /\ UNCHANGED <<responder, sock, shut, running, published, mode, txt>>

NothingToStop ==
    /\ main = "failed" /\ ~sock
    /\ main' = "done"
    /\ UNCHANGED <<responder, sock, shut, running, published, mode, txt, listener>>

(* Fault: s_running is left alone.                                         *)
StopFlag_Forgotten == UNCHANGED running

StopFlag == running' = FALSE

Flag ==
    /\ main = "flag"
    /\ StopFlag
    /\ main' = "shut"
    /\ UNCHANGED <<responder, sock, shut, published, mode, txt, listener>>

Shut ==
    /\ main = "shut"
    /\ shut' = TRUE
    /\ main' = "join"
    /\ UNCHANGED <<responder, sock, running, published, mode, txt, listener>>

(* Fault: the join is left out.                                            *)
Joined_NoJoin == TRUE

Joined == thread = "exited"

Unpublish == published' = FALSE

Close ==
    /\ main = "join"
    /\ Joined
    /\ sock' = FALSE /\ Unpublish
    /\ main' = "done"
    /\ UNCHANGED <<responder, shut, running, mode, txt, listener>>

(* The join of a thread that was never created: s_tid is null.             *)
JoinNobody ==
    /\ main = "join" /\ thread = "none"
    /\ main' = "crashed"
    /\ UNCHANGED <<responder, sock, shut, running, published, mode, txt, listener>>

Respond == Loop \/ Receive \/ Woken \/ Answer

Stop == NothingToStop \/ Flag \/ Shut \/ Close \/ JoinNobody

Next ==
    \/ StartFails \/ Announce \/ Spawn \/ SpawnFails \/ ModeChange
    \/ Goodbye \/ Stop \/ Respond

Spec == Init /\ [][Next]_vars

(* Both threads run when they can, and a blocked recvfrom sees the socket  *)
(* shut down.  Nobody need send queries.                                   *)
FairSpec ==
    Spec /\ WF_vars(Stop) /\ WF_vars(Loop) /\ WF_vars(Answer) /\ WF_vars(Woken)

-----------------------------------------------------------------------------
(* Properties                                                              *)

(* Type invariant of the responder: the service counts as published        *)
(* (s_published) only while there is a socket.                             *)
TypeOK ==
    /\ main \in {"off", "spawn", "up", "failed", "flag", "shut", "join", "done", "crashed"}
    /\ thread \in {"none", "loop", "recv", "answer", "exited"}
    /\ {sock, shut, running, published} \subseteq BOOLEAN
    /\ which \subseteq R_ALL /\ cache \subseteq R_ALL
    /\ {mode, txt, heard} \subseteq Modes
    /\ published => sock

(* Whoever has found the service has what it takes to reach it: the PTR    *)
(* record never comes without the address, the port and the description.   *)
FoundIsResolved == "PTR" \in cache => cache = R_ALL

(* The responder never uses the socket after it was closed: the descriptor *)
(* may belong to something else by then.                                   *)
SocketOutlivesThread == thread \in {"loop", "recv", "answer"} => sock

(* Stopping a responder ends: its thread is woken, leaves and is joined.   *)
StopEnds == main = "flag" /\ thread # "none" ~> main = "done"

(* README: minhz and maxhz are the range for the current mode.             *)
RangeIsCurrent == main = "up" /\ "TXT" \in cache => heard = mode

(* The service was withdrawn: if the listener heard the goodbye, nothing   *)
(* that is sent afterwards brings a record back.                           *)
WithdrawnForGood ==
    [][(main \in {"flag", "shut", "join"}) => cache' \subseteq cache]_vars

(* main logs that the publication failed only if nothing was published.    *)
FailedIsUnpublished == main = "failed" => ~published

=============================================================================
