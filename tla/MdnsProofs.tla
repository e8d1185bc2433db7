----------------------------- MODULE MdnsProofs -----------------------------
(***************************************************************************)
(* Proofs about MdnsService, for every set of sampling modes and both      *)
(* backends: what a listener holds, what the threads share, and what the   *)
(* Avahi backend and avahi-daemon each believe.                            *)
(***************************************************************************)
EXTENDS MdnsService, TLAPS

(* A packet is complete when the PTR record comes with the other three.    *)
Whole(records) == records \subseteq R_ALL /\ ("PTR" \in records => records = R_ALL)

(* The inductive invariant of the responder: what is sent and what is held *)
(* is complete, the thread lives only between Spawn and Close, and the     *)
(* socket is open from Announce to Close.                                  *)
ResponderInv ==
    /\ Whole(which) /\ Whole(cache)
    /\ thread \in {"loop", "recv", "answer"} => main \in {"up", "flag", "shut", "join"}
    /\ main \in {"spawn", "up", "flag", "shut", "join"} => sock

(* The inductive invariant of the Avahi backend.  Only the group's state   *)
(* and the ghost tell a service that was committed from one that was not.  *)
Freed == {"free_client", "done"}
AvahiInv ==
    /\ avahi \in {"new", "up", "stop", "free_group", "free_client"} => client
    /\ poll => avahi \in {"up", "stop"}
    /\ services \in {0, 1}
    /\ group = "null" => services = 0
    /\ group \in {"registering", "established"} => services = 1
    /\ services = 1 /\ ~refused => group # "uncommitted"
    /\ avahi \in Freed => group = "null"
    /\ avahi # "free_client" /\ g_published => group \in {"registering", "established"}
    /\ avahi \notin Freed /\ server = "running" /\ ~refused => services = 1

-----------------------------------------------------------------------------
(* The built-in responder                                                  *)

(* Whatever is asked, the answer carries the PTR record only with the SRV, *)
(* TXT and A records.                                                      *)
LEMMA AnswersWhole == \A query \in Queries : Whole(records_for_query(query))
<1>1. \A q \in Questions : Whole(RecordsFor(q))
  <2> SUFFICES ASSUME NEW q \in Questions PROVE Whole(RecordsFor(q))
    OBVIOUS
  <2>1. CASE q.name \in {"service", "services_meta"}
    BY <2>1 DEF RecordsFor, Whole, R_ALL
  <2>2. CASE q.name = "instance"
    BY <2>2 DEF RecordsFor, Whole, R_ALL
  <2>3. CASE q.name \notin {"service", "services_meta", "instance"}
    BY <2>3 DEF RecordsFor, Whole, R_ALL
  <2> QED
    BY <2>1, <2>2, <2>3
<1> SUFFICES ASSUME NEW q \in Questions, NEW r \in Questions
             PROVE  Whole(records_for_query({q, r}))
  BY DEF Queries
<1>2. records_for_query({q, r}) = RecordsFor(q) \cup RecordsFor(r)
  BY DEF records_for_query
<1>3. Whole(RecordsFor(q)) /\ Whole(RecordsFor(r))
  BY <1>1
<1> QED
  BY <1>2, <1>3 DEF Whole

(* A packet, heard or lost, leaves the listener with a complete set; a     *)
(* goodbye names every record.                                             *)
LEMMA HeardWhole ==
    ASSUME Whole(cache), NEW records, Whole(records), NEW alive \in BOOLEAN, NEW text,
           ~alive => records = R_ALL, send_records(records, alive, text)
    PROVE  Whole(cache')
  BY Zenon DEF send_records, Whole, listener, R_ALL

(* Every step of the responder and of the main thread keeps ResponderInv.  *)
LEMMA ResponderStep == ResponderInv /\ [Next]_vars => ResponderInv'
<1> SUFFICES ASSUME ResponderInv, [Next]_vars PROVE ResponderInv'
  OBVIOUS
<1> USE DEF ResponderInv, responder, listener
<1>0. Whole({}) /\ Whole(R_ALL)
  BY DEF Whole, R_ALL
<1>1. CASE Announce
  <2>1. Whole(cache')
    BY <1>0, <1>1, HeardWhole, Zenon DEF Announce
  <2> QED
    BY <1>1, <2>1 DEF Announce
<1>2. CASE Goodbye
  <2>1. Whole(cache')
    <3>1. CASE published
      BY <1>0, <1>2, <3>1, HeardWhole, Zenon DEF Goodbye
    <3>2. CASE ~published
      BY <1>2, <3>2 DEF Goodbye
    <3> QED
      BY <3>1, <3>2
  <2> QED
    BY <1>2, <2>1 DEF Goodbye
<1>3. CASE Respond
  <2>1. CASE Receive
    <3>1. Whole(which')
      BY <2>1, AnswersWhole DEF Receive
    <3> QED
      BY <2>1, <3>1 DEF Receive
  <2>2. CASE Answer
    <3>1. Whole(cache') /\ Whole(which')
      BY <1>0, <2>2, HeardWhole, Zenon DEF Answer
    <3> QED
      BY <2>2, <3>1 DEF Answer
  <2>3. CASE Loop \/ Woken
    BY <2>3 DEF Loop, Woken
  <2> QED
    BY <1>3, <2>1, <2>2, <2>3 DEF Respond
<1>4. CASE Stop
  BY <1>4 DEF Stop, NothingToStop, Flag, Shut, Close, Joined, JoinNobody
<1>5. CASE StartFails \/ Spawn \/ SpawnFails \/ ModeChange
  BY <1>5 DEF StartFails, Spawn, SpawnFails, ModeChange
<1>6. CASE UNCHANGED vars
  BY <1>6 DEF vars
<1> QED
  BY <1>1, <1>2, <1>3, <1>4, <1>5, <1>6 DEF Next

-----------------------------------------------------------------------------
(* The Avahi backend                                                       *)

(* A call of publish_service adds the service to a group that is empty,    *)
(* and leaves one that holds it alone.                                     *)
LEMMA PublishOnce ==
    ASSUME AvahiInv, publish_service
    PROVE  /\ services' \in {0, 1}
           /\ group' = "null" => services' = 0
           /\ group' \in {"registering", "established"} => services' = 1
           /\ services' = 1 /\ ~refused' => group' # "uncommitted"
           /\ services' = 0 => refused'
           /\ services = 1 => UNCHANGED <<group, services, refused>>
<1> USE DEF AvahiInv, MayAdd
<1>1. CASE NoGroup
  BY <1>1 DEF NoGroup
<1>2. CASE AddFails
  BY <1>2 DEF AddFails
<1>3. CASE Added
  BY <1>3 DEF Added
<1>4. CASE ~MayAdd /\ UNCHANGED <<group, services, refused>>
  BY <1>4
<1> QED
  BY <1>1, <1>2, <1>3, <1>4 DEF publish_service

(* Every callback and every step of the main thread keeps AvahiInv.        *)
LEMMA AvahiStep == AvahiInv /\ [AvahiNext]_avahivars => AvahiInv'
<1> SUFFICES ASSUME AvahiInv, [AvahiNext]_avahivars PROVE AvahiInv'
  OBVIOUS
<1>1. ASSUME NEW state \in ServerStates, client_cb(state) PROVE AvahiInv'
  <2>1. /\ UNCHANGED <<avahi, poll, client>> /\ server' = state
        /\ avahi \notin Freed
    BY <1>1 DEF client_cb, CallbackMayRun, AvahiInv, Freed
  <2>2. CASE state = "running"
    <3>1. publish_service /\ UNCHANGED g_published
      BY <1>1, <2>2 DEF client_cb
    <3> QED
      BY <2>1, <2>2, <3>1, PublishOnce DEF AvahiInv, Freed
  <2>3. CASE state \in {"collision", "registering"}
    <3>1. /\ ~g_published' /\ services' = 0 /\ UNCHANGED refused
          /\ group' = IF group = "null" THEN "null" ELSE "uncommitted"
      BY <1>1, <2>3, Zenon DEF client_cb, FlagAfterReset
    <3> QED
      BY <2>1, <2>3, <3>1 DEF AvahiInv, Freed
  <2>4. CASE state \in {"failure", "connecting"}
    <3>1. UNCHANGED <<group, services, refused>> /\ (g_published' => g_published)
      BY <1>1, <2>4, Zenon DEF client_cb
    <3> QED
      BY <2>1, <2>4, <3>1 DEF AvahiInv, Freed
  <2> QED
    BY <2>2, <2>3, <2>4 DEF ServerStates
<1>2. ASSUME NEW state \in GroupStates \ {"uncommitted"}, group_cb(state) PROVE AvahiInv'
  BY <1>2, Zenon DEF group_cb, GroupStates, AvahiInv, Freed
<1>3. CASE AvahiStart \/ StartPoll \/ AvahiStop \/ StopPoll
  BY <1>3 DEF AvahiStart, StartPoll, AvahiStop, FirstFreed, StopPoll, AvahiInv, Freed
<1>4. CASE FreeGroup \/ FreeClient
  BY <1>4 DEF FreeGroup, FreeClient, AvahiInv, Freed
<1>5. CASE UNCHANGED avahivars
  BY <1>5 DEF avahivars, AvahiInv, Freed
<1> QED
  BY <1>1, <1>2, <1>3, <1>4, <1>5 DEF AvahiNext

-----------------------------------------------------------------------------
(* The service, whichever backend it uses                                  *)

(* Both invariants hold in every reachable state.                          *)
THEOREM ServiceSafe == ServiceSpec => [](ResponderInv /\ AvahiInv)
<1>1. ServiceInit => ResponderInv /\ AvahiInv
  BY DEF ServiceInit, Init, AvahiInit, ResponderInv, Whole, AvahiInv, Freed, R_ALL
<1>2. ResponderInv /\ AvahiInv /\ [ServiceNext]_<<vars, avahivars, s_avahi>>
        => ResponderInv' /\ AvahiInv'
  BY ResponderStep, AvahiStep DEF ServiceNext
<1> QED
  BY <1>1, <1>2, PTL DEF ServiceSpec

(* Whatever was asked and lost, a listener that holds the PTR record can   *)
(* resolve the service.                                                    *)
THEOREM FoundResolves == ServiceSpec => []FoundIsResolved
<1>1. ResponderInv => FoundIsResolved
  BY DEF ResponderInv, Whole, FoundIsResolved
<1> QED
  BY ServiceSafe, <1>1, PTL

(* mdns_builtin_stop closes the socket after the responder has left it,    *)
(* and mdns_avahi_stop frees the client after the poll's thread has ended. *)
THEOREM HandlesOutlive == ServiceSpec => []HandlesOutliveThreads
<1>1. ResponderInv /\ AvahiInv => HandlesOutliveThreads
  BY DEF ResponderInv, AvahiInv, HandlesOutliveThreads, SocketOutlivesThread,
         ClientOutlivesPoll, CallbackMayRun
<1> QED
  BY ServiceSafe, <1>1, PTL

(* Through restarts, renames and failures of avahi-daemon in any order,    *)
(* the flag, the group and what avahi-daemon was given agree.              *)
THEOREM AvahiInStep == ServiceSpec => []AvahiAgrees
<1>1. AvahiInv => AvahiAgrees
  BY DEF AvahiInv, Freed, AvahiAgrees, AvahiPublished, OneService, ReAdded
<1> QED
  BY ServiceSafe, <1>1, PTL
=============================================================================
