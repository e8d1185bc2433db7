----------------------------- MODULE MdnsAvahi -----------------------------
(***************************************************************************)
(* The Avahi backend of mDNS discovery (common/mdns_avahi.c).              *)
(*                                                                         *)
(* avahi-daemon answers on the network; the backend gives it one service   *)
(* in one entry group and follows what it says through two callbacks, on   *)
(* the thread of the threaded poll, or inside avahi_client_new before that *)
(* thread exists.  The library is external: it is modelled by the states   *)
(* it reports and by what an entry group holds.                            *)
(***************************************************************************)
EXTENDS Integers

VARIABLES
    avahi,        \* the next step of the main thread
    poll,         \* the poll's thread runs
    client,       \* g_client, or the client avahi_client_new is making
    server,       \* the client state reported last
    group,        \* g_group: "null", or the group's state at avahi-daemon
    services,     \* the services added to the group
    g_published,  \* g_published
    refused       \* ghost: a call of publish_service failed, and none was
                  \* completed since

avahivars == <<avahi, poll, client, server, group, services, g_published, refused>>

ServerStates == {"connecting", "registering", "running", "collision", "failure"}
GroupStates == {"uncommitted", "registering", "established", "collision", "failure"}

AvahiInit ==
    /\ avahi = "off" /\ poll = FALSE /\ client = FALSE
    /\ server = "connecting" /\ group = "null" /\ services = 0
    /\ g_published = FALSE /\ refused = FALSE

(* A callback runs on the poll's thread, or inside avahi_client_new.       *)
CallbackMayRun == poll \/ avahi = "new"

-----------------------------------------------------------------------------
(* Fault: only a group that was just made is filled.                       *)
MayAdd_Once == group = "null"

(* avahi_entry_group_is_empty                                              *)
MayAdd == services = 0

NoGroup ==
    /\ group = "null"
    /\ refused' = TRUE
    /\ UNCHANGED <<group, services>>

AddFails ==
    /\ MayAdd
    /\ group' = IF group = "null" THEN "uncommitted" ELSE group
    /\ refused' = TRUE
    /\ UNCHANGED services

Added ==
    /\ MayAdd
    /\ services' = services + 1
    /\ \/ group' = "registering" /\ refused' = FALSE
       \/ group' = "uncommitted" /\ refused' = TRUE

(* publish_service: the group is made once; a group that holds something   *)
(* is left alone.  Making it, adding and committing may each fail.         *)
publish_service ==
    \/ NoGroup \/ AddFails \/ Added
    \/ ~MayAdd /\ UNCHANGED <<group, services, refused>>

FlagAfterReset == FALSE

(* client_cb                                                               *)
client_cb(state) ==
    /\ CallbackMayRun
    /\ server' = state
    /\ CASE state = "running" -> publish_service /\ UNCHANGED g_published
         [] state = "failure" -> g_published' = FALSE /\ UNCHANGED <<group, services, refused>>
         [] state \in {"collision", "registering"} ->
                /\ g_published' = FlagAfterReset
                /\ services' = 0
                /\ group' = IF group = "null" THEN "null" ELSE "uncommitted"
                /\ UNCHANGED refused
         [] state = "connecting" -> UNCHANGED <<group, services, g_published, refused>>
    /\ UNCHANGED <<avahi, poll, client>>

(* group_cb: how registering a committed group ends, or what becomes of it *)
(* later.  A collision is not answered with another name.                  *)
group_cb(state) ==
    /\ poll
    /\ group \in {"registering", "established"} /\ state # group
    /\ group' = state
    /\ g_published' = IF state = "registering" THEN g_published ELSE state = "established"
    /\ UNCHANGED <<avahi, poll, client, server, services, refused>>

-----------------------------------------------------------------------------
(* mdns_avahi_start                                                        *)

AvahiStart ==
    /\ avahi = "off"
    /\ \/ avahi' = "new" /\ client' = TRUE
       \/ avahi' = "failed" /\ UNCHANGED client
    /\ UNCHANGED <<poll, server, group, services, g_published, refused>>

StartPoll ==
    /\ avahi = "new"
    /\ \/ avahi' = "up" /\ poll' = TRUE
       \/ avahi' = "stop" /\ UNCHANGED poll
    /\ UNCHANGED <<client, server, group, services, g_published, refused>>

(* mdns_avahi_stop stops the poll, whose thread has then ended, and only   *)
(* then frees the group and the client.                                    *)
FirstFreed == "stop"

AvahiStop ==
    /\ avahi = "up"
    /\ avahi' = FirstFreed
    /\ UNCHANGED <<poll, client, server, group, services, g_published, refused>>

StopPoll ==
    /\ avahi = "stop"
    /\ poll' = FALSE
    /\ avahi' = "free_group"
    /\ UNCHANGED <<client, server, group, services, g_published, refused>>

FreeGroup ==
    /\ avahi = "free_group"
    /\ group' = "null" /\ services' = 0
    /\ avahi' = "free_client"
    /\ UNCHANGED <<poll, client, server, g_published, refused>>

FreeClient ==
    /\ avahi = "free_client"
    /\ client' = FALSE
    /\ g_published' = FALSE
    /\ avahi' = "done"
    /\ UNCHANGED <<poll, server, group, services, refused>>

AvahiNext ==
    \/ AvahiStart \/ StartPoll \/ AvahiStop \/ StopPoll \/ FreeGroup \/ FreeClient
    \/ \E state \in ServerStates : client_cb(state)
    \/ \E state \in GroupStates \ {"uncommitted"} : group_cb(state)

-----------------------------------------------------------------------------
(* While the backend is up, the flag says published only of a service that *)
(* avahi-daemon holds, established or about to be again: every collision,  *)
(* failure and reset of the group takes it back.                           *)
AvahiPublished ==
    avahi = "up" /\ g_published => services = 1 /\ group \in {"registering", "established"}

(* However often avahi-daemon comes and goes, the group never holds the    *)
(* service twice, and nothing is left of it when the backend has stopped.  *)
OneService == services <= 1 /\ (avahi = "done" => services = 0 /\ group = "null")

(* No callback can run once the client it is called with was freed.        *)
ClientOutlivesPoll == CallbackMayRun => client

(* "drop and re-add on the way back": whenever avahi-daemon was last heard *)
(* to run, the service is in the group and committed, unless one of the    *)
(* calls that put it there failed.                                         *)
ReAdded ==
    poll /\ server = "running" /\ ~refused
        => services = 1 /\ group \notin {"null", "uncommitted"}

(* The backend and avahi-daemon agree on the service, through restarts,    *)
(* renames and failures of avahi-daemon in any order.                      *)
AvahiAgrees == AvahiPublished /\ OneService /\ ReAdded
=============================================================================
