---------------------------- MODULE MdnsService ----------------------------
(***************************************************************************)
(* mDNS discovery as main.c uses it: mdns_start and mdns_stop of           *)
(* common/mdns.c, which hand over to the built-in responder or to Avahi.   *)
(***************************************************************************)
EXTENDS Mdns, MdnsAvahi

VARIABLE s_avahi   \* the backend --mdns chose, before either was started

ServiceInit == Init /\ AvahiInit /\ s_avahi \in BOOLEAN

ServiceNext ==
    /\ \/ ~s_avahi /\ Next /\ UNCHANGED avahivars
       \/ s_avahi /\ AvahiNext /\ UNCHANGED vars
    /\ UNCHANGED s_avahi

(* The fairness of the responder; Avahi's threads need none.               *)
ServiceSpec ==
    /\ ServiceInit /\ [][ServiceNext]_<<vars, avahivars, s_avahi>>
    /\ WF_vars(Stop) /\ WF_vars(Loop) /\ WF_vars(Answer) /\ WF_vars(Woken)

(* What the main thread closes or frees is in no other thread's hands: the *)
(* responder's socket and the client Avahi's callbacks are called with.    *)
HandlesOutliveThreads == SocketOutlivesThread /\ ClientOutlivesPoll
=============================================================================
