------------------------------- MODULE Daemon -------------------------------
(***************************************************************************)
(* The daemon from main() to the end of the process: the order in which it *)
(* loads its keys, opens the dongle, the VITA socket, the control port and *)
(* the mDNS record, how it unwinds a start that fails, and the shutdown    *)
(* beside session threads that nobody stops.                               *)
(*                                                                         *)
(*   main.c            main, the signal handler                            *)
(*   cp/cp_server.c    the listening socket and the accept thread          *)
(*   rtl/rtl_bridge.c  the device, start, stop and force_stop              *)
(*   vita/vita_tx.c    the UDP socket                                      *)
(*                                                                         *)
(* RxStream shows that one session at a time drives the stream, so one     *)
(* client is enough to meet the shutdown; it sends hello once.  The key    *)
(* file outlives the process and is KeyFile's; the rest starts afresh with *)
(* each process.  That a cancel can be lost is left to RxStream.           *)
(***************************************************************************)
EXTENDS KeyFile

CONSTANTS
    Setups,     \* the command lines considered: rx_auth, mdns, whether clients
                \* come or only the key file is worked on, and a bound on
                \* the number of processes
    MaxThreads  \* bound on the async threads of one process

ASSUME SetupsAssumption ==
    Setups \subseteq [rx_auth : BOOLEAN, mdns : BOOLEAN, clients : BOOLEAN, runs : Nat]
ASSUME ThreadsAssumption == MaxThreads \in Nat \ {0}

Threads == 1 .. MaxThreads
NoThread == 0

VARIABLES
    setup,      \* one of Setups
    main,       \* the next step of the main thread; "off": no process
    code,       \* the exit code of the last process, 0 before the first
    runs,       \* the number of processes so far
    shutdown,   \* g_shutdown
    ring,       \* g_keys
    device,     \* s_dev is open
    sock,       \* s_sock of vita_tx.c is open
    listening,  \* s_listen_fd is open and the accept thread runs
    advertised, \* the mDNS record is published
    client,     \* the next step of the client's session thread
    streaming,  \* its state is SESSION_STREAMING
    count,      \* s_stream_count
    running,    \* s_running of rtl_bridge.c
    tid,        \* s_async_tid
    alive,      \* the async threads that have not ended
    cancelled,  \* those that rtlsdr_cancel_async told to end
    joining,    \* the thread that the main thread joins
    joined,     \* the threads that some pthread_join waits for or waited for
    twice,      \* a thread was joined twice
    disturbed   \* the session was stopping a stream at force_stop, or it
                \* started or stopped one from then on

process == <<shutdown, ring, device, sock, listening, advertised>>
bridge == <<count, running, tid, alive, cancelled, joining, joined, twice, disturbed>>
session == <<client, streaming>>
daemon == <<setup, main, code, runs, process, session, bridge>>
vars == <<keyvars, daemon>>

Ending == {"force_stop", "force_check", "force_join", "vita_destroy", "device_close"}
Labels == {"off", "options", "keys", "device", "vita", "server", "mdns", "loop",
           "mdns_stop", "server_stop"} \cup Ending

(* A process that has just begun.                                          *)
Fresh ==
    /\ shutdown' = FALSE /\ ring' = {} /\ device' = FALSE /\ sock' = FALSE
    /\ listening' = FALSE /\ advertised' = FALSE
    /\ client' = "none" /\ streaming' = FALSE
    /\ count' = 0 /\ running' = FALSE /\ tid' = NoThread /\ alive' = {}
    /\ cancelled' = {} /\ joining' = NoThread /\ joined' = {}
    /\ twice' = FALSE /\ disturbed' = FALSE

Init ==
    /\ KeyInit
    /\ setup \in Setups
    /\ main = "off" /\ code = 0 /\ runs = 0
    /\ shutdown = FALSE /\ ring = {} /\ device = FALSE /\ sock = FALSE
    /\ listening = FALSE /\ advertised = FALSE
    /\ client = "none" /\ streaming = FALSE
    /\ count = 0 /\ running = FALSE /\ tid = NoThread /\ alive = {}
    /\ cancelled = {} /\ joining = NoThread /\ joined = {}
    /\ twice = FALSE /\ disturbed = FALSE

-----------------------------------------------------------------------------
(* Start                                                                   *)

(* External: systemd or the operator starts the daemon.                    *)
Launch ==
    /\ main = "off" /\ runs < setup.runs
    /\ main' = "options" /\ runs' = runs + 1
    /\ Fresh
    /\ UNCHANGED <<keyvars, setup, code>>

(* The command line is taken, or a wrong option, a stray argument or a     *)
(* backend that this build lacks ends the start with 2, --help with 0.     *)
ParseOptions ==
    /\ main = "options"
    /\ \/ main' = "keys" /\ UNCHANGED code
       \/ main' = "off" /\ code' \in {0, 2}
    /\ UNCHANGED <<keyvars, setup, runs, process, session, bridge>>

(* With --rx-auth psk a file that is malformed, or that cannot be read for *)
(* whatever reason, ends the start; a missing or empty one leaves the      *)
(* receiver locked.                                                        *)
LoadKeys ==
    /\ main = "keys"
    /\ \/ /\ setup.rx_auth
          /\ main' = "off" /\ code' = 1 /\ UNCHANGED ring
       \/ /\ setup.rx_auth => ~Malformed(file)
          /\ main' = "device"
          /\ ring' = IF setup.rx_auth THEN Ring(file) ELSE {}
          /\ UNCHANGED code
    /\ UNCHANGED <<keyvars, setup, runs, shutdown, device, sock, listening, advertised,
                   session, bridge>>

OpenDevice ==
    /\ main = "device"
    /\ \/ main' = "vita" /\ device' = TRUE /\ UNCHANGED code
       \/ main' = "off" /\ code' = 1 /\ UNCHANGED device
    /\ UNCHANGED <<keyvars, setup, runs, shutdown, ring, sock, listening, advertised,
                   session, bridge>>

(* vita_tx_init; a failure closes the device.                              *)
InitVita ==
    /\ main = "vita"
    /\ \/ main' = "server" /\ sock' = TRUE /\ UNCHANGED <<code, device>>
       \/ main' = "off" /\ code' = 1 /\ device' = FALSE /\ UNCHANGED sock
    /\ UNCHANGED <<keyvars, setup, runs, shutdown, ring, listening, advertised, session,
                   bridge>>

(* Fault: a failed server leaves the device open.                          *)
DeviceAfterFailure_Open == device

DeviceAfterFailure == FALSE

(* cp_server_start; a failure closes the socket and the device.            *)
StartServer ==
    /\ main = "server"
    /\ \/ main' = "mdns" /\ listening' = TRUE /\ UNCHANGED <<code, device, sock>>
       \/ /\ main' = "off" /\ code' = 1
          /\ sock' = FALSE /\ device' = DeviceAfterFailure
          /\ UNCHANGED listening
    /\ UNCHANGED <<keyvars, setup, runs, shutdown, ring, advertised, session, bridge>>

(* mdns_start; a failure is only logged.                                   *)
StartMdns ==
    /\ main = "mdns"
    /\ main' = "loop"
    /\ advertised' \in (IF setup.mdns THEN BOOLEAN ELSE {FALSE})
    /\ UNCHANGED <<keyvars, setup, code, runs, shutdown, ring, device, sock, listening,
                   session, bridge>>

(* External: SIGINT or SIGTERM.  Before sigaction it ends the process.     *)
Signal ==
    /\ main # "off" /\ ~shutdown
    /\ IF main \in {"options", "keys"} THEN main' = "off" /\ UNCHANGED shutdown
       ELSE shutdown' = TRUE /\ UNCHANGED main
    /\ UNCHANGED <<keyvars, setup, code, runs, ring, device, sock, listening, advertised,
                   session, bridge>>

-----------------------------------------------------------------------------
(* Shutdown                                                                *)

(* while (!g_shutdown) sleep(1)                                            *)
FirstStop == "mdns_stop"

LeaveLoop ==
    /\ main = "loop" /\ shutdown
    /\ main' = FirstStop
    /\ UNCHANGED <<keyvars, setup, code, runs, process, session, bridge>>

StopMdns ==
    /\ main = "mdns_stop"
    /\ main' = "server_stop"
    /\ advertised' = FALSE
    /\ UNCHANGED <<keyvars, setup, code, runs, shutdown, ring, device, sock, listening,
                   session, bridge>>

(* Fault: the device is closed before the async thread is stopped.         *)
AfterServer_Close == "vita_destroy"

AfterServer == "force_stop"

(* cp_server_stop closes the port and joins the accept thread.  Session    *)
(* threads are detached and go on.                                         *)
StopServer ==
    /\ main = "server_stop"
    /\ main' = AfterServer
    /\ listening' = FALSE
    /\ UNCHANGED <<keyvars, setup, code, runs, shutdown, ring, device, sock, advertised,
                   session, bridge>>

(* rtl_bridge_force_stop takes no lock: it clears the count, looks at      *)
(* s_running and then cancels and joins.                                   *)
ForceStop ==
    /\ main = "force_stop"
    /\ count' = 0
    /\ main' = IF running THEN "force_check" ELSE "vita_destroy"
    /\ disturbed' = (disturbed \/ client \in {"stop_join", "end_join"})
    /\ UNCHANGED <<keyvars, setup, code, runs, process, session, running, tid, alive,
                   cancelled, joining, joined, twice>>

(* Fault: s_running is cleared, but a thread that waits for a transfer is  *)
(* not woken.                                                              *)
Cancelled_None == cancelled

(* rtlsdr_cancel_async                                                     *)
Cancelled == alive

(* pthread_join(s_async_tid)                                               *)
BeginJoin ==
    /\ joined' = joined \cup {tid}
    /\ twice' = (twice \/ tid \in joined)

ForceCancel ==
    /\ main = "force_check"
    /\ running' = FALSE
    /\ cancelled' = Cancelled
    /\ joining' = tid
    /\ BeginJoin
    /\ main' = "force_join"
    /\ UNCHANGED <<keyvars, setup, code, runs, process, session, count, tid, alive,
                   disturbed>>

ForceJoin ==
    /\ main = "force_join"
    /\ joining \notin alive
    /\ main' = "vita_destroy"
    /\ UNCHANGED <<keyvars, setup, code, runs, process, session, bridge>>

DestroyVita ==
    /\ main = "vita_destroy"
    /\ sock' = FALSE
    /\ main' = "device_close"
    /\ UNCHANGED <<keyvars, setup, code, runs, shutdown, ring, device, listening,
                   advertised, session, bridge>>

(* rtl_bridge_destroy and the end of the process, threads included.        *)
CloseDevice ==
    /\ main = "device_close"
    /\ device' = FALSE
    /\ main' = "off" /\ code' = 0
    /\ client' = "none" /\ alive' = {}
    /\ UNCHANGED <<keyvars, setup, runs, shutdown, ring, sock, listening, advertised,
                   streaming, count, running, tid, cancelled, joining, joined, twice,
                   disturbed>>

-----------------------------------------------------------------------------
(* The client's session and the async thread                               *)

Disturb == disturbed' = (disturbed \/ main \in Ending)

Connect ==
    /\ setup.clients /\ listening /\ client = "none"
    /\ client' = "recv" /\ streaming' = FALSE
    /\ UNCHANGED <<keyvars, setup, main, code, runs, process, bridge>>

(* start_rx: rtl_bridge_start, one critical section of s_start_mutex.  One *)
(* client that sends hello once never finds the bridge started.            *)
StartRx ==
    /\ client = "recv" /\ ~streaming /\ tid < MaxThreads
    /\ count = 0 /\ count' = 1
    /\ running' = TRUE
    /\ tid' = tid + 1
    /\ alive' = alive \cup {tid'}
    /\ streaming' = TRUE
    /\ Disturb
    /\ UNCHANGED <<keyvars, setup, main, code, runs, process, client, cancelled, joining,
                   joined, twice>>

(* stop_rx, or the end of the session: rtl_bridge_stop up to the unlock.   *)
StopRx(after) ==
    /\ client = "recv" /\ streaming
    /\ count' = IF count = 0 THEN 0 ELSE count - 1
    /\ IF count' = 0 /\ running
       THEN /\ running' = FALSE /\ cancelled' = Cancelled
            /\ BeginJoin
            /\ client' = IF after = "recv" THEN "stop_join" ELSE "end_join"
            /\ UNCHANGED streaming
       ELSE /\ client' = after /\ streaming' = FALSE
            /\ UNCHANGED <<running, cancelled, joined, twice>>
    /\ Disturb
    /\ UNCHANGED <<keyvars, setup, main, code, runs, process, tid, alive, joining>>

StopJoin ==
    /\ client \in {"stop_join", "end_join"}
    /\ tid \notin alive
    /\ client' = IF client = "stop_join" THEN "recv" ELSE "none"
    /\ streaming' = FALSE
    /\ UNCHANGED <<keyvars, setup, main, code, runs, process, bridge>>

Disconnect ==
    /\ client = "recv" /\ ~streaming
    /\ client' = "none"
    /\ UNCHANGED <<keyvars, setup, main, code, runs, process, streaming, bridge>>

(* rtlsdr_read_async returns after a cancel.                               *)
ThreadExit ==
    /\ \E t \in alive \cap cancelled : alive' = alive \ {t}
    /\ UNCHANGED <<keyvars, setup, main, code, runs, process, session, count, running, tid,
                   cancelled, joining, joined, twice, disturbed>>

MainStep ==
    \/ ParseOptions \/ LoadKeys \/ OpenDevice \/ InitVita \/ StartServer \/ StartMdns
    \/ LeaveLoop \/ StopMdns \/ StopServer \/ ForceStop \/ ForceCancel \/ ForceJoin
    \/ DestroyVita \/ CloseDevice

(* The key file is worked on when no client is modelled.                   *)
Next ==
    \/ Launch \/ Signal \/ MainStep \/ ThreadExit
    \/ Connect \/ StartRx \/ StopRx("recv") \/ StopRx("none") \/ StopJoin \/ Disconnect
    \/ ~setup.clients /\ KeyNext /\ UNCHANGED daemon

Spec == Init /\ [][Next]_vars

(* The main thread and a cancelled async thread are scheduled; nothing     *)
(* else has to happen.                                                     *)
FairSpec == Spec /\ WF_vars(MainStep) /\ WF_vars(ThreadExit)

-----------------------------------------------------------------------------
(* Properties                                                              *)

(* Type invariant.  The ring holds at most AUTH_MAX_KEYS keys.             *)
TypeOK ==
    /\ KeyTypeOK
    /\ setup \in Setups /\ main \in Labels /\ code \in 0 .. 2 /\ runs \in 0 .. setup.runs
    /\ ring \subseteq [id : KeyIds \cup {Garbled}, secret : Keygens \cup {Mixed}]
    /\ Cardinality(ring) <= AUTH_MAX_KEYS
    /\ {shutdown, device, sock, listening, advertised} \subseteq BOOLEAN
    /\ client \in {"none", "recv", "stop_join", "end_join"} /\ streaming \in BOOLEAN
    /\ count \in {0, 1} /\ running \in BOOLEAN
    /\ tid \in 0 .. MaxThreads /\ joining \in 0 .. MaxThreads
    /\ alive \subseteq Threads /\ cancelled \subseteq Threads
    /\ joined \subseteq Threads /\ twice \in BOOLEAN /\ disturbed \in BOOLEAN

(* The mDNS record is published only while the port it names is served,    *)
(* and the port is served only with the device and the VITA socket open.   *)
AdvertisedIsServed ==
    main # "off" => /\ advertised => listening
                    /\ listening => device /\ sock

(* A process that ends, on a signal or because one step of its start       *)
(* failed, has closed the device and the socket first.                     *)
NothingLeftOpen == main = "off" => ~device /\ ~sock

(* What the daemon holds is nested, at every step of its start, of the     *)
(* unwinding of a failed start and of the shutdown.                        *)
ResourcesNested == AdvertisedIsServed /\ NothingLeftOpen

(* A client may be streaming when the signal comes.  As long as its        *)
(* session is not stopping it at force_stop, and neither starts nor stops  *)
(* a stream from then on, the async thread has ended before the socket and *)
(* the device are closed, and it is joined once.                           *)
QuietShutdown ==
    ~disturbed => /\ main \in {"vita_destroy", "device_close"} => alive = {}
                  /\ ~twice

(* SIGTERM ends the daemon, whatever its client does.                      *)
ShutdownEnds == shutdown ~> main = "off"

(* QuietShutdown without its condition: what the order of the calls at the *)
(* end of main() is for.                                                   *)
DeviceOutlivesReader == main \in {"vita_destroy", "device_close"} => alive = {}

(* A thread is joined once.                                                *)
JoinedOnce == ~twice

(* Stated by main(): a half-read key file is worse than none, so a daemon  *)
(* that starts with keys has all that keygen reported.                     *)
NeverHalfRead ==
    [][main = "keys" /\ main' = "device" /\ setup.rx_auth =>
            acked \ deleted \subseteq ring']_vars
=============================================================================
