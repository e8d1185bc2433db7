------------------------------- MODULE CpAuth -------------------------------
(***************************************************************************)
(* Authentication of one session slot over successive connections:         *)
(* hello issues a challenge, authenticate answers it, and the commands     *)
(* that address rx are gated until an answer was right.                    *)
(*                                                                         *)
(*   cp/cp_commands.c  cmd_hello, cmd_authenticate, cmd_addresses_rx       *)
(*   cp/cp_session.c   session_create, the gate and close_after_reply      *)
(*   common/auth.c     auth_make_nonce, auth_verify                        *)
(*                                                                         *)
(* A connection is served by one thread and shares nothing with the        *)
(* others, so each request is one step.  Nonces are numbered in the order  *)
(* they are drawn and never repeat; a response is the key and the nonce it *)
(* was computed from.                                                      *)
(***************************************************************************)
EXTENDS Integers, Sequences

CONSTANTS
    Ring,          \* g_keys: the keys loaded from the key file
    ClientKeys,    \* keys that clients use, in the ring or not
    MaxFailures,   \* AUTH_MAX_FAILURES
    Window,        \* AUTH_WINDOW_NS
    MaxTime,       \* bound on the clock
    MaxNonces,     \* bound on the nonces drawn
    RandomFails    \* may getrandom fail?

ASSUME RingAssumption == Ring \subseteq ClientKeys
ASSUME LimitsAssumption == /\ MaxFailures \in Nat \ {0}
                           /\ Window \in Nat \ {0}
                           /\ MaxTime \in Nat
                           /\ MaxNonces \in Nat
                           /\ RandomFails \in BOOLEAN

VARIABLES
    conn,      \* "closed", "await_hello", "idle", or "closing": the reply
               \* that reports one failure too many has gone out
    nonce,     \* Session.nonce, as its number; 0: never drawn
    valid,     \* Session.nonce_valid
    unlocked,  \* Session.rx_unlocked
    failures,  \* Session.auth_failures
    window,    \* Session.auth_window_ns
    now,       \* mono_ns()
    drawn,     \* nonces drawn since the daemon started
    told,      \* the nonce in the last reply that carried one; 0: none
    since,     \* nonces drawn before this connection
    judged,    \* nonces a response was compared with
    proof,     \* the response that unlocked this connection, or <<>>
    served,    \* has an rx command been dispatched on this connection?
    failed     \* when each failed attempt of this connection was made

session == <<nonce, valid, unlocked, failures, window>>
history == <<told, since, judged, proof, served, failed>>
vars == <<conn, session, now, drawn, history>>

Init ==
    /\ conn = "closed"
    /\ nonce = 0 /\ valid = FALSE /\ unlocked = FALSE /\ failures = 0 /\ window = 0
    /\ now = 0 /\ drawn = 0
    /\ told = 0 /\ since = 0 /\ judged = {} /\ proof = <<>>
    /\ served = FALSE /\ failed = <<>>

-----------------------------------------------------------------------------
Tick ==
    /\ now < MaxTime
    /\ now' = now + 1
    /\ UNCHANGED <<conn, session, drawn, history>>

(* Fault: the slot keeps the flags of the connection before.               *)
ClearSlot_Flags ==
    nonce' = 0 /\ failures' = 0 /\ window' = 0 /\ UNCHANGED <<valid, unlocked>>

(* memset of the slot, in session_destroy and again in session_create.     *)
ClearSlot ==
    /\ nonce' = 0 /\ valid' = FALSE /\ unlocked' = FALSE
    /\ failures' = 0 /\ window' = 0

Connect ==
    /\ conn = "closed"
    /\ conn' = "await_hello"
    /\ ClearSlot
    /\ told' = 0 /\ since' = drawn /\ proof' = <<>> /\ served' = FALSE
    /\ failed' = <<>>
    /\ UNCHANGED <<now, drawn, judged>>

(* auth_make_nonce draws a fresh nonce, which the reply then carries, or   *)
(* fails; the session then has no valid nonce.                             *)
Challenge ==
    \/ /\ drawn < MaxNonces
       /\ drawn' = drawn + 1
       /\ nonce' = drawn'
       /\ valid' = TRUE
       /\ told' = drawn'
    \/ /\ RandomFails
       /\ valid' = FALSE
       /\ UNCHANGED <<nonce, drawn, told>>

(* hello may be repeated: it then issues another challenge.                *)
Hello ==
    /\ conn \in {"await_hello", "idle"}
    /\ conn' = "idle"
    /\ Challenge
    /\ UNCHANGED <<unlocked, failures, window, now, since, judged, proof, served, failed>>

(* A new window starts with the first attempt after the last one ended.    *)
Expired == now - window > Window

FailuresBefore == IF Expired THEN 0 ELSE failures

(* nonce_valid and auth_verify: some key of the ring with that identifier  *)
(* gives the same MAC over the session's nonce.                            *)
Verified(r) == valid /\ r.key \in Ring /\ r.nonce = nonce

(* Fault: the failed nonce stays in force.                                 *)
AfterFailure_SameNonce == UNCHANGED <<nonce, valid, drawn, told>>

(* Fault: the fresh nonce is not put into the reply.                       *)
AfterFailure_Untold ==
    /\ drawn < MaxNonces
    /\ drawn' = drawn + 1
    /\ nonce' = drawn'
    /\ valid' = TRUE
    /\ UNCHANGED told

(* A failed attempt is answered with a fresh nonce.                        *)
AfterFailure == Challenge

(* Fault: the limit is off by one.                                         *)
Exceeded_Late(n) == n > MaxFailures

Exceeded(n) == n >= MaxFailures

AuthenticateFails(r) ==
    /\ conn = "idle"
    /\ ~Verified(r)
    /\ window' = IF Expired THEN now ELSE window
    /\ failures' = FailuresBefore + 1
    /\ failed' = Append(failed, now)
    /\ judged' = IF valid THEN judged \cup {nonce} ELSE judged
    /\ AfterFailure
    /\ conn' = IF Exceeded(failures') THEN "closing" ELSE "idle"
    /\ UNCHANGED <<unlocked, now, since, proof, served>>

AuthenticateSucceeds(r) ==
    /\ conn = "idle"
    /\ Verified(r)
    /\ window' = IF Expired THEN now ELSE window
    /\ failures' = FailuresBefore
    /\ unlocked' = TRUE
    /\ valid' = FALSE
    /\ judged' = judged \cup {nonce}
    /\ proof' = <<r>>
    /\ UNCHANGED <<conn, nonce, now, drawn, told, since, served, failed>>

(* Responses to nonces the daemon has sent, on this connection or before,  *)
(* and to none of them.                                                    *)
Responses == [key : ClientKeys, nonce : 0 .. drawn]

(* A command for which cmd_addresses_rx holds passes the gate.             *)
RxCommand ==
    /\ conn = "idle"
    /\ unlocked
    /\ served' = TRUE
    /\ UNCHANGED <<conn, session, now, drawn, told, since, judged, proof, failed>>

(* The client goes, or the daemon closes the connection.                   *)
Disconnect ==
    /\ conn # "closed"
    /\ conn' = "closed"
    /\ ClearSlot
    /\ UNCHANGED <<now, drawn, history>>

Next ==
    \/ Tick \/ Connect \/ Hello \/ RxCommand \/ Disconnect
    \/ \E r \in Responses : AuthenticateFails(r) \/ AuthenticateSucceeds(r)

Spec == Init /\ [][Next]_vars

-----------------------------------------------------------------------------
(* Properties                                                              *)

(* Type invariant: the failure count never passes its limit, and nonces    *)
(* in use have been drawn.                                                 *)
TypeOK ==
    /\ conn \in {"closed", "await_hello", "idle", "closing"}
    /\ drawn \in 0 .. MaxNonces
    /\ nonce \in 0 .. drawn /\ told \in 0 .. drawn /\ since \in 0 .. drawn
    /\ valid \in BOOLEAN /\ unlocked \in BOOLEAN /\ served \in BOOLEAN
    /\ failures \in 0 .. MaxFailures
    /\ window \in 0 .. MaxTime /\ now \in 0 .. MaxTime
    /\ judged \subseteq 1 .. drawn
    /\ failed \in Seq(0 .. now)

(* An rx command is dispatched only on a connection that has answered a    *)
(* challenge of its own with a key of the ring: nothing carries over from  *)
(* the connection that had the slot before, nor from its challenges.       *)
GateHolds ==
    served \/ unlocked =>
        /\ proof # <<>>
        /\ proof[1].key \in Ring
        /\ proof[1].nonce > since

(* A nonce decides one attempt: whatever the outcome was, it is not the    *)
(* challenge of a later one.                                               *)
NonceUnused == valid => nonce \notin judged

(* The challenge in force is the one the client was told last, so a client *)
(* that holds a key can always answer it.                                  *)
ChallengeKnown == valid => told = nonce

(* What makes these inductive: the challenge in force was drawn on this    *)
(* connection, and an open connection has attempts left.                   *)
AuthInv ==
    /\ TypeOK
    /\ GateHolds
    /\ NonceUnused
    /\ ChallengeKnown
    /\ valid => nonce > since
    /\ conn \in {"await_hello", "idle"} => failures < MaxFailures

(* In no span of one window does a connection fail more often than the     *)
(* limit in one window and one less in the window before.                  *)
FailureRate ==
    \A i, j \in DOMAIN failed :
        j - i >= 2 * MaxFailures - 1 => failed[j] - failed[i] > Window

(* What makes it inductive: the last failures of an open connection fell   *)
(* in the window in force, the ones before it began no later, and all but  *)
(* MaxFailures - 1 of those are further back than a window is long.        *)
Earlier == Len(failed) - failures
RateInv ==
    /\ FailureRate
    /\ conn # "closed" =>
         /\ Earlier >= 0
         /\ window <= now
         /\ \A i \in 1 .. Earlier : failed[i] <= window
         /\ \A i \in 1 .. Earlier - (MaxFailures - 1) : window - failed[i] > Window

=============================================================================
