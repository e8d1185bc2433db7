---------------------------- MODULE CpAuthProofs ----------------------------
(***************************************************************************)
(* Proofs about CpAuth for every key ring, limit, window and number of     *)
(* connections: AuthInv is inductive, and the gate, the single use of a    *)
(* nonce and the challenge a client can answer follow from it; RateInv is  *)
(* inductive beside it and bounds the failures in a span of time.          *)
(***************************************************************************)
EXTENDS CpAuth, TLAPS

(* The initial state of a session slot satisfies AuthInv.                  *)
LEMMA InitAuth == Init => AuthInv
<1> SUFFICES ASSUME Init PROVE AuthInv
  OBVIOUS
<1>1. TypeOK
  <2>1. failed \in Seq(0 .. now)
    BY DEF Init
  <2>2. now \in 0 .. MaxTime /\ window \in 0 .. MaxTime /\ drawn \in 0 .. MaxNonces
        /\ failures \in 0 .. MaxFailures
    BY LimitsAssumption DEF Init
  <2>3. /\ nonce \in 0 .. drawn /\ told \in 0 .. drawn /\ since \in 0 .. drawn
        /\ judged \subseteq 1 .. drawn
    BY DEF Init
  <2> QED
    BY <2>1, <2>2, <2>3, Zenon DEF Init, TypeOK
<1> QED
  BY <1>1, LimitsAssumption DEF Init, AuthInv, GateHolds, NonceUnused, ChallengeKnown

(* What a fresh challenge, or the failure to draw one, leaves behind.      *)
LEMMA ChallengeFresh ==
    ASSUME TypeOK, Challenge, since' = since
    PROVE  /\ drawn' \in 0 .. MaxNonces /\ drawn <= drawn'
           /\ nonce' \in 0 .. drawn' /\ told' \in 0 .. drawn'
           /\ valid' \in BOOLEAN
           /\ valid' => /\ nonce' > since' /\ told' = nonce'
                        /\ nonce' > drawn
<1>1. CASE /\ drawn < MaxNonces /\ drawn' = drawn + 1 /\ nonce' = drawn'
           /\ valid' = TRUE /\ told' = drawn'
  BY <1>1, LimitsAssumption DEF TypeOK
<1>2. CASE valid' = FALSE /\ UNCHANGED <<nonce, drawn, told>>
  <2>1. ~valid' /\ valid' \in BOOLEAN
    BY <1>2, Zenon
  <2>2. drawn' \in 0 .. MaxNonces /\ drawn <= drawn' /\ nonce' \in 0 .. drawn'
        /\ told' \in 0 .. drawn'
    BY <1>2, LimitsAssumption, SMTT(30) DEF TypeOK
  <2> QED
    BY <2>1, <2>2, Zenon
<1> QED
  BY <1>1, <1>2, Zenon DEF Challenge

(* Every step of the session's thread, of its client and of the clock      *)
(* keeps AuthInv.                                                          *)
LEMMA AuthStep == AuthInv /\ [Next]_vars => AuthInv'
<1> SUFFICES ASSUME AuthInv, [Next]_vars PROVE AuthInv'
  OBVIOUS
<1> USE LimitsAssumption
<1> USE DEF AuthInv, TypeOK, GateHolds, NonceUnused, ChallengeKnown
<1>1. CASE Tick
  BY <1>1 DEF Tick, session, history
<1>2. CASE Connect
  <2>1. /\ ~valid' /\ ~unlocked' /\ ~served'
        /\ valid' \in BOOLEAN /\ unlocked' \in BOOLEAN /\ served' \in BOOLEAN
    BY <1>2, Zenon DEF Connect, ClearSlot
  <2> QED
    BY <1>2, <2>1 DEF Connect, ClearSlot
<1>3. CASE Hello
  BY <1>3, ChallengeFresh, SMTT(30) DEF Hello
<1>4. CASE RxCommand
  BY <1>4 DEF RxCommand, session
<1>5. CASE Disconnect
  <2>1. /\ ~valid' /\ ~unlocked' /\ served' = served
        /\ valid' \in BOOLEAN /\ unlocked' \in BOOLEAN
    BY <1>5, Zenon DEF Disconnect, ClearSlot, history
  <2> QED
    BY <1>5, <2>1 DEF Disconnect, ClearSlot, history
<1>6. ASSUME NEW r \in Responses, AuthenticateFails(r) PROVE AuthInv'
  <2>1. /\ drawn' \in 0 .. MaxNonces /\ drawn <= drawn'
        /\ nonce' \in 0 .. drawn' /\ told' \in 0 .. drawn' /\ valid' \in BOOLEAN
    BY <1>6, ChallengeFresh DEF AuthenticateFails, AfterFailure
  <2>2. /\ failures' \in 0 .. MaxFailures
        /\ failed' \in Seq(0 .. now')
        /\ window' \in 0 .. MaxTime /\ now' \in 0 .. MaxTime
    <3>1. failures' \in 0 .. MaxFailures
      BY <1>6 DEF AuthenticateFails, FailuresBefore, Expired
    <3>2. failed' \in Seq(0 .. now')
      BY <1>6 DEF AuthenticateFails
    <3>3. window' \in 0 .. MaxTime /\ now' \in 0 .. MaxTime
      BY <1>6 DEF AuthenticateFails
    <3> QED
      BY <3>1, <3>2, <3>3
  <2>3. judged' \subseteq 1 .. drawn'
    <3>1. valid => nonce \in 1 .. drawn
      BY SMT
    <3> QED
      BY <1>6, <2>1, <3>1 DEF AuthenticateFails
  <2>4. TypeOK'
    <3>1. /\ conn' \in {"closing", "idle"}
          /\ unlocked' = unlocked /\ served' = served /\ since' = since
      BY <1>6 DEF AuthenticateFails
    <3>2. since' \in 0 .. drawn'
      BY <2>1, <3>1
    <3>3. unlocked' \in BOOLEAN /\ served' \in BOOLEAN
      BY <3>1
    <3> QED
      BY <2>1, <2>2, <2>3, <3>1, <3>2, <3>3
  <2>5. GateHolds'
    BY <1>6 DEF AuthenticateFails
  <2>6. NonceUnused' /\ ChallengeKnown' /\ (valid' => nonce' > since')
    BY <1>6, ChallengeFresh, SMTT(30) DEF AuthenticateFails, AfterFailure
  <2>7. conn' \in {"await_hello", "idle"} => failures' < MaxFailures
    BY <1>6, <2>4 DEF AuthenticateFails, Exceeded
  <2> QED
    BY <2>4, <2>5, <2>6, <2>7
<1>7. ASSUME NEW r \in Responses, AuthenticateSucceeds(r) PROVE AuthInv'
  <2>1. /\ ~valid' /\ valid' \in BOOLEAN
        /\ unlocked' /\ unlocked' \in BOOLEAN
        /\ valid /\ r.key \in Ring /\ r.nonce = nonce
    BY <1>7, Zenon DEF AuthenticateSucceeds, Verified
  <2>2. TypeOK'
    BY <1>7, <2>1 DEF AuthenticateSucceeds, FailuresBefore, Expired
  <2>3. GateHolds'
    BY <1>7, <2>1 DEF AuthenticateSucceeds
  <2>4. conn' \in {"await_hello", "idle"} => failures' < MaxFailures
    BY <1>7 DEF AuthenticateSucceeds, FailuresBefore, Expired
  <2> QED
    BY <2>1, <2>2, <2>3, <2>4
<1>8. CASE UNCHANGED vars
  BY <1>8 DEF vars, session, history
<1> QED
  BY <1>1, <1>2, <1>3, <1>4, <1>5, <1>6, <1>7, <1>8 DEF Next

(* AuthInv holds in every reachable state.                                 *)
THEOREM Authenticated == Spec => []AuthInv
  BY InitAuth, AuthStep, PTL DEF Spec

(* No rx command is dispatched on a connection that has not answered a     *)
(* challenge of its own with a key of the ring.                            *)
THEOREM Gated == Spec => []GateHolds
<1>1. AuthInv => GateHolds
  BY DEF AuthInv
<1> QED
  BY Authenticated, <1>1, PTL

(* No nonce decides two attempts.                                          *)
THEOREM SingleUse == Spec => []NonceUnused
<1>1. AuthInv => NonceUnused
  BY DEF AuthInv
<1> QED
  BY Authenticated, <1>1, PTL

(* A client always knows the challenge it has to answer.                   *)
THEOREM Answerable == Spec => []ChallengeKnown
<1>1. AuthInv => ChallengeKnown
  BY DEF AuthInv
<1> QED
  BY Authenticated, <1>1, PTL

-----------------------------------------------------------------------------
(* The failures of a connection in a span of time                          *)

(* When a new window begins, every failure but the last MaxFailures - 1 is *)
(* further back than a window is long: the others fell in windows before   *)
(* the one that just ended.                                                *)
LEMMA WindowEnds ==
    ASSUME AuthInv, RateInv, conn = "idle", Expired
    PROVE  \A i \in 1 .. Len(failed) - (MaxFailures - 1) : now - failed[i] > Window
<1> SUFFICES ASSUME NEW i \in 1 .. Len(failed) - (MaxFailures - 1)
             PROVE  now - failed[i] > Window
  OBVIOUS
<1>1. /\ failed \in Seq(0 .. now) /\ failures \in Nat /\ failures < MaxFailures
      /\ window \in Nat /\ now \in Nat /\ Len(failed) \in Nat
  BY LimitsAssumption DEF AuthInv, TypeOK
<1>2. i \in 1 .. Earlier /\ i \in 1 .. Len(failed)
  BY <1>1, LimitsAssumption DEF Earlier
<1>3. failed[i] <= window /\ failed[i] \in Nat
  BY <1>1, <1>2 DEF RateInv
<1> QED
  BY <1>1, <1>3, LimitsAssumption DEF Expired

(* A failed attempt keeps the rate.                                        *)
LEMMA FailureKeepsRate ==
    ASSUME AuthInv, RateInv, NEW r \in Responses, AuthenticateFails(r)
    PROVE  RateInv'
<1> DEFINE n == Len(failed)
<1>1. /\ failed \in Seq(0 .. now) /\ failures \in Nat /\ failures < MaxFailures
      /\ window \in Nat /\ now \in Nat /\ n \in Nat /\ conn = "idle"
      /\ MaxFailures \in Nat \ {0} /\ Window \in Nat
  BY LimitsAssumption DEF AuthInv, TypeOK, AuthenticateFails
<1>2. /\ failed' = Append(failed, now) /\ Len(failed') = n + 1
      /\ \A i \in 1 .. n : failed'[i] = failed[i] /\ failed[i] \in 0 .. now
      /\ failed'[n + 1] = now /\ now' = now
  BY <1>1 DEF AuthenticateFails
<1>3. PICK e \in Nat :
          /\ Len(failed') - failures' = e /\ e <= n /\ n - e <= MaxFailures - 1
          /\ window' \in Nat /\ window' <= now
          /\ \A i \in 1 .. e : failed[i] <= window'
          /\ \A i \in 1 .. e - (MaxFailures - 1) : window' - failed[i] > Window
  <2>1. CASE Expired
    <3>1. failures' = 1 /\ window' = now
      BY <2>1 DEF AuthenticateFails, FailuresBefore
    <3>2. Len(failed') - failures' = n
      BY <1>1, <1>2, <3>1
    <3>3. \A i \in 1 .. n - (MaxFailures - 1) : window' - failed[i] > Window
      BY <1>1, <2>1, <3>1, WindowEnds
    <3>4. \A i \in 1 .. n : failed[i] <= window'
      BY <1>1, <1>2, <3>1
    <3>5. n <= n /\ n - n <= MaxFailures - 1 /\ window' \in Nat /\ window' <= now
      BY <1>1, <3>1
    <3> QED
      BY <1>1, <3>2, <3>3, <3>4, <3>5
  <2>2. CASE ~Expired
    <3>1. failures' = failures + 1 /\ window' = window
      BY <2>2 DEF AuthenticateFails, FailuresBefore
    <3>2. Len(failed') - failures' = n - failures
      BY <1>1, <1>2, <3>1
    <3>3. /\ n - failures >= 0
          /\ window <= now
          /\ \A i \in 1 .. n - failures : failed[i] <= window
          /\ \A i \in 1 .. n - failures - (MaxFailures - 1) : window - failed[i] > Window
      BY <1>1 DEF RateInv, Earlier
    <3>4. n - failures \in Nat /\ n - failures <= n /\ n - (n - failures) <= MaxFailures - 1
      BY <1>1, <3>3
    <3> QED
      BY <1>1, <3>1, <3>2, <3>3, <3>4, Zenon
  <2> QED
    BY <2>1, <2>2
<1>4. FailureRate'
  <2> SUFFICES ASSUME NEW i \in 1 .. n + 1, NEW j \in 1 .. n + 1,
                      j - i >= 2 * MaxFailures - 1
               PROVE  failed'[j] - failed'[i] > Window
    <3>1. DOMAIN failed' = 1 .. n + 1
      BY <1>1, <1>2
    <3> QED
      BY <3>1 DEF FailureRate
  <2>1. i \in 1 .. n
    BY <1>1
  <2>2. CASE j \in 1 .. n
    <3>1. failed[j] - failed[i] > Window
      <4>1. DOMAIN failed = 1 .. n
        BY <1>1
      <4> QED
        BY <2>1, <2>2, <4>1 DEF RateInv, FailureRate
    <3> QED
      BY <1>2, <2>1, <2>2, <3>1
  <2>3. CASE j = n + 1
    <3>1. i \in 1 .. e - (MaxFailures - 1)
      BY <1>1, <1>3, <2>3
    <3>2. window' - failed[i] > Window /\ failed[i] \in Nat
      BY <1>2, <1>3, <2>1, <3>1
    <3>3. failed'[j] = now /\ failed'[i] = failed[i]
      BY <1>2, <2>1, <2>3
    <3>4. now \in Nat /\ window' \in Nat /\ window' <= now /\ Window \in Nat
      BY <1>1, <1>3
    <3>5. now - failed[i] > Window
      BY <3>2, <3>4
    <3> QED
      BY <3>3, <3>5
  <2> QED
    BY <1>1, <2>2, <2>3
<1>5. \A i \in 1 .. e : failed'[i] = failed[i]
  BY <1>1, <1>2, <1>3
<1>6. 1 .. e - (MaxFailures - 1) \subseteq 1 .. e
  BY <1>1
<1>7. /\ \A i \in 1 .. e : failed'[i] <= window'
      /\ \A i \in 1 .. e - (MaxFailures - 1) : window' - failed'[i] > Window
  BY <1>3, <1>5, <1>6
<1> QED
  <2>1. Earlier' = e
    BY <1>3 DEF Earlier
  <2>2. Earlier' >= 0 /\ window' <= now'
    BY <1>2, <1>3, <2>1
  <2> QED
    BY <1>4, <1>7, <2>1, <2>2, Zenon DEF RateInv

(* Every step keeps the rate.                                              *)
LEMMA RateStep == AuthInv /\ RateInv /\ [Next]_vars => RateInv'
<1> SUFFICES ASSUME AuthInv, RateInv, [Next]_vars PROVE RateInv'
  OBVIOUS
<1> USE LimitsAssumption
<1>1. CASE Tick
  <2>1. UNCHANGED <<conn, failed, failures, window>> /\ now' = now + 1
    BY <1>1 DEF Tick, session, history
  <2> QED
    BY <2>1 DEF RateInv, FailureRate, Earlier, AuthInv, TypeOK
<1>2. CASE Connect
  BY <1>2 DEF Connect, ClearSlot, RateInv, FailureRate, Earlier, AuthInv, TypeOK
<1>3. CASE Disconnect
  BY <1>3 DEF Disconnect, history, RateInv, FailureRate
<1>4. ASSUME NEW r \in Responses, AuthenticateFails(r) PROVE RateInv'
  BY <1>4, FailureKeepsRate
<1>5. ASSUME NEW r \in Responses, AuthenticateSucceeds(r) PROVE RateInv'
  <2>1. UNCHANGED <<conn, failed, now>> /\ conn = "idle"
    BY <1>5 DEF AuthenticateSucceeds
  <2>2. CASE Expired
    <3>1. failures' = 0 /\ window' = now /\ Earlier' = Len(failed)
      BY <1>5, <2>1, <2>2 DEF AuthenticateSucceeds, FailuresBefore, Earlier, AuthInv, TypeOK
    <3>2. \A i \in 1 .. Len(failed) : failed[i] <= now
      BY DEF AuthInv, TypeOK
    <3> QED
      BY <2>1, <2>2, <3>1, <3>2, WindowEnds DEF RateInv, FailureRate, AuthInv, TypeOK
  <2>3. CASE ~Expired
    BY <1>5, <2>1, <2>3 DEF AuthenticateSucceeds, FailuresBefore, RateInv, FailureRate,
       Earlier
  <2> QED
    BY <2>2, <2>3
<1>6. CASE Hello \/ RxCommand \/ UNCHANGED vars
  <2>1. UNCHANGED <<failed, failures, window, now>> /\ (conn = "closed" <=> conn' = "closed")
    BY <1>6 DEF Hello, RxCommand, vars, session, history
  <2> QED
    BY <2>1 DEF RateInv, FailureRate, Earlier
<1> QED
  BY <1>1, <1>2, <1>3, <1>4, <1>5, <1>6 DEF Next

(* However attempts and successes are spread over the windows of a         *)
(* connection, at most 2 * MaxFailures - 1 attempts fail in a span as long *)
(* as a window: the limit of cmd_authenticate bounds the rate.             *)
THEOREM RateBounded == Spec => []FailureRate
<1>1. Init => RateInv
  BY DEF Init, RateInv, FailureRate
<1>2. RateInv => FailureRate
  BY DEF RateInv
<1> QED
  BY Authenticated, RateStep, <1>1, <1>2, PTL DEF Spec

=============================================================================
