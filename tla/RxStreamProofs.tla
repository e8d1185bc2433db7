--------------------------- MODULE RxStreamProofs ---------------------------
(***************************************************************************)
(* Proofs about RxStream for every number of sessions, VITA slots and      *)
(* stream ids.  SafetyInv is inductive whatever clients send; AccountInv   *)
(* needs clients that send hello once per connection (~RepeatHello).       *)
(***************************************************************************)
EXTENDS RxStream, TLAPS, FiniteSetTheorems

USE DEF NoOwner, NoToken, NoStream

-----------------------------------------------------------------------------
(* Types, what a session thread relies on at each label, and the owner.    *)

(* The initial state of the daemon satisfies the inductive invariant.      *)
LEMMA InitSafety == Init => SafetyInv
<1> SUFFICES ASSUME Init PROVE SafetyInv
  OBVIOUS
<1>1. TypeOK
  BY Zenon DEF Init, TypeOK, Labels, Tasks, SessionStates, ThreadStates
<1>2. \A s \in Sessions : LabelInv(s)
  BY DEF Init, LabelInv, stream_open
<1>3. OnlyOwnerStreams
  BY DEF Init, OnlyOwnerStreams, HoldsStream, HoldingLabels, stream_open
<1>4. BridgeInv
  BY DEF Init, BridgeInv, Counted
<1>5. AdcLevelFresh /\ \A s \in Sessions : HeardInv(s)
  BY DEF Init, AdcLevelFresh, HeardInv
<1> QED
  BY <1>1, <1>2, <1>3, <1>4, <1>5 DEF SafetyInv

(* Every step keeps the types of the variables.                            *)
LEMMA TypeStep == TypeOK /\ [Next]_vars => TypeOK'
<1> SUFFICES ASSUME TypeOK, [Next]_vars PROVE TypeOK'
  OBVIOUS
<1> USE DEF TypeOK, Labels, Tasks, SessionStates, ThreadStates, Goto, Begin, Return,
            threads, sessions, bridge
<1>1. ASSUME NEW s \in Sessions, Request(s) PROVE TypeOK'
  <2>1. CASE Accept(s)
    BY <2>1 DEF Accept
  <2>2. CASE Hello(s)
    BY <2>2 DEF Hello
  <2>3. CASE OpenStream(s)
    BY <2>3 DEF OpenStream
  <2>4. CASE StartRx(s)
    BY <2>4 DEF StartRx
  <2>5. CASE StopRx(s)
    BY <2>5 DEF StopRx, DropVitaSession
  <2>6. CASE CloseStream(s)
    BY <2>6 DEF CloseStream, DropVitaSession, AfterDrop
  <2>7. CASE Disconnect(s)
    BY <2>7, SMTT(30) DEF Disconnect, DropVitaSession, AfterDrop
  <2> QED
    BY <1>1, <2>1, <2>2, <2>3, <2>4, <2>5, <2>6, <2>7 DEF Request
<1>2. ASSUME NEW s \in Sessions, Continue(s) PROVE TypeOK'
  <2>1. CASE OpenRejected(s)
    BY <2>1 DEF OpenRejected
  <2>2. CASE OpenAccepted(s)
    BY <2>2 DEF OpenAccepted
  <2>3. CASE AnnounceOwned(s)
    BY <2>3 DEF AnnounceOwned, Broadcast
  <2>4. CASE BridgeStart(s)
    <3>1. /\ pc' \in [Sessions -> Labels]
          /\ stream_count' \in Nat
          /\ async' \in ThreadStates
          /\ UNCHANGED <<task, sessions, heard, owner, counter, vita, dev_async>>
      BY <2>4 DEF BridgeStart
    <3>2. running' \in BOOLEAN /\ adc_valid' \in BOOLEAN
      BY <2>4, Zenon DEF BridgeStart
    <3> QED
      BY <3>1, <3>2
  <2>5. CASE StartFailed(s)
    BY <2>5 DEF StartFailed, DropVitaSession
  <2>6. CASE Started(s)
    BY <2>6 DEF Started
  <2>7. CASE BridgeStop(s)
    <3>1. /\ pc' \in [Sessions -> Labels]
          /\ stream_count' \in Nat
          /\ UNCHANGED <<task, sessions, heard, owner, counter, vita, async, adc_valid>>
      BY <2>7 DEF BridgeStop, AfterCancel
    <3>2. running' \in BOOLEAN /\ dev_async' \in BOOLEAN
      BY <2>7, Zenon DEF BridgeStop, CancelAsync
    <3> QED
      BY <3>1, <3>2
  <2>8. CASE Join(s)
    BY <2>8 DEF Join
  <2>9. CASE Stopped(s)
    BY <2>9, Zenon DEF Stopped, ResetAdcLevel
  <2>10. CASE Release(s)
    BY <2>10 DEF Release, ClearStream, AfterRelease
  <2>11. CASE AnnounceFree(s)
    BY <2>11 DEF AnnounceFree, AfterRelease, Broadcast
  <2>12. CASE FreeSlot(s)
    BY <2>12 DEF FreeSlot
  <2> QED
    BY <1>2, <2>1, <2>2, <2>3, <2>4, <2>5, <2>6, <2>7, <2>8, <2>9, <2>10, <2>11,
       <2>12 DEF Continue
<1>3. CASE AsyncThread
  BY <1>3, Zenon DEF AsyncThread, EnterRead, CallbackBegin, CallbackEnd, ExitRead, ReadFails
<1>4. CASE UNCHANGED vars
  BY <1>4 DEF vars
<1> QED
  BY <1>1, <1>2, <1>3, <1>4 DEF Next

(* Type correctness, for every value of the constants.                     *)
THEOREM TypeCorrect == Spec => []TypeOK
<1>1. Init => TypeOK
  BY InitSafety DEF SafetyInv
<1>2. TypeOK /\ [Next]_vars => TypeOK'
  BY TypeStep
<1> QED
  BY <1>1, <1>2, PTL DEF Spec

(* Every step keeps a session thread's label, task and stream together.    *)
LEMMA LabelStep == SafetyInv /\ [Next]_vars => \A s \in Sessions : LabelInv(s)'
<1> SUFFICES ASSUME pc \in [Sessions -> Labels],
                    task \in [Sessions -> Tasks],
                    state \in [Sessions -> SessionStates],
                    stream_id \in [Sessions -> Nat],
                    vita_token \in [Sessions -> Tokens \cup {NoToken}],
                    counter \in Nat,
                    [Next]_vars, NEW u \in Sessions, LabelInv(u)
             PROVE  LabelInv(u)'
  BY DEF SafetyInv, TypeOK
<1> USE DEF Goto, Begin, Return, threads, sessions, bridge
<1>1. ASSUME NEW s \in Sessions, Request(s) PROVE LabelInv(u)'
  <2>1. CASE Accept(s)
    BY <2>1 DEF Accept, LabelInv, stream_open
  <2>2. CASE Hello(s)
    BY <2>2 DEF Hello, Receives, LabelInv, stream_open
  <2>3. CASE OpenStream(s)
    BY <2>3 DEF OpenStream, Dispatches, Receives, ClaimAllowed, LabelInv, stream_open
  <2>4. CASE StartRx(s)
    BY <2>4 DEF StartRx, Dispatches, Receives, LabelInv, stream_open
  <2>5. CASE StopRx(s)
    BY <2>5 DEF StopRx, Dispatches, Receives, DropVitaSession, LabelInv, stream_open
  <2>6. CASE CloseStream(s)
    BY <2>6 DEF CloseStream, Dispatches, Receives, AfterDrop, DropVitaSession, LabelInv,
       stream_open
  <2>7. CASE Disconnect(s)
    BY <2>7 DEF Disconnect, Receives, AfterDrop, DropVitaSession, LabelInv, stream_open
  <2> QED
    BY <1>1, <2>1, <2>2, <2>3, <2>4, <2>5, <2>6, <2>7 DEF Request
<1>2. ASSUME NEW s \in Sessions, Continue(s) PROVE LabelInv(u)'
  <2>1. CASE OpenRejected(s)
    BY <2>1 DEF OpenRejected, LabelInv, stream_open
  <2>2. CASE OpenAccepted(s)
    BY <2>2 DEF OpenAccepted, LabelInv, stream_open
  <2>3. CASE AnnounceOwned(s)
    BY <2>3 DEF AnnounceOwned, LabelInv, stream_open
  <2>4. CASE BridgeStart(s)
    BY <2>4 DEF BridgeStart, FirstStream, LabelInv, stream_open
  <2>5. CASE StartFailed(s)
    BY <2>5 DEF StartFailed, DropVitaSession, LabelInv, stream_open
  <2>6. CASE Started(s)
    BY <2>6 DEF Started, LabelInv, stream_open
  <2>7. CASE BridgeStop(s)
    BY <2>7 DEF BridgeStop, AfterCancel, LabelInv, stream_open
  <2>8. CASE Join(s)
    BY <2>8 DEF Join, LabelInv, stream_open
  <2>9. CASE Stopped(s)
    BY <2>9 DEF Stopped, LabelInv, stream_open
  <2>10. CASE Release(s)
    BY <2>10 DEF Release, ClearStream, AfterRelease, Announces, LabelInv, stream_open
  <2>11. CASE AnnounceFree(s)
    BY <2>11 DEF AnnounceFree, AfterRelease, LabelInv, stream_open
  <2>12. CASE FreeSlot(s)
    BY <2>12 DEF FreeSlot, LabelInv, stream_open
  <2> QED
    BY <1>2, <2>1, <2>2, <2>3, <2>4, <2>5, <2>6, <2>7, <2>8, <2>9, <2>10, <2>11, <2>12
       DEF Continue
<1>3. CASE AsyncThread
  BY <1>3 DEF AsyncThread, EnterRead, CallbackBegin, CallbackEnd, ExitRead, ReadFails,
     LabelInv, stream_open
<1>4. CASE UNCHANGED vars
  BY <1>4 DEF vars, LabelInv, stream_open
<1> QED
  BY <1>1, <1>2, <1>3, <1>4 DEF Next

(* Every step keeps the channel with the session that uses it.             *)
LEMMA OwnerStep == SafetyInv /\ [Next]_vars => OnlyOwnerStreams'
<1> SUFFICES ASSUME pc \in [Sessions -> Labels],
                    stream_id \in [Sessions -> Nat],
                    vita_token \in [Sessions -> Tokens \cup {NoToken}],
                    \A t \in Sessions : LabelInv(t),
                    \A t \in Sessions : HoldsStream(t) => owner = t,
                    [Next]_vars, NEW u \in Sessions
             PROVE  (HoldsStream(u) => owner = u)'
  BY DEF SafetyInv, TypeOK, OnlyOwnerStreams
<1> USE DEF Goto, Begin, Return, threads, sessions, bridge
<1>1. ASSUME NEW s \in Sessions, Request(s) PROVE (HoldsStream(u) => owner = u)'
  <2>1. CASE Accept(s)
    BY <2>1 DEF Accept, HoldsStream, HoldingLabels, stream_open, LabelInv
  <2>2. CASE Hello(s)
    BY <2>2 DEF Hello, Receives, HoldsStream, HoldingLabels, stream_open, LabelInv
  <2>3. CASE OpenStream(s)
    BY <2>3, BoundsAssumption DEF OpenStream, Dispatches, Receives, ClaimAllowed,
       Sessions, HoldsStream, HoldingLabels, stream_open, LabelInv
  <2>4. CASE StartRx(s)
    BY <2>4 DEF StartRx, Dispatches, Receives, HoldsStream, HoldingLabels, stream_open,
       LabelInv
  <2>5. CASE StopRx(s)
    BY <2>5 DEF StopRx, Dispatches, Receives, DropVitaSession, HoldsStream,
       HoldingLabels, stream_open, LabelInv
  <2>6. CASE CloseStream(s)
    BY <2>6 DEF CloseStream, Dispatches, Receives, AfterDrop, DropVitaSession,
       HoldsStream, HoldingLabels, stream_open, LabelInv
  <2>7. CASE Disconnect(s)
    BY <2>7 DEF Disconnect, Receives, AfterDrop, DropVitaSession, HoldsStream,
       HoldingLabels, stream_open, LabelInv
  <2> QED
    BY <1>1, <2>1, <2>2, <2>3, <2>4, <2>5, <2>6, <2>7 DEF Request
<1>2. ASSUME NEW s \in Sessions, Continue(s) PROVE (HoldsStream(u) => owner = u)'
  <2>1. CASE OpenRejected(s)
    BY <2>1 DEF OpenRejected, HoldsStream, HoldingLabels, stream_open, LabelInv
  <2>2. CASE OpenAccepted(s)
    BY <2>2 DEF OpenAccepted, HoldsStream, HoldingLabels, stream_open, LabelInv
  <2>3. CASE AnnounceOwned(s)
    BY <2>3 DEF AnnounceOwned, HoldsStream, HoldingLabels, stream_open, LabelInv
  <2>4. CASE BridgeStart(s)
    BY <2>4 DEF BridgeStart, FirstStream, HoldsStream, HoldingLabels, stream_open,
       LabelInv
  <2>5. CASE StartFailed(s)
    BY <2>5 DEF StartFailed, DropVitaSession, HoldsStream, HoldingLabels, stream_open,
       LabelInv
  <2>6. CASE Started(s)
    BY <2>6 DEF Started, HoldsStream, HoldingLabels, stream_open, LabelInv
  <2>7. CASE BridgeStop(s)
    BY <2>7 DEF BridgeStop, AfterCancel, HoldsStream, HoldingLabels, stream_open,
       LabelInv
  <2>8. CASE Join(s)
    BY <2>8 DEF Join, HoldsStream, HoldingLabels, stream_open, LabelInv
  <2>9. CASE Stopped(s)
    BY <2>9 DEF Stopped, HoldsStream, HoldingLabels, stream_open, LabelInv
  <2>10. CASE Release(s)
    BY <2>10 DEF Release, ClearStream, AfterRelease, Announces, HoldsStream,
       HoldingLabels, stream_open, LabelInv
  <2>11. CASE AnnounceFree(s)
    BY <2>11 DEF AnnounceFree, AfterRelease, HoldsStream, HoldingLabels, stream_open,
       LabelInv
  <2>12. CASE FreeSlot(s)
    BY <2>12 DEF FreeSlot, HoldsStream, HoldingLabels, stream_open, LabelInv
  <2> QED
    BY <1>2, <2>1, <2>2, <2>3, <2>4, <2>5, <2>6, <2>7, <2>8, <2>9, <2>10, <2>11, <2>12
       DEF Continue
<1>3. CASE AsyncThread
  BY <1>3, SMTT(30) DEF AsyncThread, EnterRead, CallbackBegin, CallbackEnd, ExitRead, ReadFails,
     HoldsStream, HoldingLabels, stream_open, LabelInv
<1>4. CASE UNCHANGED vars
  BY <1>4 DEF vars, HoldsStream, HoldingLabels, stream_open, LabelInv
<1> QED
  BY <1>1, <1>2, <1>3, <1>4 DEF Next

(* Only the owner of the channel is counted, so at most one session is.    *)
LEMMA CountedOwns ==
    ASSUME SafetyInv, NEW s \in Sessions, Counted(s)
    PROVE  owner = s
  BY DEF SafetyInv, LabelInv, OnlyOwnerStreams, HoldsStream, HoldingLabels, Counted,
         stream_open

-----------------------------------------------------------------------------
(* SafetyInv is inductive whatever clients send, and what follows from it. *)

(* Every step keeps the count, s_running and the async thread in step.     *)
LEMMA BridgeStep == SafetyInv /\ [Next]_vars => BridgeInv'
<1> SUFFICES ASSUME pc \in [Sessions -> Labels],
                    state \in [Sessions -> SessionStates],
                    stream_count \in Nat,
                    \A t \in Sessions : LabelInv(t),
                    \A t \in Sessions :
                        Counted(t) \/ pc[t] \in {"added", "stop", "joining"} => owner = t,
                    BridgeInv, [Next]_vars
             PROVE  BridgeInv'
  BY CountedOwns DEF SafetyInv, TypeOK, OnlyOwnerStreams, HoldsStream, HoldingLabels
<1> USE DEF Goto, Begin, Return, threads, sessions, bridge
<1>1. ASSUME NEW s \in Sessions, Request(s) PROVE BridgeInv'
  <2>1. CASE Accept(s)
    BY <2>1 DEF Accept, BridgeInv, Counted, LabelInv, stream_open
  <2>2. CASE Hello(s)
    BY <2>2 DEF Hello, Receives, BridgeInv, Counted, LabelInv, stream_open
  <2>3. CASE OpenStream(s)
    BY <2>3, SMTT(30) DEF OpenStream, Dispatches, Receives, ClaimAllowed, BridgeInv, Counted,
       LabelInv, stream_open
  <2>4. CASE StartRx(s)
    BY <2>4 DEF StartRx, Dispatches, Receives, BridgeInv, Counted, LabelInv, stream_open
  <2>5. CASE StopRx(s)
    BY <2>5 DEF StopRx, Dispatches, Receives, BridgeInv, Counted, LabelInv, stream_open
  <2>6. CASE CloseStream(s)
    BY <2>6 DEF CloseStream, Dispatches, Receives, AfterDrop, BridgeInv, Counted,
       LabelInv, stream_open
  <2>7. CASE Disconnect(s)
    BY <2>7 DEF Disconnect, Receives, AfterDrop, BridgeInv, Counted, LabelInv,
       stream_open
  <2> QED
    BY <1>1, <2>1, <2>2, <2>3, <2>4, <2>5, <2>6, <2>7 DEF Request
<1>2. ASSUME NEW s \in Sessions, Continue(s) PROVE BridgeInv'
  <2>1. CASE OpenRejected(s)
    BY <2>1 DEF OpenRejected, BridgeInv, Counted, LabelInv, stream_open
  <2>2. CASE OpenAccepted(s)
    BY <2>2 DEF OpenAccepted, BridgeInv, Counted, LabelInv, stream_open
  <2>3. CASE AnnounceOwned(s)
    BY <2>3 DEF AnnounceOwned, BridgeInv, Counted, LabelInv, stream_open
  <2>4. CASE BridgeStart(s)
    BY <2>4 DEF BridgeStart, FirstStream, BridgeInv, Counted, LabelInv, stream_open
  <2>5. CASE StartFailed(s)
    BY <2>5 DEF StartFailed, BridgeInv, Counted, LabelInv, stream_open
  <2>6. CASE Started(s)
    BY <2>6 DEF Started, BridgeInv, Counted, LabelInv, stream_open
  <2>7. CASE BridgeStop(s)
    BY <2>7, SMTT(30) DEF BridgeStop, AfterCancel, BridgeInv, Counted, LabelInv, stream_open
  <2>8. CASE Join(s)
    BY <2>8 DEF Join, BridgeInv, Counted, LabelInv, stream_open
  <2>9. CASE Stopped(s)
    BY <2>9 DEF Stopped, BridgeInv, Counted, LabelInv, stream_open
  <2>10. CASE Release(s)
    BY <2>10 DEF Release, ClearStream, AfterRelease, Announces, BridgeInv, Counted,
       LabelInv, stream_open
  <2>11. CASE AnnounceFree(s)
    BY <2>11 DEF AnnounceFree, AfterRelease, BridgeInv, Counted, LabelInv, stream_open
  <2>12. CASE FreeSlot(s)
    BY <2>12 DEF FreeSlot, BridgeInv, Counted, LabelInv, stream_open
  <2> QED
    BY <1>2, <2>1, <2>2, <2>3, <2>4, <2>5, <2>6, <2>7, <2>8, <2>9, <2>10, <2>11, <2>12
       DEF Continue
<1>3. CASE AsyncThread
  BY <1>3, SMTT(30) DEF AsyncThread, EnterRead, CallbackBegin, CallbackEnd, ExitRead, ReadFails,
     BridgeInv, Counted, LabelInv, stream_open
<1>4. CASE UNCHANGED vars
  BY <1>4 DEF vars, BridgeInv, Counted, LabelInv, stream_open
<1> QED
  BY <1>1, <1>2, <1>3, <1>4 DEF Next

(* Every step keeps the ADC level tied to a running or stopping stream.    *)
LEMMA AdcStep == SafetyInv /\ [Next]_vars => AdcLevelFresh'
<1> SUFFICES ASSUME pc \in [Sessions -> Labels],
                    stream_count \in Nat,
                    BridgeInv, AdcLevelFresh, [Next]_vars
             PROVE  AdcLevelFresh'
  BY DEF SafetyInv, TypeOK
<1> USE DEF Goto, Begin, Return, threads, sessions, bridge
<1>1. ASSUME NEW s \in Sessions, Request(s) PROVE AdcLevelFresh'
  <2>1. CASE Accept(s)
    BY <2>1 DEF Accept, AdcLevelFresh
  <2>2. CASE Hello(s)
    BY <2>2 DEF Hello, Receives, AdcLevelFresh
  <2>3. CASE OpenStream(s)
    BY <2>3 DEF OpenStream, Dispatches, Receives, ClaimAllowed, AdcLevelFresh
  <2>4. CASE StartRx(s)
    BY <2>4 DEF StartRx, Dispatches, Receives, AdcLevelFresh
  <2>5. CASE StopRx(s)
    BY <2>5 DEF StopRx, Dispatches, Receives, AdcLevelFresh
  <2>6. CASE CloseStream(s)
    BY <2>6 DEF CloseStream, Dispatches, Receives, AfterDrop, AdcLevelFresh
  <2>7. CASE Disconnect(s)
    BY <2>7 DEF Disconnect, Receives, AfterDrop, AdcLevelFresh
  <2> QED
    BY <1>1, <2>1, <2>2, <2>3, <2>4, <2>5, <2>6, <2>7 DEF Request
<1>2. ASSUME NEW s \in Sessions, Continue(s) PROVE AdcLevelFresh'
  <2>1. CASE OpenRejected(s)
    BY <2>1 DEF OpenRejected, AdcLevelFresh
  <2>2. CASE OpenAccepted(s)
    BY <2>2 DEF OpenAccepted, AdcLevelFresh
  <2>3. CASE AnnounceOwned(s)
    BY <2>3 DEF AnnounceOwned, AdcLevelFresh
  <2>4. CASE BridgeStart(s)
    BY <2>4, Zenon DEF BridgeStart, FirstStream, AdcLevelFresh
  <2>5. CASE StartFailed(s)
    BY <2>5 DEF StartFailed, AdcLevelFresh
  <2>6. CASE Started(s)
    BY <2>6 DEF Started, AdcLevelFresh
  <2>7. CASE BridgeStop(s)
    BY <2>7 DEF BridgeStop, AfterCancel, AdcLevelFresh
  <2>8. CASE Join(s)
    BY <2>8 DEF Join, AdcLevelFresh
  <2>9. CASE Stopped(s)
    BY <2>9 DEF Stopped, ResetAdcLevel, AdcLevelFresh
  <2>10. CASE Release(s)
    BY <2>10 DEF Release, ClearStream, AfterRelease, Announces, AdcLevelFresh
  <2>11. CASE AnnounceFree(s)
    BY <2>11 DEF AnnounceFree, AfterRelease, AdcLevelFresh
  <2>12. CASE FreeSlot(s)
    BY <2>12 DEF FreeSlot, AdcLevelFresh
  <2> QED
    BY <1>2, <2>1, <2>2, <2>3, <2>4, <2>5, <2>6, <2>7, <2>8, <2>9, <2>10, <2>11, <2>12
       DEF Continue
<1>3. CASE AsyncThread
  <2>1. CASE CallbackEnd
    <3>1. running \/ \E s \in Sessions : pc[s] = "joining"
      BY <2>1 DEF CallbackEnd, BridgeInv
    <3> QED
      BY <2>1, <3>1 DEF CallbackEnd, AdcLevelFresh
  <2>2. CASE EnterRead \/ CallbackBegin \/ ExitRead \/ ReadFails
    BY <2>2, Zenon DEF EnterRead, CallbackBegin, ExitRead, ReadFails, AdcLevelFresh
  <2> QED
    BY <1>3, <2>1, <2>2 DEF AsyncThread
<1>4. CASE UNCHANGED vars
  BY <1>4 DEF vars, AdcLevelFresh
<1> QED
  BY <1>1, <1>2, <1>3, <1>4 DEF Next

(* Every step keeps an announcement due to each client that waits.         *)
LEMMA HeardStep == SafetyInv /\ [Next]_vars => \A s \in Sessions : HeardInv(s)'
<1> SUFFICES ASSUME pc \in [Sessions -> Labels],
                    state \in [Sessions -> SessionStates],
                    heard \in [Sessions -> {"nothing", "free", "owned_by_other"}],
                    \A t \in Sessions : pc[t] = "announce_owned" => owner = t,
                    \A t \in Sessions : pc[t] = "free" => state[t] = "AWAIT_HELLO",
                    [Next]_vars, NEW u \in Sessions, HeardInv(u)
             PROVE  HeardInv(u)'
  BY DEF SafetyInv, TypeOK, LabelInv, OnlyOwnerStreams, HoldsStream, HoldingLabels
<1> USE DEF Goto, Begin, Return, threads, sessions, bridge
<1>1. ASSUME NEW s \in Sessions, Request(s) PROVE HeardInv(u)'
  <2>1. CASE Accept(s)
    BY <2>1 DEF Accept, HeardInv
  <2>2. CASE Hello(s)
    BY <2>2 DEF Hello, Receives, HeardInv
  <2>3. CASE OpenStream(s)
    BY <2>3, BoundsAssumption DEF OpenStream, Dispatches, Receives, ClaimAllowed,
       Sessions, HeardInv
  <2>4. CASE StartRx(s)
    BY <2>4 DEF StartRx, Dispatches, Receives, HeardInv
  <2>5. CASE StopRx(s)
    BY <2>5 DEF StopRx, Dispatches, Receives, HeardInv
  <2>6. CASE CloseStream(s)
    BY <2>6 DEF CloseStream, Dispatches, Receives, AfterDrop, HeardInv
  <2>7. CASE Disconnect(s)
    BY <2>7 DEF Disconnect, Receives, AfterDrop, HeardInv
  <2> QED
    BY <1>1, <2>1, <2>2, <2>3, <2>4, <2>5, <2>6, <2>7 DEF Request
<1>2. ASSUME NEW s \in Sessions, Continue(s) PROVE HeardInv(u)'
  <2>1. CASE OpenRejected(s)
    BY <2>1 DEF OpenRejected, HeardInv
  <2>2. CASE OpenAccepted(s)
    BY <2>2 DEF OpenAccepted, HeardInv
  <2>3. CASE AnnounceOwned(s)
    BY <2>3 DEF AnnounceOwned, Broadcast, HeardInv
  <2>4. CASE BridgeStart(s)
    BY <2>4 DEF BridgeStart, FirstStream, HeardInv
  <2>5. CASE StartFailed(s)
    BY <2>5 DEF StartFailed, HeardInv
  <2>6. CASE Started(s)
    BY <2>6 DEF Started, HeardInv
  <2>7. CASE BridgeStop(s)
    BY <2>7 DEF BridgeStop, AfterCancel, HeardInv
  <2>8. CASE Join(s)
    BY <2>8 DEF Join, HeardInv
  <2>9. CASE Stopped(s)
    BY <2>9 DEF Stopped, HeardInv
  <2>10. CASE Release(s)
    BY <2>10 DEF Release, ClearStream, AfterRelease, Announces, HeardInv
  <2>11. CASE AnnounceFree(s)
    BY <2>11 DEF AnnounceFree, AfterRelease, Broadcast, HeardInv
  <2>12. CASE FreeSlot(s)
    BY <2>12 DEF FreeSlot, HeardInv
  <2> QED
    BY <1>2, <2>1, <2>2, <2>3, <2>4, <2>5, <2>6, <2>7, <2>8, <2>9, <2>10, <2>11, <2>12
       DEF Continue
<1>3. CASE AsyncThread
  BY <1>3 DEF AsyncThread, EnterRead, CallbackBegin, CallbackEnd, ExitRead, ReadFails,
     HeardInv
<1>4. CASE UNCHANGED vars
  BY <1>4 DEF vars, HeardInv
<1> QED
  BY <1>1, <1>2, <1>3, <1>4 DEF Next

(* SafetyInv holds in every reachable state, whatever clients send and      *)
(* however many sessions the table has room for.                           *)
THEOREM Safe == Spec => []SafetyInv
<1>1. SafetyInv /\ [Next]_vars => SafetyInv'
  BY TypeStep, LabelStep, OwnerStep, BridgeStep, AdcStep, HeardStep DEF SafetyInv
<1> QED
  BY InitSafety, <1>1, PTL DEF Spec

(* The session with an open stream, a VITA slot, or a start or stop of the *)
(* bridge under way is the one that s_rx_owner names.                      *)
THEOREM Exclusive == Spec => []OnlyOwnerStreams
<1>1. SafetyInv => OnlyOwnerStreams
  BY DEF SafetyInv
<1> QED
  BY Safe, <1>1, PTL

(* get_status never reports the ADC level of a stream that has ended.      *)
THEOREM LevelFresh == Spec => []AdcLevelFresh
<1>1. SafetyInv => AdcLevelFresh
  BY DEF SafetyInv
<1> QED
  BY Safe, <1>1, PTL

(* Whoever was told owned_by_other is told when the channel becomes free.  *)
THEOREM Announced == Spec => []FreeIsAnnounced
<1>1. SafetyInv => FreeIsAnnounced
  <2> SUFFICES ASSUME SafetyInv, owner = NoOwner,
                      \A s \in Sessions : pc[s] # "announce_free",
                      NEW s \in Sessions, heard[s] = "owned_by_other"
               PROVE  FALSE
    BY DEF FreeIsAnnounced
  <2>1. PICK t \in Sessions \ {s} : owner = t \/ pc[t] = "announce_free"
    BY DEF SafetyInv, HeardInv
  <2> QED
    BY <2>1, BoundsAssumption, SMTT(30) DEF Sessions
<1> QED
  BY Safe, <1>1, PTL

(* While a session is about to start the bridge no other one is joining,   *)
(* so a count of zero means that the last thread has been joined.          *)
LEMMA NoJoinerAtStart ==
    ASSUME SafetyInv, NEW s \in Sessions, pc[s] = "added", stream_count = 0
    PROVE  async = "none"
<1>1. owner = s
  BY DEF SafetyInv, OnlyOwnerStreams, HoldsStream, HoldingLabels
<1>2. \A t \in Sessions : pc[t] # "joining"
  BY <1>1 DEF SafetyInv, OnlyOwnerStreams, HoldsStream, HoldingLabels
<1> QED
  BY <1>2 DEF SafetyInv, BridgeInv

(* The thread s_async_tid names is joined before another one is created,   *)
(* although the join runs outside s_start_mutex.                           *)
THEOREM NoThreadLost == Spec => ThreadNeverOverwritten
<1>1. SafetyInv /\ [Next]_vars => [async # "none" => async' # "spawned"]_async
  <2> SUFFICES ASSUME SafetyInv, [Next]_vars, async # "none", async' = "spawned",
                      async' # async
               PROVE  FALSE
    OBVIOUS
  <2> USE DEF bridge
  <2>1. ASSUME NEW s \in Sessions, Request(s) PROVE FALSE
    BY <2>1 DEF Request, Accept, Hello, OpenStream, StartRx, StopRx, CloseStream,
                Disconnect
  <2>2. ASSUME NEW s \in Sessions, Continue(s) PROVE FALSE
    <3>1. CASE BridgeStart(s)
      BY <3>1, NoJoinerAtStart DEF BridgeStart, FirstStream
    <3>2. CASE Join(s)
      BY <3>2, SMTT(30) DEF Join
    <3>3. CASE ~BridgeStart(s) /\ ~Join(s)
      BY <2>2, <3>3 DEF Continue, OpenRejected, OpenAccepted, AnnounceOwned, StartFailed,
         Started, BridgeStop, Stopped, Release, AnnounceFree, FreeSlot
    <3> QED
      BY <3>1, <3>2, <3>3
  <2>3. CASE AsyncThread
    BY <2>3 DEF AsyncThread, EnterRead, CallbackBegin, CallbackEnd, ExitRead, ReadFails
  <2>4. CASE UNCHANGED vars
    BY <2>4 DEF vars
  <2> QED
    BY <2>1, <2>2, <2>3, <2>4 DEF Next
<1> QED
  BY Safe, <1>1, PTL DEF Spec, ThreadNeverOverwritten

-----------------------------------------------------------------------------
(* The stream count and the VITA slots, when clients send hello once per   *)
(* connection (~RepeatHello).                                              *)

(* What the count is meant to be: one when a session is counted, else zero. *)
CountExactly == /\ \A s \in Sessions : Counted(s) => stream_count = 1
                /\ (\A s \in Sessions : ~Counted(s)) => stream_count = 0

(* Every step keeps s_stream_count in step with the sessions, when hello   *)
(* is not repeated.                                                        *)
LEMMA CountStep ==
    ASSUME ~RepeatHello
    PROVE  SafetyInv /\ CountExactly /\ [Next]_vars => CountExactly'
<1> SUFFICES ASSUME pc \in [Sessions -> Labels],
                    state \in [Sessions -> SessionStates],
                    stream_count \in Nat,
                    \A t \in Sessions : LabelInv(t),
                    \A t \in Sessions :
                        Counted(t) \/ pc[t] \in {"added", "stop"} => owner = t,
                    CountExactly, [Next]_vars
             PROVE  CountExactly'
  BY CountedOwns DEF SafetyInv, TypeOK, OnlyOwnerStreams, HoldsStream, HoldingLabels
<1> USE DEF Goto, Begin, Return, threads, sessions, bridge
<1>0. ASSUME UNCHANGED stream_count, \A t \in Sessions : Counted(t)' <=> Counted(t)
      PROVE  CountExactly'
  BY <1>0 DEF CountExactly
<1>1. ASSUME NEW s \in Sessions, Request(s) PROVE CountExactly'
  <2>1. CASE Accept(s)
    BY <1>0, <2>1, SMTT(30) DEF Accept, Counted, LabelInv, stream_open
  <2>2. CASE Hello(s)
    BY <1>0, <2>2 DEF Hello, Receives, Counted, LabelInv, stream_open
  <2>3. CASE OpenStream(s)
    BY <1>0, <2>3, SMTT(30) DEF OpenStream, Dispatches, Receives, ClaimAllowed, Counted, LabelInv,
       stream_open
  <2>4. CASE StartRx(s)
    BY <1>0, <2>4 DEF StartRx, Dispatches, Receives, Counted, LabelInv, stream_open
  <2>5. CASE StopRx(s)
    BY <1>0, <2>5 DEF StopRx, Dispatches, Receives, Counted, LabelInv, stream_open
  <2>6. CASE CloseStream(s)
    BY <1>0, <2>6 DEF CloseStream, Dispatches, Receives, AfterDrop, Counted, LabelInv,
       stream_open
  <2>7. CASE Disconnect(s)
    BY <1>0, <2>7 DEF Disconnect, Receives, AfterDrop, Counted, LabelInv, stream_open
  <2> QED
    BY <1>1, <2>1, <2>2, <2>3, <2>4, <2>5, <2>6, <2>7 DEF Request
<1>2. ASSUME NEW s \in Sessions, Continue(s) PROVE CountExactly'
  <2>1. CASE OpenRejected(s)
    BY <1>0, <2>1, SMTT(30) DEF OpenRejected, Counted, LabelInv, stream_open
  <2>2. CASE OpenAccepted(s)
    BY <1>0, <2>2, SMTT(30) DEF OpenAccepted, Counted, LabelInv, stream_open
  <2>3. CASE AnnounceOwned(s)
    BY <1>0, <2>3 DEF AnnounceOwned, Counted, LabelInv, stream_open
  <2>4. CASE BridgeStart(s)
    <3>1. /\ \A t \in Sessions : ~Counted(t)
          /\ stream_count = 0
          /\ \A t \in Sessions \ {s} : ~Counted(t)'
      BY <2>4 DEF BridgeStart, CountExactly, Counted
    <3>2. \/ stream_count' = 1 /\ Counted(s)'
          \/ stream_count' = 0 /\ ~Counted(s)'
      BY <2>4, <3>1, SMTT(30) DEF BridgeStart, FirstStream, Counted
    <3> QED
      BY <3>1, <3>2 DEF CountExactly
  <2>5. CASE StartFailed(s)
    <3>1. UNCHANGED <<state, stream_count>> /\ pc[s] = "start_failed"
          /\ \A t \in Sessions \ {s} : pc'[t] = pc[t]
          /\ pc'[s] # "started"
      BY <2>5 DEF StartFailed
    <3>2. ~Counted(s) /\ ~Counted(s)'
      BY <2>5, <3>1 DEF StartFailed, Counted, LabelInv
    <3> QED
      BY <1>0, <3>1, <3>2 DEF Counted
  <2>6. CASE Started(s)
    BY <1>0, <2>6 DEF Started, Counted, LabelInv, stream_open
  <2>7. CASE BridgeStop(s)
    <3>1. Counted(s) /\ stream_count = 1
      BY <2>7 DEF BridgeStop, CountExactly, Counted, LabelInv
    <3>2. \A t \in Sessions : ~Counted(t)'
      BY <2>7, <3>1 DEF BridgeStop, AfterCancel, Counted
    <3>3. stream_count' = 0
      BY <2>7, <3>1, SMTT(30) DEF BridgeStop
    <3> QED
      BY <3>2, <3>3, SMTT(30) DEF CountExactly
  <2>8. CASE Join(s)
    BY <1>0, <2>8 DEF Join, Counted, LabelInv, stream_open
  <2>9. CASE Stopped(s)
    BY <1>0, <2>9 DEF Stopped, Counted, LabelInv, stream_open
  <2>10. CASE Release(s)
    BY <1>0, <2>10, SMTT(30) DEF Release, ClearStream, AfterRelease, Announces, Counted, LabelInv,
       stream_open
  <2>11. CASE AnnounceFree(s)
    BY <1>0, <2>11 DEF AnnounceFree, AfterRelease, Counted, LabelInv, stream_open
  <2>12. CASE FreeSlot(s)
    BY <1>0, <2>12 DEF FreeSlot, Counted, LabelInv, stream_open
  <2> QED
    BY <1>2, <2>1, <2>2, <2>3, <2>4, <2>5, <2>6, <2>7, <2>8, <2>9, <2>10, <2>11, <2>12
       DEF Continue
<1>3. CASE AsyncThread
  BY <1>0, <1>3 DEF AsyncThread, EnterRead, CallbackBegin, CallbackEnd, ExitRead,
     ReadFails, Counted
<1>4. CASE UNCHANGED vars
  BY <1>0, <1>4 DEF vars, Counted
<1> QED
  BY <1>1, <1>2, <1>3, <1>4 DEF Next

(* A session that waits for a request with a VITA slot is streaming.       *)
TokenStreams(s) ==
    pc[s] = "recv" /\ vita_token[s] # NoToken => state[s] = "STREAMING"

(* Every step keeps it so, when hello is not repeated.                     *)
LEMMA TokenStep ==
    ASSUME ~RepeatHello
    PROVE  SafetyInv /\ (\A s \in Sessions : TokenStreams(s)) /\ [Next]_vars
             => \A s \in Sessions : TokenStreams(s)'
<1> SUFFICES ASSUME pc \in [Sessions -> Labels],
                    state \in [Sessions -> SessionStates],
                    vita_token \in [Sessions -> Tokens \cup {NoToken}],
                    [Next]_vars, NEW u \in Sessions, TokenStreams(u),
                    vita_token[u] # NoToken =>
                        pc[u] \in {"recv", "added", "started", "start_failed"}
             PROVE  TokenStreams(u)'
  BY DEF SafetyInv, TypeOK, LabelInv
<1> USE DEF Goto, Begin, Return, threads, sessions, bridge
<1>1. ASSUME NEW s \in Sessions, Request(s) PROVE TokenStreams(u)'
  <2>1. CASE Accept(s)
    BY <2>1 DEF Accept, TokenStreams
  <2>2. CASE Hello(s)
    BY <2>2 DEF Hello, Receives, TokenStreams
  <2>3. CASE OpenStream(s)
    BY <2>3 DEF OpenStream, Dispatches, Receives, ClaimAllowed, TokenStreams
  <2>4. CASE StartRx(s)
    BY <2>4 DEF StartRx, Dispatches, Receives, TokenStreams
  <2>5. CASE StopRx(s)
    BY <2>5 DEF StopRx, Dispatches, Receives, DropVitaSession, TokenStreams
  <2>6. CASE CloseStream(s)
    BY <2>6 DEF CloseStream, Dispatches, Receives, AfterDrop, DropVitaSession,
       TokenStreams
  <2>7. CASE Disconnect(s)
    BY <2>7 DEF Disconnect, Receives, AfterDrop, DropVitaSession, TokenStreams
  <2> QED
    BY <1>1, <2>1, <2>2, <2>3, <2>4, <2>5, <2>6, <2>7 DEF Request
<1>2. ASSUME NEW s \in Sessions, Continue(s) PROVE TokenStreams(u)'
  <2>1. CASE OpenRejected(s)
    BY <2>1 DEF OpenRejected, TokenStreams
  <2>2. CASE OpenAccepted(s)
    BY <2>2 DEF OpenAccepted, TokenStreams
  <2>3. CASE AnnounceOwned(s)
    BY <2>3 DEF AnnounceOwned, TokenStreams
  <2>4. CASE BridgeStart(s)
    BY <2>4 DEF BridgeStart, FirstStream, TokenStreams
  <2>5. CASE StartFailed(s)
    BY <2>5 DEF StartFailed, DropVitaSession, TokenStreams
  <2>6. CASE Started(s)
    BY <2>6 DEF Started, TokenStreams
  <2>7. CASE BridgeStop(s)
    BY <2>7 DEF BridgeStop, AfterCancel, TokenStreams
  <2>8. CASE Join(s)
    BY <2>8 DEF Join, TokenStreams
  <2>9. CASE Stopped(s)
    BY <2>9 DEF Stopped, TokenStreams
  <2>10. CASE Release(s)
    BY <2>10 DEF Release, ClearStream, AfterRelease, Announces, TokenStreams
  <2>11. CASE AnnounceFree(s)
    BY <2>11 DEF AnnounceFree, AfterRelease, TokenStreams
  <2>12. CASE FreeSlot(s)
    BY <2>12 DEF FreeSlot, TokenStreams
  <2> QED
    BY <1>2, <2>1, <2>2, <2>3, <2>4, <2>5, <2>6, <2>7, <2>8, <2>9, <2>10, <2>11, <2>12
       DEF Continue
<1>3. CASE AsyncThread
  BY <1>3 DEF AsyncThread, EnterRead, CallbackBegin, CallbackEnd, ExitRead, ReadFails,
     TokenStreams
<1>4. CASE UNCHANGED vars
  BY <1>4 DEF vars, TokenStreams
<1> QED
  BY <1>1, <1>2, <1>3, <1>4 DEF Next

(* Every step keeps each VITA slot with the session whose stream it sends. *)
LEMMA OrphanStep ==
    SafetyInv /\ (\A s \in Sessions : TokenStreams(s)) /\ NoOrphanStream /\ [Next]_vars
      => NoOrphanStream'
<1> SUFFICES ASSUME vita \in [Tokens -> Nat],
                    stream_id \in [Sessions -> Nat],
                    vita_token \in [Sessions -> Tokens \cup {NoToken}],
                    \A t \in Sessions : vita_token[t] # NoToken =>
                        pc[t] \in {"recv", "added", "started", "start_failed"},
                    \A t \in Sessions : TokenStreams(t),
                    NoOrphanStream, [Next]_vars
             PROVE  NoOrphanStream'
  BY DEF SafetyInv, TypeOK, LabelInv
<1>0. NoToken \notin Tokens
  BY BoundsAssumption DEF Tokens
<1>same. ASSUME UNCHANGED <<vita, vita_token, stream_id>> PROVE NoOrphanStream'
  BY <1>same DEF NoOrphanStream
<1> USE DEF threads, sessions
<1>1. ASSUME NEW s \in Sessions, Request(s) PROVE NoOrphanStream'
  <2>1. CASE Accept(s)
    BY <2>1, <1>same DEF Accept
  <2>2. CASE Hello(s)
    BY <2>2, <1>same DEF Hello
  <2>3. CASE OpenStream(s)
    BY <2>3, <1>same DEF OpenStream
  <2>4. CASE StartRx(s)
    <3>1. vita_token[s] = NoToken /\ UNCHANGED stream_id
      BY <2>4, ZenonT(40) DEF StartRx, Dispatches, Receives, TokenStreams
    <3>2. CASE UNCHANGED vita /\ vita_token' = [vita_token EXCEPT ![s] = NoToken]
      <4>1. vita_token' = vita_token
        BY <3>1, <3>2
      <4> QED
        BY <1>same, <3>1, <3>2, <4>1
    <3>3. ASSUME NEW i \in Tokens, vita[i] = NoStream,
                 vita' = [vita EXCEPT ![i] = stream_id[s]],
                 vita_token' = [vita_token EXCEPT ![s] = i]
          PROVE  NoOrphanStream'
      BY <1>0, <3>1, <3>3 DEF NoOrphanStream
    <3> QED
      BY <2>4, <3>2, <3>3 DEF StartRx
  <2>5. CASE StopRx(s)
    <3>1. UNCHANGED stream_id /\ DropVitaSession(s)
      BY <2>5 DEF StopRx
    <3> QED
      BY <1>0, <3>1 DEF DropVitaSession, NoOrphanStream
  <2>6. CASE CloseStream(s)
    <3>1. UNCHANGED stream_id /\ DropVitaSession(s)
      BY <2>6 DEF CloseStream
    <3> QED
      BY <1>0, <3>1 DEF DropVitaSession, NoOrphanStream
  <2>7. CASE Disconnect(s)
    <3>1. UNCHANGED stream_id /\ DropVitaSession(s)
      BY <2>7 DEF Disconnect
    <3> QED
      BY <1>0, <3>1 DEF DropVitaSession, NoOrphanStream
  <2> QED
    BY <1>1, <2>1, <2>2, <2>3, <2>4, <2>5, <2>6, <2>7 DEF Request
<1>2. ASSUME NEW s \in Sessions, Continue(s) PROVE NoOrphanStream'
  <2>1. CASE OpenRejected(s)
    BY <2>1, <1>same DEF OpenRejected
  <2>2. CASE OpenAccepted(s)
    <3>1. /\ vita_token[s] = NoToken
          /\ UNCHANGED <<vita, vita_token>>
          /\ \A t \in Sessions \ {s} : stream_id'[t] = stream_id[t]
      BY <2>2 DEF OpenAccepted
    <3> QED
      BY <1>0, <3>1 DEF NoOrphanStream
  <2>3. CASE AnnounceOwned(s)
    BY <2>3, <1>same DEF AnnounceOwned
  <2>4. CASE BridgeStart(s)
    BY <2>4, <1>same DEF BridgeStart
  <2>5. CASE StartFailed(s)
    <3>1. UNCHANGED stream_id /\ DropVitaSession(s)
      BY <2>5 DEF StartFailed
    <3> QED
      BY <1>0, <3>1 DEF DropVitaSession, NoOrphanStream
  <2>6. CASE Started(s)
    BY <2>6, <1>same DEF Started
  <2>7. CASE BridgeStop(s)
    BY <2>7, <1>same DEF BridgeStop
  <2>8. CASE Join(s)
    BY <2>8, <1>same DEF Join
  <2>9. CASE Stopped(s)
    BY <2>9, <1>same DEF Stopped
  <2>10. CASE Release(s)
    <3>1. /\ vita_token[s] = NoToken
          /\ UNCHANGED <<vita, vita_token>>
          /\ \A t \in Sessions \ {s} : stream_id'[t] = stream_id[t]
      BY <2>10 DEF Release, ClearStream
    <3> QED
      BY <1>0, <3>1 DEF NoOrphanStream
  <2>11. CASE AnnounceFree(s)
    BY <2>11, <1>same DEF AnnounceFree
  <2>12. CASE FreeSlot(s)
    <3>1. /\ vita_token[s] = NoToken
          /\ UNCHANGED <<vita, vita_token>>
          /\ \A t \in Sessions \ {s} : stream_id'[t] = stream_id[t]
      BY <2>12 DEF FreeSlot
    <3> QED
      BY <1>0, <3>1 DEF NoOrphanStream
  <2> QED
    BY <1>2, <2>1, <2>2, <2>3, <2>4, <2>5, <2>6, <2>7, <2>8, <2>9, <2>10, <2>11, <2>12
       DEF Continue
<1>3. CASE AsyncThread
  BY <1>same, <1>3 DEF AsyncThread, EnterRead, CallbackBegin, CallbackEnd, ExitRead, ReadFails
<1>4. CASE UNCHANGED vars
  BY <1>same, <1>4 DEF vars
<1> QED
  BY <1>1, <1>2, <1>3, <1>4 DEF Next

(* AccountInv holds in every reachable state when hello is sent once.      *)
THEOREM Accounts ==
    ASSUME ~RepeatHello
    PROVE  Spec => []AccountInv
<1>1. Init => AccountInv
  BY SMTT(30) DEF Init, AccountInv, Counted, NoOrphanStream
<1>2. SafetyInv /\ AccountInv /\ [Next]_vars => AccountInv'
  BY CountStep, TokenStep, OrphanStep DEF AccountInv, CountExactly, TokenStreams
<1> QED
  BY Safe, <1>1, <1>2, PTL DEF Spec

(* No start or stop of the bridge is lost or done twice: s_stream_count is  *)
(* the number of sessions whose stop has yet to come.                      *)
THEOREM CountExact ==
    ASSUME ~RepeatHello
    PROVE  Spec => []StreamsAccounted
<1>1. SafetyInv /\ AccountInv => StreamsAccounted
  <2> SUFFICES ASSUME SafetyInv, AccountInv PROVE StreamsAccounted
    OBVIOUS
  <2> DEFINE C == {s \in Sessions : Counted(s)}
  <2>1. CASE C = {}
    <3>1. stream_count = 0
      BY <2>1 DEF AccountInv
    <3> QED
      BY <2>1, <3>1, FS_EmptySet DEF StreamsAccounted
  <2>2. CASE C # {}
    <3>1. C = {owner}
      BY <2>2, CountedOwns
    <3>2. stream_count = 1
      BY <2>2 DEF AccountInv
    <3>3. Cardinality(C) = 1
      BY <3>1, FS_Singleton
    <3> QED
      BY <3>2, <3>3 DEF StreamsAccounted
  <2> QED
    BY <2>1, <2>2
<1> QED
  BY Safe, Accounts, <1>1, PTL

(* Every VITA slot in use sends the stream of the session that holds it.    *)
THEOREM NoOrphan ==
    ASSUME ~RepeatHello
    PROVE  Spec => []NoOrphanStream
<1>1. AccountInv => NoOrphanStream
  BY DEF AccountInv
<1> QED
  BY Accounts, <1>1, PTL

-----------------------------------------------------------------------------
(* The daemon implements the exclusive receive channel of RxChannel.       *)

(* A session about to give up the channel has joined the async thread.     *)
LEMMA ReleaseIdle ==
    ASSUME SafetyInv, AccountInv, NEW s \in Sessions, pc[s] = "release", owner = s
    PROVE  async = "none"
<1>1. \A t \in Sessions : pc[t] # "joining"
  BY DEF SafetyInv, OnlyOwnerStreams, HoldsStream, HoldingLabels
<1>2. \A t \in Sessions : ~Counted(t)
  BY CountedOwns DEF Counted
<1> QED
  BY <1>1, <1>2 DEF SafetyInv, BridgeInv, AccountInv

(* Every step of the daemon is a step of the exclusive channel, or leaves  *)
(* it as it is.                                                            *)
LEMMA ChannelStep ==
    SafetyInv /\ AccountInv /\ [Next]_vars => [Channel!Next]_(Channel!vars)
<1> SUFFICES ASSUME SafetyInv, AccountInv, [Next]_vars
             PROVE  Channel!Next \/ UNCHANGED <<owner, async # "none">>
  BY DEF Channel!vars
<1> USE DEF bridge
<1>1. ASSUME NEW s \in Sessions, Request(s)
      PROVE  Channel!Next \/ UNCHANGED <<owner, async # "none">>
  <2>1. CASE OpenStream(s)
    <3>1. owner = s \/ owner = NoOwner
      BY <2>1, SMTT(30) DEF OpenStream, ClaimAllowed
    <3> QED
      BY <2>1, <3>1 DEF OpenStream, Channel!Next, Channel!Take
  <2>2. CASE ~OpenStream(s)
    BY <1>1, <2>2 DEF Request, Accept, Hello, StartRx, StopRx, CloseStream, Disconnect
  <2> QED
    BY <2>1, <2>2
<1>2. ASSUME NEW s \in Sessions, Continue(s)
      PROVE  Channel!Next \/ UNCHANGED <<owner, async # "none">>
  <2>1. CASE BridgeStart(s)
    <3>1. owner = s
      BY <2>1 DEF BridgeStart, SafetyInv, OnlyOwnerStreams, HoldsStream, HoldingLabels
    <3>2. CASE UNCHANGED async
      BY <2>1, <3>2 DEF BridgeStart
    <3>3. CASE stream_count = 0 /\ async' = "spawned"
      <4>1. async = "none"
        BY <2>1, <3>3, NoJoinerAtStart DEF BridgeStart
      <4> QED
        BY <2>1, <3>1, <3>3, <4>1 DEF BridgeStart, Channel!Next, Channel!StartSampling
    <3> QED
      BY <2>1, <3>2, <3>3, SMTT(30) DEF BridgeStart, FirstStream
  <2>2. CASE Join(s)
    <3>1. owner = s
      BY <2>2 DEF Join, SafetyInv, OnlyOwnerStreams, HoldsStream, HoldingLabels
    <3> QED
      BY <2>2, <3>1, SMTT(30) DEF Join, Channel!Next, Channel!StopSampling
  <2>3. CASE Release(s)
    <3>1. CASE owner = s
      <4>1. async = "none"
        BY <2>3, <3>1, ReleaseIdle DEF Release
      <4> QED
        BY <2>3, <3>1, <4>1 DEF Release, Channel!Next, Channel!Give
    <3>2. CASE owner # s
      BY <2>3, <3>2 DEF Release
    <3> QED
      BY <3>1, <3>2
  <2>4. CASE ~BridgeStart(s) /\ ~Join(s) /\ ~Release(s)
    BY <1>2, <2>4, ZenonT(40) DEF Continue, OpenRejected, OpenAccepted, AnnounceOwned, StartFailed,
       Started, BridgeStop, Stopped, AnnounceFree, FreeSlot
  <2> QED
    BY <2>1, <2>2, <2>3, <2>4
<1>3. CASE AsyncThread
  BY <1>3 DEF AsyncThread, EnterRead, CallbackBegin, CallbackEnd, ExitRead, ReadFails
<1>4. CASE UNCHANGED vars
  BY <1>4 DEF vars
<1> QED
  BY <1>1, <1>2, <1>3, <1>4 DEF Next

(* The sessions, the bridge and the async thread together implement the    *)
(* exclusive receive channel: it is sampled only while it is held, and it  *)
(* changes hands only when the sampling has stopped.                       *)
THEOREM Refines ==
    ASSUME ~RepeatHello
    PROVE  Spec => ImplementsChannel
<1>1. Init => Channel!Init
  BY DEF Init, Channel!Init
<1> QED
  BY Safe, Accounts, <1>1, ChannelStep, PTL DEF Spec, ImplementsChannel, Channel!Spec

=============================================================================
