------------------------- MODULE TunerConfigProofs --------------------------
(***************************************************************************)
(* Proofs about TunerConfig, for any number of sessions, any gain table,   *)
(* any requests and any of its regimes.                                    *)
(*                                                                         *)
(* Whatever interleaves, the types hold, a manual gain is the one applied, *)
(* a Context packet that is out of date has a successor coming, and the    *)
(* bias tee goes off with the last client.  One request at a time, the     *)
(* frequency and the rate stay in the limits, a stream keeps its rate and  *)
(* signal type, agc stays in control and the events tell what is in force. *)
(***************************************************************************)
EXTENDS TunerConfig, TLAPS

(* What a handler keeps between its check and the step that applies it.    *)
ArgOK(label, v) ==
    /\ v \in Int
    /\ label \in {"set_frequency", "set_sample_rate", "tell_frequency", "tell_rate",
                  "tell_clamped_frequency", "tell_clamped_rate"} => v \in Nat \ {0}
    /\ label = "set_gain" => v \in GainSteps
    /\ label = "set_mode" => v \in Modes
    /\ label = "set_ppm" => v \in -100 .. 100
    /\ label = "add_slot" => v \in Nat

ArgInv == \A s \in Sessions : ArgOK(pc[s], arg[s])

(* The holder of the channel is the session with an open stream, and an    *)
(* active VITA slot is that of a session that starts or streams.           *)
OwnerInv ==
    /\ \A s \in Sessions :
          /\ owner = s <=> state[s] # "IDLE"
          /\ pc[s] \in {"add_slot", "bridge_start"} => state[s] = "STREAM_OPEN"
    /\ slot.active = TRUE =>
          \E s \in Sessions : pc[s] = "bridge_start" \/ state[s] = "STREAMING"

(* One request at a time.                                                  *)
Busy(s) == pc[s] \notin {"gone", "recv"}
Alone == \A s, t \in Sessions : Busy(s) /\ Busy(t) => s = t

(* The steps of the requests that change the rate or the mode.             *)
Changing == {"set_sample_rate", "set_mode", "clamp_frequency", "tell_clamped_frequency",
             "clamp_rate", "tell_clamped_rate", "update_payload"}

(* They run with no stream, and a stream starts with the mode in force.    *)
AnchorInv ==
    /\ Anchored
    /\ \A s \in Sessions :
          /\ pc[s] \in Changing => slot.active = FALSE
          /\ pc[s] = "add_slot" => arg[s] = PayloadFmt(mode)

(* A manual gain is not on its way while agc is on.                        *)
AgcInv ==
    /\ AgcInControl
    /\ \A s \in Sessions : pc[s] = "set_gain" => agc = FALSE

(* Only a direct_sampling change on its way leaves the limits, and what    *)
(* was checked against them still lies in them.                            *)
Within(f) == FreqMin(mode) <= f /\ f <= FreqMax(mode)

LimitsInv ==
    /\ (\A s \in Sessions : pc[s] # "clamp_frequency") => Within(freq)
    /\ (\A s \in Sessions :
           pc[s] \notin {"clamp_frequency", "tell_clamped_frequency", "clamp_rate"})
       => rate_req \in RateList(mode)
    /\ \A s \in Sessions : /\ pc[s] = "set_frequency" => Within(arg[s])
                           /\ pc[s] = "set_sample_rate" => arg[s] \in RateList(mode)

(* An event on its way gives the value in force, and with none on its way  *)
(* the last one told it.                                                   *)
TellsFreq == {"tell_frequency", "tell_clamped_frequency"}
TellsRate == {"tell_rate", "tell_clamped_rate"}

ToldInv ==
    /\ \A s \in Sessions : /\ pc[s] \in TellsFreq => arg[s] = freq
                           /\ pc[s] \in TellsRate => arg[s] = rate_req
    /\ (\A s \in Sessions : pc[s] \notin TellsFreq) => told.freq = freq
    /\ (\A s \in Sessions : pc[s] \notin TellsRate) => told.rate = rate_req

TypeInv == TypeOK /\ ArgInv
OrderlyInv == Orderly => Alone /\ AnchorInv /\ AgcInv /\ LimitsInv /\ ToldInv

-----------------------------------------------------------------------------
(* Types                                                                   *)

(* A gain of the tuner's table is what SetGain keeps for ApplyGain.        *)
LEMMA GainArg ==
    ASSUME NEW g \in GainSteps
    PROVE  g \in Int /\ "set_gain" \in Labels /\ ArgOK("set_gain", g)
<1>1. g \in Int
  BY GainStepsAssumption
<1>2. "set_gain" \in Labels
  BY DEF Labels
<1>3. ArgOK("set_gain", g)
  BY <1>1 DEF ArgOK
<1> QED  BY <1>1, <1>2, <1>3

(* Moving on to a label with a value that suits it.                        *)
LEMMA KeepTypes ==
    ASSUME TypeInv, NEW s \in Sessions, NEW v, NEW label \in Labels,
           ArgOK(label, v), Keep(s, v, label)
    PROVE  pc' \in [Sessions -> Labels] /\ arg' \in [Sessions -> Int] /\ ArgInv'
<1>1. pc' \in [Sessions -> Labels] /\ arg' \in [Sessions -> Int]
  BY DEF TypeInv, TypeOK, Keep, Goto, ArgOK
<1>2. ASSUME NEW t \in Sessions PROVE ArgOK(pc'[t], arg'[t])
  <2>1. CASE t = s
    BY <2>1 DEF TypeInv, TypeOK, Keep, Goto
  <2>2. CASE t # s
    BY <2>2 DEF TypeInv, TypeOK, ArgInv, Keep, Goto
  <2> QED  BY <2>1, <2>2
<1> QED  BY <1>1, <1>2 DEF ArgInv, ArgOK

(* The gains, rates and frequencies are numbers.                           *)
LEMMA Numbers ==
    /\ GainSteps \subseteq Nat /\ Modes \subseteq Int /\ -100 .. 100 \subseteq Int
    /\ \A m \in Modes : PreferredRate(m) \in Nat \ {0} /\ PayloadFmt(m) \in Nat
    /\ \A r \in Regimes : /\ r.freqs \subseteq Nat \ {0} /\ r.rates \subseteq Nat \ {0}
                          /\ r.ppms \subseteq -100 .. 100
BY GainStepsAssumption, ModesAssumption, RegimesAssumption
   DEF PreferredRate, PayloadFmt, COMPLEX, REAL

(* The bridge comes up within the types.                                   *)
LEMMA TypeInit == Init => TypeInv
<1> SUFFICES ASSUME Init PROVE TypeInv
  OBVIOUS
<1>1. TypeOK
  BY Numbers, SessionsAssumption, BiasAssumption
     DEF Init, TypeOK, Labels, DefaultFreq, NoOwner, NoArg, NoSlot, Slots, AutoGain
<1>2. ArgInv
  BY DEF Init, ArgInv, ArgOK, NoArg
<1> QED  BY <1>1, <1>2 DEF TypeInv

(* Every step of a session's thread keeps them.                            *)
LEMMA TypeStep ==
    ASSUME TypeInv, NEW s \in Sessions, Step(s), UNCHANGED <<told, regime>>
    PROVE  TypeInv'
<1> USE Numbers
<1>1. CASE SetFrequency(s)
  <2>1. PICK v \in Int, label \in Labels : ArgOK(label, v) /\ Keep(s, v, label)
    BY <1>1 DEF SetFrequency, TypeInv, TypeOK, ArgOK, Labels
  <2>2. pc' \in [Sessions -> Labels] /\ arg' \in [Sessions -> Int] /\ ArgInv'
    BY <2>1, KeepTypes
  <2>3. QED
    BY <1>1, <2>2 DEF SetFrequency, TypeInv, TypeOK, tuning, levels
<1>2. CASE ApplyFrequency(s)
  <2>1. PICK v \in Int, label \in Labels : ArgOK(label, v) /\ Keep(s, v, label)
    BY <1>2, SMTT(30)
       DEF ApplyFrequency, rtl_set_frequency, AppliedFreq, TypeInv, TypeOK, ArgInv,
           ArgOK, Labels, NoArg
  <2>2. pc' \in [Sessions -> Labels] /\ arg' \in [Sessions -> Int] /\ ArgInv'
    BY <2>1, KeepTypes
  <2>3. QED
    BY <1>2, <2>2
       DEF ApplyFrequency, rtl_set_frequency, AppliedFreq, TypeInv, TypeOK, ArgInv,
           ArgOK, levels
<1>3. CASE SetSampleRate(s)
  <2>1. PICK v \in Int, label \in Labels : ArgOK(label, v) /\ Keep(s, v, label)
    BY <1>3 DEF SetSampleRate, RateList, TypeInv, TypeOK, ArgOK, Labels
  <2>2. pc' \in [Sessions -> Labels] /\ arg' \in [Sessions -> Int] /\ ArgInv'
    BY <2>1, KeepTypes
  <2>3. QED
    BY <1>3, <2>2 DEF SetSampleRate, TypeInv, TypeOK, tuning, levels
<1>4. CASE ApplySampleRate(s)
  <2>1. PICK v \in Int, label \in Labels : ArgOK(label, v) /\ Keep(s, v, label)
    BY <1>4
       DEF ApplySampleRate, rtl_set_sample_rate, TypeInv, TypeOK, ArgInv, ArgOK, Labels,
           NoArg
  <2>2. pc' \in [Sessions -> Labels] /\ arg' \in [Sessions -> Int] /\ ArgInv'
    BY <2>1, KeepTypes
  <2>3. QED
    BY <1>4, <2>2
       DEF ApplySampleRate, rtl_set_sample_rate, AppliedRate, TypeInv, TypeOK, ArgInv,
           ArgOK, levels
<1>5. CASE SetGain(s)
  <2>0. PICK g \in GainSteps : Keep(s, g, "set_gain")
    BY <1>5, ZenonT(30) DEF SetGain
  <2>1. PICK v \in Int, label \in Labels : ArgOK(label, v) /\ Keep(s, v, label)
    BY <2>0, GainArg
  <2>2. pc' \in [Sessions -> Labels] /\ arg' \in [Sessions -> Int] /\ ArgInv'
    BY <2>1, KeepTypes
  <2>3. QED
    BY <1>5, <2>2 DEF SetGain, TypeInv, TypeOK, tuning, levels
<1>6. CASE ApplyGain(s)
  <2>1. PICK v \in Int, label \in Labels : ArgOK(label, v) /\ Keep(s, v, label)
    BY <1>6 DEF ApplyGain, AfterGain, ArgOK, Labels, NoArg
  <2>2. pc' \in [Sessions -> Labels] /\ arg' \in [Sessions -> Int] /\ ArgInv'
    BY <2>1, KeepTypes
  <2>3. QED
    BY <1>6, <2>2 DEF ApplyGain, TypeInv, TypeOK, ArgInv, ArgOK, tuning
<1>7. CASE SetAgc(s)
  <2>1. PICK v \in Int, label \in Labels : ArgOK(label, v) /\ Keep(s, v, label)
    BY <1>7 DEF SetAgc, ArgOK, Labels
  <2>2. pc' \in [Sessions -> Labels] /\ arg' \in [Sessions -> Int] /\ ArgInv'
    BY <2>1, KeepTypes
  <2>3. QED
    BY <1>7, <2>2 DEF SetAgc, TypeInv, TypeOK, tuning, levels
<1>8. CASE ApplyAgc(s)
  <2>1. PICK v \in Int, label \in Labels : ArgOK(label, v) /\ Keep(s, v, label)
    BY <1>8 DEF ApplyAgc, ArgOK, Labels, NoArg
  <2>2. pc' \in [Sessions -> Labels] /\ arg' \in [Sessions -> Int] /\ ArgInv'
    BY <2>1, KeepTypes
  <2>3. QED
    BY <1>8, <2>2 DEF ApplyAgc, RestoredGain, TypeInv, TypeOK, tuning
<1>9. CASE SetBiasTee(s)
  <2>1. PICK v \in Int, label \in Labels : ArgOK(label, v) /\ Keep(s, v, label)
    BY <1>9 DEF SetBiasTee, ArgOK, Labels
  <2>2. pc' \in [Sessions -> Labels] /\ arg' \in [Sessions -> Int] /\ ArgInv'
    BY <2>1, KeepTypes
  <2>3. QED
    BY <1>9, <2>2 DEF SetBiasTee, TypeInv, TypeOK, tuning, levels
<1>10. CASE ApplyBiasTee(s)
  <2>1. PICK v \in Int, label \in Labels : ArgOK(label, v) /\ Keep(s, v, label)
    BY <1>10 DEF ApplyBiasTee, Return, ArgOK, Labels, NoArg
  <2>2. pc' \in [Sessions -> Labels] /\ arg' \in [Sessions -> Int] /\ ArgInv'
    BY <2>1, KeepTypes
  <2>3. QED
    BY <1>10, <2>2, Zenon DEF ApplyBiasTee, TypeInv, TypeOK, tuning
<1>11. CASE SetPpm(s)
  <2>1. PICK v \in Int, label \in Labels : ArgOK(label, v) /\ Keep(s, v, label)
    BY <1>11, Zenon DEF SetPpm, TypeInv, TypeOK, ArgOK, Labels
  <2>2. pc' \in [Sessions -> Labels] /\ arg' \in [Sessions -> Int] /\ ArgInv'
    BY <2>1, KeepTypes
  <2>3. QED
    BY <1>11, <2>2 DEF SetPpm, TypeInv, TypeOK, tuning, levels
<1>12. CASE ApplyPpm(s)
  <2>1. PICK v \in Int, label \in Labels : ArgOK(label, v) /\ Keep(s, v, label)
    BY <1>12 DEF ApplyPpm, Return, ArgOK, Labels, NoArg
  <2>2. pc' \in [Sessions -> Labels] /\ arg' \in [Sessions -> Int] /\ ArgInv'
    BY <2>1, KeepTypes
  <2>3. QED
    <3>1. arg[s] \in -100 .. 100
      BY <1>12 DEF ApplyPpm, TypeInv, ArgInv, ArgOK
    <3>2. ppm' = arg[s] \/ ppm' = ppm
      BY <1>12 DEF ApplyPpm
    <3> QED  BY <1>12, <2>2, <3>1, <3>2 DEF ApplyPpm, TypeInv, TypeOK, tuning
<1>13. CASE SetDirectSampling(s)
  <2>1. PICK v \in Int, label \in Labels : ArgOK(label, v) /\ Keep(s, v, label)
    BY <1>13, Zenon DEF SetDirectSampling, ArgOK, Labels
  <2>2. pc' \in [Sessions -> Labels] /\ arg' \in [Sessions -> Int] /\ ArgInv'
    BY <2>1, KeepTypes
  <2>3. QED
    BY <1>13, <2>2 DEF SetDirectSampling, TypeInv, TypeOK, tuning, levels
<1>14. CASE ApplyMode(s)
  <2>1. PICK v \in Int, label \in Labels : ArgOK(label, v) /\ Keep(s, v, label)
    BY <1>14 DEF ApplyMode, Return, ArgOK, Labels, NoArg
  <2>2. pc' \in [Sessions -> Labels] /\ arg' \in [Sessions -> Int] /\ ArgInv'
    BY <2>1, KeepTypes
  <2>3. QED
    BY <1>14, <2>2 DEF ApplyMode, TypeInv, TypeOK, ArgInv, ArgOK, levels
<1>15. CASE ClampFrequency(s)
  <2>1. PICK v \in Int, label \in Labels : ArgOK(label, v) /\ Keep(s, v, label)
    BY <1>15
       DEF ClampFrequency, rtl_set_frequency, AppliedFreq, AfterClamp, Clamped, FreqMin,
           FreqMax, TypeInv, TypeOK, ArgOK, Labels, NoArg
  <2>2. pc' \in [Sessions -> Labels] /\ arg' \in [Sessions -> Int] /\ ArgInv'
    BY <2>1, KeepTypes
  <2>3. QED
    BY <1>15, <2>2
       DEF ClampFrequency, rtl_set_frequency, AppliedFreq, Clamped, FreqMin, FreqMax,
           TypeInv, TypeOK, levels
<1>16. CASE ClampRate(s)
  <2>1. PICK v \in Int, label \in Labels : ArgOK(label, v) /\ Keep(s, v, label)
    BY <1>16 DEF ClampRate, rtl_set_sample_rate, TypeInv, TypeOK, ArgOK, Labels, NoArg
  <2>2. pc' \in [Sessions -> Labels] /\ arg' \in [Sessions -> Int] /\ ArgInv'
    BY <2>1, KeepTypes
  <2>3. QED
    BY <1>16, <2>2
       DEF ClampRate, rtl_set_sample_rate, AppliedRate, TypeInv, TypeOK, levels
<1>17. CASE UpdatePayload(s)
  <2>1. PICK v \in Int, label \in Labels : ArgOK(label, v) /\ Keep(s, v, label)
    BY <1>17 DEF UpdatePayload, ArgOK, Labels, NoArg
  <2>2. pc' \in [Sessions -> Labels] /\ arg' \in [Sessions -> Int] /\ ArgInv'
    BY <2>1, KeepTypes
  <2>3. QED
    BY <1>17, <2>2 DEF UpdatePayload, Slots, TypeInv, TypeOK, tuning, levels
<1>18. CASE SendContext(s)
  <2>1. PICK v \in Int, label \in Labels : ArgOK(label, v) /\ Keep(s, v, label)
    BY <1>18 DEF SendContext, Return, ArgOK, Labels, NoArg
  <2>2. pc' \in [Sessions -> Labels] /\ arg' \in [Sessions -> Int] /\ ArgInv'
    BY <2>1, KeepTypes
  <2>3. QED
    BY <1>18, <2>2, Zenon DEF SendContext, WithContext, Slots, TypeInv, TypeOK, tuning, levels
<1>19. CASE StartRx(s)
  <2>1. PICK v \in Int, label \in Labels : ArgOK(label, v) /\ Keep(s, v, label)
    BY <1>19 DEF StartRx, TypeInv, TypeOK, ArgOK, Labels
  <2>2. pc' \in [Sessions -> Labels] /\ arg' \in [Sessions -> Int] /\ ArgInv'
    BY <2>1, KeepTypes
  <2>3. QED
    BY <1>19, <2>2 DEF StartRx, TypeInv, TypeOK, tuning, levels
<1>20. CASE AddSlot(s)
  <2>1. PICK v \in Int, label \in Labels : ArgOK(label, v) /\ Keep(s, v, label)
    BY <1>20 DEF AddSlot, ArgOK, Labels, NoArg
  <2>2. pc' \in [Sessions -> Labels] /\ arg' \in [Sessions -> Int] /\ ArgInv'
    BY <2>1, KeepTypes
  <2>3. QED
    BY <1>20, <2>2, ZenonT(30)
       DEF AddSlot, WithContext, Slots, TypeInv, TypeOK, ArgInv, ArgOK, tuning, levels
<1>21. CASE BridgeStart(s)
  <2>1. PICK v \in Int, label \in Labels : ArgOK(label, v) /\ Keep(s, v, label)
    BY <1>21 DEF BridgeStart, Return, ArgOK, Labels, NoArg
  <2>2. pc' \in [Sessions -> Labels] /\ arg' \in [Sessions -> Int] /\ ArgInv'
    BY <2>1, KeepTypes
  <2>3. QED
    BY <1>21, <2>2, Zenon DEF BridgeStart, TypeInv, TypeOK, tuning, levels
<1>22. CASE Connect(s)
  BY <1>22 DEF Connect, Goto, Labels, TypeInv, TypeOK, ArgInv, ArgOK, tuning, levels
<1>23. CASE OpenStream(s)
  BY <1>23 DEF OpenStream, TypeInv, TypeOK, ArgInv, tuning, levels
<1>24. CASE StopRx(s)
  BY <1>24 DEF StopRx, NoSlot, Slots, TypeInv, TypeOK, ArgInv, tuning, levels
<1>25. CASE CloseStream(s)
  BY <1>25
     DEF CloseStream, ReleaseStream, NoSlot, Slots, NoOwner, TypeInv, TypeOK, ArgInv,
         tuning, levels
<1>26. CASE Disconnect(s)
  BY <1>26
     DEF Disconnect, ReleaseStream, Goto, NoSlot, Slots, NoOwner, Labels, TypeInv,
         TypeOK, ArgInv, ArgOK, tuning, levels
<1>27. CASE BiasOff(s)
  BY <1>27, BiasAssumption
     DEF BiasOff, BiasAfter, Goto, Labels, TypeInv, TypeOK, ArgInv, ArgOK, tuning
<1> QED
  BY <1>1, <1>2, <1>3, <1>4, <1>5, <1>6, <1>7, <1>8, <1>9, <1>10, <1>11, <1>12, <1>13,
     <1>14, <1>15, <1>16, <1>17, <1>18, <1>19, <1>20, <1>21, <1>22, <1>23, <1>24, <1>25,
     <1>26, <1>27 DEF Step

(* The events change what was told and move the handler on.                *)
LEMMA TypeTell ==
    ASSUME TypeInv, NEW s \in Sessions, frequency_changed(s) \/ sample_rate_changed(s),
           UNCHANGED regime
    PROVE  TypeInv'
<1>1. PICK label \in Labels : Keep(s, NoArg, label) /\ ArgOK(label, NoArg)
  BY DEF frequency_changed, sample_rate_changed, Announce, Labels, ArgOK, NoArg
<1>2. pc' \in [Sessions -> Labels] /\ arg' \in [Sessions -> Int] /\ ArgInv'
  BY <1>1, KeepTypes
<1>3. arg[s] \in Nat /\ told' \in [freq : Nat, rate : Nat]
  BY DEF frequency_changed, sample_rate_changed, Announce, TypeInv, TypeOK, ArgInv, ArgOK
<1> QED
  BY <1>2, <1>3 DEF frequency_changed, sample_rate_changed, Announce, TypeInv, TypeOK,
                        tuning, levels

-----------------------------------------------------------------------------
(* Who writes what                                                         *)

(* A step writes its own program counter and argument, and a setting only  *)
(* in the critical section that is there for it.                           *)
Frame(s) ==
    /\ \A t \in Sessions \ {s} : pc'[t] = pc[t] /\ arg'[t] = arg[t]
    /\ pc[s] # "set_gain" => gain' = gain
    /\ pc[s] # "set_agc" => agc' = agc
    /\ pc[s] \notin {"set_gain", "set_agc"} => tuner' = tuner
    /\ pc[s] # "set_mode" => mode' = mode
    /\ pc[s] \notin {"set_frequency", "clamp_frequency"} => freq' = freq
    /\ pc[s] \notin {"set_sample_rate", "clamp_rate"} => rate' = rate /\ rate_req' = rate_req
    /\ pc[s] \notin {"update_payload", "send_context", "add_slot", "recv"} => slot' = slot
    /\ pc[s] = "recv" => slot' \in {slot, NoSlot}
    /\ pc[s] \notin {"recv", "bridge_start"} => state' = state
    /\ pc[s] # "recv" => owner' = owner

(* A step writes no more than that.                                        *)
LEMMA Writers ==
    ASSUME TypeInv, NEW s \in Sessions, Step(s)
    PROVE  Frame(s)
<1>1. pc \in [Sessions -> Labels] /\ arg \in [Sessions -> Int]
  BY DEF TypeInv, TypeOK
<1> USE DEF Frame, tuning, levels
<1>2. CASE SetFrequency(s)
  BY <1>1, <1>2 DEF SetFrequency, Receives, Keep, Goto
<1>3. CASE ApplyFrequency(s)
  BY <1>1, <1>3 DEF ApplyFrequency, rtl_set_frequency, Keep, Goto
<1>4. CASE SetSampleRate(s)
  BY <1>1, <1>4 DEF SetSampleRate, Receives, Keep, Goto
<1>5. CASE ApplySampleRate(s)
  BY <1>1, <1>5 DEF ApplySampleRate, rtl_set_sample_rate, Keep, Goto
<1>6. CASE SetGain(s)
  BY <1>1, <1>6 DEF SetGain, Receives, Keep, Goto
<1>7. CASE ApplyGain(s)
  BY <1>1, <1>7 DEF ApplyGain, AfterGain, Keep, Goto
<1>8. CASE SetAgc(s)
  BY <1>1, <1>8 DEF SetAgc, Receives, Keep, Goto
<1>9. CASE ApplyAgc(s)
  BY <1>1, <1>9 DEF ApplyAgc, Keep, Goto
<1>10. CASE SetBiasTee(s)
  BY <1>1, <1>10 DEF SetBiasTee, Receives, Keep, Goto
<1>11. CASE ApplyBiasTee(s)
  BY <1>1, <1>11 DEF ApplyBiasTee, Return, Keep, Goto
<1>12. CASE SetPpm(s)
  BY <1>1, <1>12 DEF SetPpm, Receives, Keep, Goto
<1>13. CASE ApplyPpm(s)
  BY <1>1, <1>13 DEF ApplyPpm, Return, Keep, Goto
<1>14. CASE SetDirectSampling(s)
  BY <1>1, <1>14 DEF SetDirectSampling, Receives, Keep, Goto
<1>15. CASE ApplyMode(s)
  BY <1>1, <1>15 DEF ApplyMode, Return, Keep, Goto
<1>16. CASE ClampFrequency(s)
  BY <1>1, <1>16 DEF ClampFrequency, rtl_set_frequency, AfterClamp, Keep, Goto
<1>17. CASE ClampRate(s)
  BY <1>1, <1>17 DEF ClampRate, rtl_set_sample_rate, Keep, Goto
<1>18. CASE UpdatePayload(s)
  BY <1>1, <1>18 DEF UpdatePayload, Keep, Goto
<1>19. CASE SendContext(s)
  BY <1>1, <1>19 DEF SendContext, Return, Keep, Goto
<1>20. CASE StartRx(s)
  BY <1>1, <1>20 DEF StartRx, Receives, Keep, Goto
<1>21. CASE AddSlot(s)
  BY <1>1, <1>21 DEF AddSlot, Keep, Goto
<1>22. CASE BridgeStart(s)
  BY <1>1, <1>22 DEF BridgeStart, Return, Keep, Goto
<1>23. CASE Connect(s)
  BY <1>1, <1>23 DEF Connect, Keep, Goto
<1>24. CASE OpenStream(s)
  BY <1>1, <1>24 DEF OpenStream, Receives, Keep, Goto
<1>25. CASE StopRx(s)
  BY <1>1, <1>25 DEF StopRx, Receives, Keep, Goto
<1>26. CASE CloseStream(s)
  BY <1>1, <1>26 DEF CloseStream, Receives, ReleaseStream, Keep, Goto
<1>27. CASE Disconnect(s)
  BY <1>1, <1>27 DEF Disconnect, Receives, ReleaseStream, Keep, Goto
<1>28. CASE BiasOff(s)
  BY <1>1, <1>28, SMTT(30) DEF BiasOff, Keep, Goto
<1> QED
  BY <1>2, <1>3, <1>4, <1>5, <1>6, <1>7, <1>8, <1>9, <1>10, <1>11, <1>12, <1>13, <1>14,
     <1>15, <1>16, <1>17, <1>18, <1>19, <1>20, <1>21, <1>22, <1>23, <1>24, <1>25, <1>26,
     <1>27, <1>28, Zenon DEF Step

(* Which step a program point is about to take.                            *)
LEMMA Exits ==
    ASSUME NEW s \in Sessions, Step(s)
    PROVE  /\ pc[s] = "set_frequency" => ApplyFrequency(s)
           /\ pc[s] = "set_sample_rate" => ApplySampleRate(s)
           /\ pc[s] = "set_gain" => ApplyGain(s)
           /\ pc[s] = "set_agc" => ApplyAgc(s)
           /\ pc[s] = "set_mode" => ApplyMode(s)
           /\ pc[s] = "clamp_frequency" => ClampFrequency(s)
           /\ pc[s] = "clamp_rate" => ClampRate(s)
           /\ pc[s] = "update_payload" => UpdatePayload(s)
           /\ pc[s] = "send_context" => SendContext(s)
           /\ pc[s] = "add_slot" => AddSlot(s)
           /\ pc[s] = "bridge_start" => BridgeStart(s)
           /\ pc[s] = "bias_off" => BiasOff(s)
           /\ pc[s] \notin {"tell_frequency", "tell_rate", "tell_clamped_frequency",
                            "tell_clamped_rate"}
           /\ pc[s] \in {"gone", "recv"} =>
                 Concurrent \/ \A t \in Sessions : pc[t] \in {"gone", "recv"}
BY DEF Step, Receives, SetFrequency, ApplyFrequency, SetSampleRate, ApplySampleRate,
       SetGain, ApplyGain, SetAgc, ApplyAgc, SetBiasTee, ApplyBiasTee, SetPpm, ApplyPpm,
       SetDirectSampling, ApplyMode, ClampFrequency, ClampRate, UpdatePayload,
       SendContext, StartRx, AddSlot, BridgeStart, Connect, OpenStream, StopRx,
       CloseStream, Disconnect, BiasOff

(* Which step brought a session to a program point.                        *)
LEMMA Entries ==
    ASSUME TypeInv, NEW s \in Sessions, Step(s)
    PROVE  /\ pc'[s] = "set_frequency" => SetFrequency(s)
           /\ pc'[s] = "set_sample_rate" => SetSampleRate(s)
           /\ pc'[s] = "tell_frequency" => ApplyFrequency(s)
           /\ pc'[s] = "tell_rate" => ApplySampleRate(s)
           /\ pc'[s] = "set_gain" => SetGain(s)
           /\ pc'[s] = "set_mode" => SetDirectSampling(s)
           /\ pc'[s] = "clamp_frequency" => ApplyMode(s)
           /\ pc'[s] = "tell_clamped_frequency" => ClampFrequency(s)
           /\ pc'[s] = "clamp_rate" => ClampFrequency(s)
           /\ pc'[s] = "tell_clamped_rate" => ClampRate(s)
           /\ pc'[s] = "update_payload" => ClampRate(s)
           /\ pc'[s] = "add_slot" => StartRx(s)
           /\ pc'[s] = "bridge_start" => AddSlot(s)
           /\ pc'[s] = "gone" => BiasOff(s)
<1>1. pc \in [Sessions -> Labels]
  BY SMTT(30) DEF TypeInv, TypeOK
<1>2. CASE SetFrequency(s)
  BY <1>1, <1>2, Zenon DEF SetFrequency, Receives, Keep, Goto
<1>3. CASE ApplyFrequency(s)
  BY <1>1, <1>3 DEF ApplyFrequency, rtl_set_frequency, Keep, Goto
<1>4. CASE SetSampleRate(s)
  BY <1>1, <1>4, Zenon DEF SetSampleRate, Receives, Keep, Goto
<1>5. CASE ApplySampleRate(s)
  BY <1>1, <1>5 DEF ApplySampleRate, rtl_set_sample_rate, Keep, Goto
<1>6. CASE SetGain(s)
  BY <1>1, <1>6, Zenon DEF SetGain, Receives, Keep, Goto
<1>7. CASE ApplyGain(s)
  BY <1>1, <1>7 DEF ApplyGain, AfterGain, Keep, Goto
<1>8. CASE SetAgc(s)
  BY <1>1, <1>8 DEF SetAgc, Receives, Keep, Goto
<1>9. CASE ApplyAgc(s)
  BY <1>1, <1>9 DEF ApplyAgc, Keep, Goto
<1>10. CASE SetBiasTee(s)
  BY <1>1, <1>10 DEF SetBiasTee, Receives, Keep, Goto
<1>11. CASE ApplyBiasTee(s)
  BY <1>1, <1>11 DEF ApplyBiasTee, Return, Keep, Goto
<1>12. CASE SetPpm(s)
  BY <1>1, <1>12 DEF SetPpm, Receives, Keep, Goto
<1>13. CASE ApplyPpm(s)
  BY <1>1, <1>13 DEF ApplyPpm, Return, Keep, Goto
<1>14. CASE SetDirectSampling(s)
  BY <1>1, <1>14, Zenon DEF SetDirectSampling, Receives, Keep, Goto
<1>15. CASE ApplyMode(s)
  BY <1>1, <1>15 DEF ApplyMode, Return, Keep, Goto
<1>16. CASE ClampFrequency(s)
  BY <1>1, <1>16 DEF ClampFrequency, rtl_set_frequency, AfterClamp, Keep, Goto
<1>17. CASE ClampRate(s)
  BY <1>1, <1>17 DEF ClampRate, rtl_set_sample_rate, Keep, Goto
<1>18. CASE UpdatePayload(s)
  BY <1>1, <1>18 DEF UpdatePayload, Keep, Goto
<1>19. CASE SendContext(s)
  BY <1>1, <1>19 DEF SendContext, Return, Keep, Goto
<1>20. CASE StartRx(s)
  BY <1>1, <1>20 DEF StartRx, Receives, Keep, Goto
<1>21. CASE AddSlot(s)
  BY <1>1, <1>21 DEF AddSlot, Keep, Goto
<1>22. CASE BridgeStart(s)
  BY <1>1, <1>22 DEF BridgeStart, Return, Keep, Goto
<1>23. CASE Connect(s)
  BY <1>1, <1>23 DEF Connect, Keep, Goto
<1>24. CASE OpenStream(s)
  BY <1>1, <1>24 DEF OpenStream, Receives, Keep, Goto
<1>25. CASE StopRx(s)
  BY <1>1, <1>25 DEF StopRx, Receives, Keep, Goto
<1>26. CASE CloseStream(s)
  BY <1>1, <1>26 DEF CloseStream, Receives, ReleaseStream, Keep, Goto
<1>27. CASE Disconnect(s)
  BY <1>1, <1>27 DEF Disconnect, Receives, ReleaseStream, Keep, Goto
<1>28. CASE BiasOff(s)
  BY <1>1, <1>28 DEF BiasOff, Keep, Goto
<1> QED
  BY <1>2, <1>3, <1>4, <1>5, <1>6, <1>7, <1>8, <1>9, <1>10, <1>11, <1>12, <1>13, <1>14,
     <1>15, <1>16, <1>17, <1>18, <1>19, <1>20, <1>21, <1>22, <1>23, <1>24, <1>25, <1>26,
     <1>27, <1>28, Zenon DEF Step

(* An event leaves the settings alone.                                     *)
LEMMA Tells ==
    ASSUME TypeInv, NEW s \in Sessions, frequency_changed(s) \/ sample_rate_changed(s)
    PROVE  /\ UNCHANGED <<state, owner, tuning, levels, slot>>
           /\ \A t \in Sessions \ {s} : pc'[t] = pc[t] /\ arg'[t] = arg[t]
           /\ \/ pc[s] \in {"tell_frequency", "tell_rate"} /\ pc'[s] = "recv"
              \/ pc[s] = "tell_clamped_frequency" /\ pc'[s] = "clamp_rate"
              \/ pc[s] = "tell_clamped_rate" /\ pc'[s] = "update_payload"
           /\ pc[s] \in TellsFreq => told'.freq = arg[s] /\ told'.rate = told.rate
           /\ pc[s] \in TellsRate => told'.rate = arg[s] /\ told'.freq = told.freq
BY DEF TypeInv, TypeOK, frequency_changed, sample_rate_changed, Announce, Keep, Goto,
       TellsFreq, TellsRate

(* The types hold in every state.                                          *)
LEMMA TypeInductive == TypeInv /\ [Next]_vars => TypeInv'
<1> SUFFICES ASSUME TypeInv, [Next]_vars PROVE TypeInv'
  OBVIOUS
<1>1. CASE UNCHANGED vars
  BY <1>1 DEF TypeInv, TypeOK, ArgInv, ArgOK, vars, tuning, levels
<1>2. ASSUME NEW s \in Sessions, Step(s), UNCHANGED <<told, regime>> PROVE TypeInv'
  BY <1>2, TypeStep
<1>3. ASSUME NEW s \in Sessions, frequency_changed(s) \/ sample_rate_changed(s),
             UNCHANGED regime
      PROVE  TypeInv'
  BY <1>3, TypeTell
<1> QED  BY <1>1, <1>2, <1>3 DEF Next

(* And they hold from the start.                                           *)
LEMMA TypeAlways == Spec => []TypeInv
BY TypeInit, TypeInductive, PTL DEF Spec

(* Every setting keeps its type under any interleaving and whatever        *)
(* librtlsdr refuses: the frequency and the rate in force are never zero.  *)
THEOREM TunerTypes == Spec => []TypeOK
<1>1. TypeInv => TypeOK
  BY DEF TypeInv
<1> QED  BY TypeAlways, <1>1, PTL

-----------------------------------------------------------------------------
(* The gain                                                                *)

(* While agc is off the tuner applies the last gain a client set, under    *)
(* any interleaving of rf_gain and agc requests.                           *)
THEOREM ManualGainApplied == Spec => []ManualGain
<1>1. Init => ManualGain
  BY DEF Init, ManualGain
<1>2. TypeInv /\ ManualGain /\ [Next]_vars => ManualGain'
  <2> SUFFICES ASSUME TypeInv, ManualGain, [Next]_vars PROVE ManualGain'
    OBVIOUS
  <2>1. CASE UNCHANGED vars
    BY <2>1 DEF ManualGain, vars, levels
  <2>2. ASSUME NEW s \in Sessions, Step(s) PROVE ManualGain'
    <3>1. CASE pc[s] = "set_gain"
      BY <2>2, <3>1, Exits DEF ApplyGain, ManualGain
    <3>2. CASE pc[s] = "set_agc"
      <4>1. ApplyAgc(s)
        BY <2>2, <3>2, Exits, SMTT(30)
      <4>2. CASE arg[s] = 1
        BY <4>1, <4>2, Zenon DEF ApplyAgc, ManualGain
      <4>3. CASE arg[s] # 1
        BY <4>1, <4>3 DEF ApplyAgc, ManualGain, RestoredGain
      <4> QED  BY <4>2, <4>3
    <3>3. CASE pc[s] \notin {"set_gain", "set_agc"}
      BY <2>2, <3>3, Writers DEF Frame, ManualGain
    <3> QED  BY <3>1, <3>2, <3>3, SMTT(30)
  <2>3. ASSUME NEW s \in Sessions, frequency_changed(s) \/ sample_rate_changed(s)
        PROVE  ManualGain'
    BY <2>3, Tells DEF ManualGain, levels
  <2> QED  BY <2>1, <2>2, <2>3 DEF Next
<1> QED  BY <1>1, <1>2, TypeAlways, PTL DEF Spec

-----------------------------------------------------------------------------
(* Context packets                                                         *)

(* A stream whose last Context packet is out of date has another one       *)
(* coming, under any interleaving: whoever changes the gain or the stored  *)
(* Payload Format is on its way to vita_send_context_all.                  *)
THEOREM ContextIsComing == Spec => []ContextFollows
<1>1. Init => ContextFollows
  BY DEF Init, ContextFollows, NoSlot
<1>2. TypeInv /\ ContextFollows /\ [Next]_vars => ContextFollows'
  <2> SUFFICES ASSUME TypeInv, ContextFollows, [Next]_vars PROVE ContextFollows'
    OBVIOUS
  <2>1. CASE UNCHANGED vars
    BY <2>1 DEF ContextFollows, vars, levels
  <2>2. ASSUME NEW s \in Sessions, Step(s) PROVE ContextFollows'
    <3>1. Frame(s)
      BY <2>2, Writers
    <3>2. pc \in [Sessions -> Labels] /\ slot \in Slots
      BY DEF TypeInv, TypeOK
    <3>3. CASE \E t \in Sessions \ {s} : pc[t] = "send_context"
      BY <3>1, <3>3 DEF Frame, ContextFollows
    <3>4. CASE pc[s] \in {"set_gain", "set_agc", "update_payload"}
      BY <2>2, <3>2, <3>4, Exits
         DEF ApplyGain, ApplyAgc, UpdatePayload, AfterGain, Keep, Goto, ContextFollows
    <3>5. CASE pc[s] = "send_context"
      <4>1. SendContext(s) /\ gain' = gain
        BY <2>2, <3>1, <3>5, Exits DEF Frame
      <4>2. CASE slot.active
        <5>1. slot' = WithContext(slot)
          BY <4>1, <4>2 DEF SendContext
        <5>2. slot'.ctx_ref = gain /\ slot'.ctx_pf = slot'.pf
          BY <3>2, <5>1 DEF WithContext, Slots
        <5> QED  BY <4>1, <5>2 DEF ContextFollows
      <4>3. CASE ~slot.active
        BY <4>1, <4>3 DEF SendContext, ContextFollows
      <4> QED  BY <4>2, <4>3, SMTT(30)
    <3>6. CASE pc[s] = "add_slot"
      BY <2>2, <3>6, Exits, ZenonT(30) DEF AddSlot, WithContext, levels, ContextFollows
    <3>7. CASE /\ \A t \in Sessions : pc[t] # "send_context"
               /\ pc[s] \notin {"set_gain", "set_agc", "update_payload", "add_slot"}
      BY <3>1, <3>7 DEF Frame, ContextFollows, NoSlot
    <3> QED  BY <3>3, <3>4, <3>5, <3>6, <3>7
  <2>3. ASSUME NEW s \in Sessions, frequency_changed(s) \/ sample_rate_changed(s)
        PROVE  ContextFollows'
    BY <2>3, Tells DEF ContextFollows, levels, TellsFreq, TellsRate
  <2> QED  BY <2>1, <2>2, <2>3 DEF Next
<1> QED  BY <1>1, <1>2, TypeAlways, PTL DEF Spec

-----------------------------------------------------------------------------
(* The bias tee                                                            *)

(* Without --bias-tee-persist the bias tee is off once the last client has *)
(* gone, whoever switched it on and however the disconnects interleave.    *)
THEOREM BiasGoesOff ==
    ASSUME BiasPersist = FALSE
    PROVE  Spec => BiasFallsBack
<1>1. TypeInv /\ [Next]_vars => [LastOneOut => ~bias']_vars
  <2> SUFFICES ASSUME TypeInv, Next, LastOneOut PROVE ~bias'
    BY SMTT(30) DEF vars, LastOneOut
  <2>1. ASSUME NEW s \in Sessions, Step(s) PROVE ~bias'
    BY <2>1, Entries, Zenon DEF LastOneOut, BiasOff, BiasAfter
  <2>2. ASSUME NEW s \in Sessions, frequency_changed(s) \/ sample_rate_changed(s)
        PROVE  FALSE
    BY <2>2, Tells DEF LastOneOut
  <2> QED  BY <2>1, <2>2 DEF Next
<1> QED  BY <1>1, TypeAlways, PTL DEF Spec, BiasFallsBack

-----------------------------------------------------------------------------
(* The channel                                                             *)

(* The steps that have no part in it.                                      *)
Elsewhere(s) ==
    /\ UNCHANGED <<state, owner>>
    /\ slot'.active = slot.active
    /\ pc[s] \notin {"bridge_start"}
    /\ pc'[s] \notin {"add_slot", "bridge_start"}

(* All but seven actions are such steps.                                   *)
LEMMA ElsewhereStep ==
    ASSUME TypeInv, NEW s \in Sessions, Step(s)
    PROVE  \/ Elsewhere(s)
           \/ OpenStream(s) \/ StartRx(s) \/ AddSlot(s) \/ BridgeStart(s)
           \/ StopRx(s) \/ CloseStream(s) \/ Disconnect(s)
<1>1. pc \in [Sessions -> Labels] /\ slot \in Slots
  BY DEF TypeInv, TypeOK
<1> USE DEF Elsewhere
<1>2. CASE SetFrequency(s)
  BY <1>1, <1>2, Zenon DEF SetFrequency, Receives, Keep, Goto
<1>3. CASE ApplyFrequency(s)
  BY <1>1, <1>3 DEF ApplyFrequency, rtl_set_frequency, Keep, Goto
<1>4. CASE SetSampleRate(s)
  BY <1>1, <1>4 DEF SetSampleRate, Receives, Keep, Goto
<1>5. CASE ApplySampleRate(s)
  BY <1>1, <1>5 DEF ApplySampleRate, rtl_set_sample_rate, Keep, Goto
<1>6. CASE SetGain(s)
  BY <1>1, <1>6 DEF SetGain, Receives, Keep, Goto
<1>7. CASE ApplyGain(s)
  BY <1>1, <1>7 DEF ApplyGain, AfterGain, Keep, Goto
<1>8. CASE SetAgc(s)
  BY <1>1, <1>8 DEF SetAgc, Receives, Keep, Goto
<1>9. CASE ApplyAgc(s)
  BY <1>1, <1>9 DEF ApplyAgc, Keep, Goto
<1>10. CASE SetBiasTee(s)
  BY <1>1, <1>10 DEF SetBiasTee, Receives, Keep, Goto
<1>11. CASE ApplyBiasTee(s)
  BY <1>1, <1>11 DEF ApplyBiasTee, Return, Keep, Goto
<1>12. CASE SetPpm(s)
  BY <1>1, <1>12 DEF SetPpm, Receives, Keep, Goto
<1>13. CASE ApplyPpm(s)
  BY <1>1, <1>13 DEF ApplyPpm, Return, Keep, Goto
<1>14. CASE SetDirectSampling(s)
  BY <1>1, <1>14 DEF SetDirectSampling, Receives, Keep, Goto
<1>15. CASE ApplyMode(s)
  BY <1>1, <1>15 DEF ApplyMode, Return, Keep, Goto
<1>16. CASE ClampFrequency(s)
  BY <1>1, <1>16 DEF ClampFrequency, rtl_set_frequency, AfterClamp, Keep, Goto
<1>17. CASE ClampRate(s)
  BY <1>1, <1>17 DEF ClampRate, rtl_set_sample_rate, Keep, Goto
<1>18. CASE UpdatePayload(s)
  BY <1>1, <1>18 DEF UpdatePayload, Slots, Keep, Goto
<1>19. CASE SendContext(s)
  BY <1>1, <1>19 DEF SendContext, Return, WithContext, Slots, Keep, Goto
<1>20. CASE Connect(s)
  BY <1>1, <1>20 DEF Connect, Keep, Goto
<1>21. CASE BiasOff(s)
  BY <1>1, <1>21 DEF BiasOff, Keep, Goto
<1> QED
  BY <1>2, <1>3, <1>4, <1>5, <1>6, <1>7, <1>8, <1>9, <1>10, <1>11, <1>12, <1>13, <1>14,
     <1>15, <1>16, <1>17, <1>18, <1>19, <1>20, <1>21, Zenon DEF Step

(* The channel's holder and the VITA slot, under any interleaving.         *)
LEMMA OwnerStep ==
    ASSUME TypeInv, OwnerInv, NEW s \in Sessions, Step(s)
    PROVE  OwnerInv'
<1>1. /\ pc \in [Sessions -> Labels] /\ slot \in Slots
      /\ state \in [Sessions -> {"IDLE", "STREAM_OPEN", "STREAMING"}]
      /\ \A t \in Sessions \ {s} : pc'[t] = pc[t]
  BY Writers, SMTT(30) DEF Frame, TypeInv, TypeOK
<1>2. CASE Elsewhere(s)
  BY <1>1, <1>2 DEF Elsewhere, OwnerInv
<1>3. CASE OpenStream(s)
  BY <1>1, <1>3, SessionsAssumption DEF OpenStream, stream_open, NoOwner, OwnerInv
<1>4. CASE StartRx(s)
  BY <1>1, <1>4 DEF StartRx, Receives, Keep, Goto, OwnerInv
<1>5. CASE AddSlot(s)
  BY <1>1, <1>5 DEF AddSlot, WithContext, Keep, Goto, OwnerInv
<1>6. CASE BridgeStart(s)
  BY <1>1, <1>6 DEF BridgeStart, Return, Keep, Goto, OwnerInv
<1>7. CASE StopRx(s)
  BY <1>1, <1>7 DEF StopRx, Receives, NoSlot, OwnerInv
<1>8. CASE CloseStream(s)
  BY <1>1, <1>8, SessionsAssumption
     DEF CloseStream, Receives, ReleaseStream, NoSlot, NoOwner, OwnerInv
<1>9. CASE Disconnect(s)
  BY <1>1, <1>9, SessionsAssumption
     DEF Disconnect, Receives, Goto, ReleaseStream, NoSlot, NoOwner, OwnerInv
<1> QED  BY <1>2, <1>3, <1>4, <1>5, <1>6, <1>7, <1>8, <1>9, ElsewhereStep, SMTT(30)

(* It holds in every state, whatever interleaves.                          *)
LEMMA OwnerAlways == Spec => []OwnerInv
<1>1. Init => OwnerInv
  BY SessionsAssumption DEF Init, OwnerInv, NoOwner, NoSlot
<1>2. TypeInv /\ OwnerInv /\ [Next]_vars => OwnerInv'
  <2> SUFFICES ASSUME TypeInv, OwnerInv, [Next]_vars PROVE OwnerInv'
    OBVIOUS
  <2>1. CASE UNCHANGED vars
    BY <2>1 DEF OwnerInv, vars
  <2>2. ASSUME NEW s \in Sessions, Step(s) PROVE OwnerInv'
    BY <2>2, OwnerStep, SMTT(30)
  <2>3. ASSUME NEW s \in Sessions, frequency_changed(s) \/ sample_rate_changed(s)
        PROVE  OwnerInv'
    <3>1. state' = state /\ owner' = owner /\ slot' = slot
      BY <2>3, Tells
    <3>2. \A t \in Sessions :
            /\ pc'[t] \in {"add_slot", "bridge_start"} => pc'[t] = pc[t]
            /\ pc[t] = "bridge_start" => pc'[t] = pc[t]
      BY <2>3, Tells
    <3> QED  BY <3>1, <3>2 DEF OwnerInv
  <2> QED  BY <2>1, <2>2, <2>3 DEF Next
<1> QED  BY <1>1, <1>2, TypeAlways, PTL DEF Spec

(* A client that may configure the device and has no stream open: nobody   *)
(* has one.                                                                *)
LEMMA NobodyStreams ==
    ASSUME TypeInv, OwnerInv, NEW s \in Sessions, may_configure(s), ~stream_open(s)
    PROVE  slot.active = FALSE
<1>1. state \in [Sessions -> {"IDLE", "STREAM_OPEN", "STREAMING"}] /\ slot.active \in BOOLEAN
  BY DEF TypeInv, TypeOK, Slots
<1>2. state[s] = "IDLE"
  BY <1>1 DEF stream_open
<1>3. owner = NoOwner
  BY <1>2 DEF may_configure, OwnerInv
<1>4. \A t \in Sessions : state[t] = "IDLE"
  BY <1>3, SessionsAssumption DEF OwnerInv, NoOwner
<1> QED  BY <1>1, <1>4 DEF OwnerInv

-----------------------------------------------------------------------------
(* One request at a time                                                   *)

(* Nobody else is busy when a session takes a step.                        *)
Others(s) == \A t \in Sessions \ {s} :
    /\ pc[t] \in {"gone", "recv"}
    /\ pc'[t] = pc[t] /\ arg'[t] = arg[t]

(* A request is read only when no other is being handled.                  *)
LEMMA LoneStep ==
    ASSUME TypeInv, Orderly, Alone, NEW s \in Sessions, Step(s)
    PROVE  Others(s) /\ Alone'
<1>1. \A t \in Sessions \ {s} : pc'[t] = pc[t] /\ arg'[t] = arg[t]
  BY Writers DEF Frame
<1>2. \A t \in Sessions \ {s} : pc[t] \in {"gone", "recv"}
  <2>1. CASE pc[s] \in {"gone", "recv"}
    BY <2>1, Exits DEF Orderly
  <2>2. CASE pc[s] \notin {"gone", "recv"}
    BY <2>2 DEF Alone, Busy
  <2> QED  BY <2>1, <2>2
<1> QED  BY <1>1, <1>2, SMTT(30) DEF Others, Alone, Busy

(* A manual gain is applied only while agc is off.                         *)
LEMMA AgcStep ==
    ASSUME TypeInv, AgcInv, NEW s \in Sessions, Step(s), Others(s)
    PROVE  AgcInv'
<1>1. Frame(s)
  BY Writers
<1>2. AgcInControl'
  <2>1. CASE pc[s] = "set_gain"
    BY <1>1, <2>1, Zenon DEF Frame, AgcInv, AgcInControl
  <2>2. CASE pc[s] = "set_agc"
    <3>1. ApplyAgc(s)
      BY <2>2, Exits
    <3>2. CASE arg[s] = 1
      BY <3>1, <3>2 DEF ApplyAgc, AgcInControl
    <3>3. CASE arg[s] # 1
      BY <3>1, <3>3, Zenon DEF ApplyAgc, AgcInControl
    <3> QED  BY <3>2, <3>3
  <2>3. CASE pc[s] \notin {"set_gain", "set_agc"}
    BY <1>1, <2>3, Zenon DEF Frame, AgcInv, AgcInControl
  <2> QED  BY <2>1, <2>2, <2>3
<1>3. ASSUME NEW t \in Sessions, pc'[t] = "set_gain" PROVE agc' = FALSE
  <2>1. SetGain(s)
    BY <1>3, Entries DEF Others
  <2>2. agc \in BOOLEAN /\ agc' = agc /\ ~agc
    BY <2>1, SMTT(30) DEF SetGain, GainMayChange, levels, TypeInv, TypeOK
  <2> QED  BY <2>2, SMTT(30)
<1> QED  BY <1>2, <1>3, Zenon DEF AgcInv

(* Nothing that changes the rate or the mode runs under a stream.          *)
LEMMA AnchorStep ==
    ASSUME TypeInv, OwnerInv, AnchorInv, NEW s \in Sessions, Step(s), Others(s)
    PROVE  AnchorInv'
<1>1. /\ Frame(s) /\ slot \in Slots
      /\ pc \in [Sessions -> Labels] /\ arg \in [Sessions -> Int]
  BY Writers DEF TypeInv, TypeOK
<1>2. Anchored'
  <2>1. CASE pc[s] \in Changing
    <3>1. slot.active = FALSE
      BY <2>1 DEF AnchorInv
    <3>2. slot' = slot
      BY <1>1, <2>1, <3>1, Exits DEF Frame, Changing, UpdatePayload
    <3> QED  BY <3>1, <3>2 DEF Anchored
  <2>2. CASE pc[s] = "add_slot"
    <3>1. AddSlot(s) /\ arg[s] = PayloadFmt(mode)
      BY <2>2, Exits DEF AnchorInv
    <3>2. slot'.rate = rate /\ slot'.pf = arg[s] /\ rate' = rate /\ mode' = mode
      BY <3>1 DEF AddSlot, WithContext, tuning
    <3> QED  BY <3>1, <3>2 DEF Anchored
  <2>3. CASE pc[s] = "send_context"
    <3>1. SendContext(s)
      BY <2>3, Exits
    <3>2. slot'.active = slot.active /\ slot'.rate = slot.rate /\ slot'.pf = slot.pf
      BY <1>1, <3>1, SMTT(30) DEF SendContext, WithContext, Slots
    <3> QED  BY <3>1, <3>2 DEF SendContext, tuning, AnchorInv, Anchored
  <2>4. CASE pc[s] \notin Changing \cup {"add_slot", "send_context"}
    <3>1. rate' = rate /\ mode' = mode /\ slot' \in {slot, NoSlot}
      BY <1>1, <2>4 DEF Frame, Changing
    <3>2. slot' = slot \/ slot'.active = FALSE
      BY <3>1 DEF NoSlot
    <3> QED  BY <3>1, <3>2 DEF AnchorInv, Anchored
  <2> QED  BY <2>1, <2>2, <2>3, <2>4
<1>3. ASSUME NEW t \in Sessions, pc'[t] \in Changing PROVE slot'.active = FALSE
  <2>1. t = s
    BY <1>3 DEF Others, Changing
  <2>2. CASE SetSampleRate(s) \/ SetDirectSampling(s)
    BY <2>2, NobodyStreams, Zenon DEF SetSampleRate, SetDirectSampling, RateMayChange,
           ModeMayChange
  <2>3. CASE ApplyMode(s) \/ ClampFrequency(s) \/ ClampRate(s)
    BY <2>3 DEF ApplyMode, ClampFrequency, ClampRate, AnchorInv, Changing
  <2> QED  BY <1>3, <2>1, <2>2, <2>3, Entries, Zenon DEF Changing
<1>4. ASSUME NEW t \in Sessions, pc'[t] = "add_slot" PROVE arg'[t] = PayloadFmt(mode')
  <2>1. t = s /\ StartRx(s)
    BY <1>4, Entries DEF Others
  <2> QED  BY <1>1, <2>1, SMTT(30) DEF StartRx, Keep, tuning
<1> QED  BY <1>2, <1>3, <1>4, Zenon DEF AnchorInv

(* The limits of the mode in force hold again once the side effects of a   *)
(* direct_sampling change are done.                                        *)
LEMMA LimitsStep ==
    ASSUME TypeInv, Orderly, LimitsInv, NEW s \in Sessions, Step(s), Others(s)
    PROVE  LimitsInv'
<1>1. /\ Frame(s) /\ DeviceFails = FALSE /\ mode \in Int /\ freq \in Nat
      /\ pc \in [Sessions -> Labels] /\ arg \in [Sessions -> Int]
  BY Writers, Numbers, RegimesAssumption
     DEF TypeInv, TypeOK, Orderly, DeviceFails
<1>2. ASSUME \A t \in Sessions : pc'[t] # "clamp_frequency" PROVE Within(freq)'
  <2>1. CASE pc[s] = "set_mode"
    BY <1>1, <1>2, <2>1, Exits DEF ApplyMode, Keep, Goto
  <2>2. CASE pc[s] = "clamp_frequency"
    <3>1. ClampFrequency(s)
      BY <2>2, Exits
    <3>2. freq' = Clamped(freq) /\ mode' = mode
      BY <1>1, <3>1 DEF ClampFrequency, rtl_set_frequency, AppliedFreq
    <3> QED  BY <1>1, <3>2 DEF Within, Clamped, FreqMin, FreqMax
  <2>3. CASE pc[s] = "set_frequency"
    <3>1. ApplyFrequency(s) /\ Within(arg[s])
      BY <2>3, Exits DEF LimitsInv
    <3>2. freq' = arg[s] /\ mode' = mode
      BY <1>1, <3>1, SMTT(30) DEF ApplyFrequency, rtl_set_frequency, AppliedFreq
    <3> QED  BY <3>1, <3>2, SMTT(30) DEF Within
  <2>4. CASE pc[s] \notin {"set_mode", "clamp_frequency", "set_frequency"}
    <3>1. \A t \in Sessions : pc[t] # "clamp_frequency"
      BY <2>4 DEF Others
    <3> QED  BY <1>1, <2>4, <3>1, SMTT(30) DEF Frame, LimitsInv, Within
  <2> QED  BY <2>1, <2>2, <2>3, <2>4
<1>3. ASSUME \A t \in Sessions :
                pc'[t] \notin {"clamp_frequency", "tell_clamped_frequency", "clamp_rate"}
      PROVE  rate_req' \in RateList(mode')
  <2>1. CASE pc[s] \in {"set_mode", "clamp_frequency"}
    BY <1>1, <1>3, <2>1, Exits
       DEF ApplyMode, ClampFrequency, rtl_set_frequency, AfterClamp, Keep, Goto
  <2>2. CASE pc[s] = "clamp_rate"
    <3>1. ClampRate(s)
      BY <2>2, Exits
    <3>2. \/ rate_req' = rate_req /\ rate_req \in RateList(mode)
          \/ rate_req' = PreferredRate(mode)
      BY <3>1 DEF ClampRate, rtl_set_sample_rate
    <3>3. mode' = mode /\ PreferredRate(mode) \in RateList(mode)
      BY <3>1 DEF ClampRate, PreferredRate, RateList
    <3> QED  BY <3>2, <3>3
  <2>3. CASE pc[s] = "set_sample_rate"
    BY <2>3, Exits, ZenonT(30) DEF ApplySampleRate, rtl_set_sample_rate, LimitsInv
  <2>4. CASE pc[s] \notin {"set_mode", "clamp_frequency", "clamp_rate", "set_sample_rate"}
    <3>1. \A t \in Sessions :
            pc[t] \notin {"clamp_frequency", "tell_clamped_frequency", "clamp_rate"}
      BY <2>4, Exits DEF Others
    <3> QED  BY <1>1, <2>4, <3>1, SMTT(30) DEF Frame, LimitsInv
  <2> QED  BY <2>1, <2>2, <2>3, <2>4, SMTT(30)
<1>4. ASSUME NEW t \in Sessions
      PROVE  /\ pc'[t] = "set_frequency" => Within(arg[t])'
             /\ pc'[t] = "set_sample_rate" => arg'[t] \in RateList(mode')
  <2>1. CASE t = s
    <3>1. pc'[s] = "set_frequency" => Within(arg[s])'
      BY <1>1, Entries, Zenon DEF SetFrequency, Keep, tuning, Within
    <3>2. pc'[s] = "set_sample_rate" => arg'[s] \in RateList(mode')
      BY <1>1, Entries, ZenonT(30) DEF SetSampleRate, Keep, tuning
    <3> QED  BY <2>1, <3>1, <3>2
  <2>2. CASE t # s
    BY <2>2 DEF Others
  <2> QED  BY <2>1, <2>2, ZenonT(30)
<1> QED  BY <1>2, <1>3, <1>4, ZenonT(30) DEF LimitsInv

(* What a handler applied it tells before it answers.                      *)
LEMMA ToldStep ==
    ASSUME TypeInv, Orderly, ToldInv, NEW s \in Sessions, Step(s), Others(s), told' = told
    PROVE  ToldInv'
<1>1. /\ Frame(s) /\ DeviceFails = FALSE
      /\ pc \in [Sessions -> Labels] /\ arg \in [Sessions -> Int]
  BY Writers, RegimesAssumption DEF TypeInv, TypeOK, Orderly, DeviceFails
<1>2. told.freq = freq /\ told.rate = rate_req
  BY Exits, ZenonT(30) DEF Others, ToldInv, TellsFreq, TellsRate
<1>3. \/ freq' = freq /\ pc'[s] \notin TellsFreq
      \/ pc'[s] \in TellsFreq /\ arg'[s] = freq'
  <2>1. CASE pc[s] = "set_frequency"
    BY <1>1, <2>1, Exits, SMTT(30)
       DEF ApplyFrequency, rtl_set_frequency, Keep, Goto, TellsFreq
  <2>2. CASE pc[s] = "clamp_frequency"
    BY <1>1, <2>2, Exits, SMTT(30)
       DEF ClampFrequency, rtl_set_frequency, AfterClamp, Keep, Goto, TellsFreq
  <2>3. CASE pc[s] \notin {"set_frequency", "clamp_frequency"}
    BY <1>1, <2>3, Entries DEF Frame, TellsFreq, ApplyFrequency, ClampFrequency
  <2> QED  BY <2>1, <2>2, <2>3
<1>4. \/ rate_req' = rate_req /\ pc'[s] \notin TellsRate
      \/ pc'[s] \in TellsRate /\ arg'[s] = rate_req'
  <2>1. CASE pc[s] = "set_sample_rate"
    BY <1>1, <2>1, Exits, SMTT(30)
       DEF ApplySampleRate, rtl_set_sample_rate, Keep, Goto, TellsRate
  <2>2. CASE pc[s] = "clamp_rate"
    BY <1>1, <2>2, Exits DEF ClampRate, rtl_set_sample_rate, Keep, Goto, TellsRate
  <2>3. CASE pc[s] \notin {"set_sample_rate", "clamp_rate"}
    BY <1>1, <2>3, Entries, Zenon DEF Frame, TellsRate, ApplySampleRate, ClampRate
  <2> QED  BY <2>1, <2>2, <2>3, ZenonT(30)
<1>5. \A t \in Sessions : /\ pc'[t] \in TellsFreq => arg'[t] = freq'
                          /\ pc'[t] \in TellsRate => arg'[t] = rate_req'
  <2>1. ASSUME NEW t \in Sessions, t # s
        PROVE  pc'[t] \notin TellsFreq /\ pc'[t] \notin TellsRate
    BY <2>1, Zenon DEF Others, TellsFreq, TellsRate
  <2> QED  BY <1>3, <1>4, <2>1, Zenon
<1>6. (\A t \in Sessions : pc'[t] \notin TellsFreq) => told'.freq = freq'
  BY <1>2, <1>3, Zenon
<1>7. (\A t \in Sessions : pc'[t] \notin TellsRate) => told'.rate = rate_req'
  BY <1>2, <1>4, Zenon
<1> QED  BY <1>5, <1>6, <1>7 DEF ToldInv

(* An event is told while nobody else is busy.                             *)
LEMMA OrderlyTell ==
    ASSUME TypeInv, Orderly, OrderlyInv, NEW s \in Sessions,
           frequency_changed(s) \/ sample_rate_changed(s)
    PROVE  Alone' /\ AnchorInv' /\ AgcInv' /\ LimitsInv' /\ ToldInv'
<1>1. Alone /\ AnchorInv /\ AgcInv /\ LimitsInv /\ ToldInv
  BY SMTT(30) DEF OrderlyInv
<1>2. pc[s] \notin {"gone", "recv"}
  BY Tells DEF TellsFreq, TellsRate
<1>3. Others(s)
  BY <1>1, <1>2, Tells DEF Others, Alone, Busy
<1>4. Alone'
  BY <1>3, ZenonT(30) DEF Others, Alone, Busy
<1>5. AnchorInv'
  BY <1>1, <1>3, Tells DEF Others, AnchorInv, Anchored, tuning, Changing, TellsFreq,
         TellsRate
<1>6. AgcInv'
  BY <1>1, <1>3, Tells DEF Others, AgcInv, AgcInControl, levels
<1>7. LimitsInv'
  <2>1. /\ mode' = mode /\ freq' = freq /\ rate_req' = rate_req
        /\ pc[s] \in TellsFreq \cup TellsRate
    BY Tells, ZenonT(30) DEF tuning, TellsFreq, TellsRate
  <2>2. Within(freq) /\ Within(freq)'
    <3>1. \A t \in Sessions : pc[t] # "clamp_frequency"
      BY <1>3, <2>1 DEF Others, TellsFreq, TellsRate
    <3>2. Within(freq)
      BY <1>1, <3>1 DEF LimitsInv
    <3> QED  BY <2>1, <3>2 DEF Within
  <2>3. CASE pc'[s] = "clamp_rate"
    BY <1>3, <2>2, <2>3 DEF Others, LimitsInv
  <2>4. CASE pc'[s] # "clamp_rate"
    <3>1. \A t \in Sessions :
            pc[t] \notin {"clamp_frequency", "tell_clamped_frequency", "clamp_rate"}
      BY <1>3, <2>4, Tells DEF Others, TellsFreq, TellsRate
    <3>2. rate_req' \in RateList(mode')
      <4>1. rate_req \in RateList(mode)
        BY <1>1, <3>1 DEF LimitsInv
      <4> QED  BY <2>1, <4>1
    <3>3. \A t \in Sessions : pc'[t] \notin {"set_frequency", "set_sample_rate"}
      <4>1. pc'[s] \notin {"set_frequency", "set_sample_rate"}
        BY Tells
      <4> QED  BY <1>3, <4>1 DEF Others
    <3> QED  BY <2>2, <3>2, <3>3 DEF LimitsInv
  <2> QED  BY <2>3, <2>4
<1>8. ToldInv'
  BY <1>1, <1>3, Tells DEF Others, ToldInv, tuning, TellsFreq, TellsRate
<1> QED  BY <1>4, <1>5, <1>6, <1>7, <1>8

(* The bridge comes up within the limits, with nothing left to tell.       *)
LEMMA OrderlyInit == Init => OrderlyInv
<1> SUFFICES ASSUME Init PROVE Alone /\ AnchorInv /\ AgcInv /\ LimitsInv /\ ToldInv
  BY DEF OrderlyInv
<1>1. Alone
  BY DEF Init, Alone, Busy
<1>2. AnchorInv
  BY DEF Init, AnchorInv, Anchored, NoSlot, Changing
<1>3. AgcInv
  BY DEF Init, AgcInv, AgcInControl
<1>4. LimitsInv
  BY DEF Init, LimitsInv, Within, FreqMin, FreqMax, DefaultFreq, RateList, PreferredRate
<1>5. ToldInv
  BY DEF Init, ToldInv, TellsFreq, TellsRate
<1> QED  BY <1>1, <1>2, <1>3, <1>4, <1>5

(* Together they are inductive, on the channel's invariant.                *)
LEMMA OrderlyInductive ==
    TypeInv /\ OwnerInv /\ OrderlyInv /\ [Next]_vars => OrderlyInv'
<1> SUFFICES ASSUME TypeInv, OwnerInv, OrderlyInv, [Next]_vars, Orderly'
             PROVE  Alone' /\ AnchorInv' /\ AgcInv' /\ LimitsInv' /\ ToldInv'
  BY DEF OrderlyInv
<1>1. regime' = regime
  BY DEF Next, vars
<1>2. Orderly /\ Alone /\ AnchorInv /\ AgcInv /\ LimitsInv /\ ToldInv
  BY <1>1, SMTT(30) DEF Orderly, Concurrent, DeviceFails, OrderlyInv
<1>3. CASE UNCHANGED vars
  BY <1>2, <1>3 DEF vars, tuning, levels, Alone, Busy, AnchorInv, Anchored, AgcInv,
                    AgcInControl, LimitsInv, Within, ToldInv
<1>4. ASSUME NEW s \in Sessions, Step(s), told' = told
      PROVE  Alone' /\ AnchorInv' /\ AgcInv' /\ LimitsInv' /\ ToldInv'
  <2>1. Others(s) /\ Alone'
    BY <1>2, <1>4, LoneStep
  <2> QED  BY <1>2, <1>4, <2>1, AnchorStep, AgcStep, LimitsStep, ToldStep
<1>5. ASSUME NEW s \in Sessions, frequency_changed(s) \/ sample_rate_changed(s)
      PROVE  Alone' /\ AnchorInv' /\ AgcInv' /\ LimitsInv' /\ ToldInv'
  BY <1>2, <1>5, OrderlyTell
<1> QED  BY <1>3, <1>4, <1>5 DEF Next

(* They hold in every state.                                               *)
LEMMA OrderlyAlways == Spec => []OrderlyInv
BY OrderlyInit, OrderlyInductive, TypeAlways, OwnerAlways, PTL DEF Spec

(* One request at a time, on a device that does what it is told: outside a *)
(* direct_sampling change the frequency and the requested rate lie in what *)
(* get_capabilities publishes for the mode in force.                       *)
THEOREM LimitsHold == Spec => []PublishedLimits
<1>1. OrderlyInv => PublishedLimits
  BY DEF OrderlyInv, LimitsInv, Within, PublishedLimits, InLimits, Idle
<1> QED  BY OrderlyAlways, <1>1, PTL

(* One request at a time: a stream keeps the rate and the signal type it   *)
(* was started with, which are those of the samples.                       *)
THEOREM StreamsStayAnchored == Spec => []StreamAnchored
<1>1. OrderlyInv => StreamAnchored
  BY DEF OrderlyInv, AnchorInv, StreamAnchored
<1> QED  BY OrderlyAlways, <1>1, PTL

(* One request at a time: while agc is on the tuner sets its own gain.     *)
THEOREM AgcStaysInControl == Spec => []AgcManages
<1>1. OrderlyInv => AgcManages
  BY DEF OrderlyInv, AgcInv, AgcManages
<1> QED  BY OrderlyAlways, <1>1, PTL

(* Both together: the gain that rf_gain and agc requests bring about.      *)
THEOREM GainIsInForce == Spec => []GainInForce
<1>1. ManualGain /\ AgcManages => GainInForce
  BY DEF GainInForce
<1> QED  BY ManualGainApplied, AgcStaysInControl, <1>1, PTL

(* One request at a time: when every handler has answered, the events have *)
(* told the frequency and the requested rate in force.                     *)
THEOREM EventsTellTheTruth == Spec => []ToldIsCurrent
<1>1. TypeInv /\ OrderlyInv => ToldIsCurrent
  <2> SUFFICES ASSUME TypeInv, OrderlyInv, Orderly, Idle
               PROVE  told = [freq |-> freq, rate |-> rate_req]
    BY DEF ToldIsCurrent, EventsAreCurrent
  <2>1. told.freq = freq /\ told.rate = rate_req
    BY DEF OrderlyInv, ToldInv, Idle, TellsFreq, TellsRate
  <2> QED  BY <2>1 DEF TypeInv, TypeOK
<1> QED  BY TypeAlways, OrderlyAlways, <1>1, PTL
=============================================================================
