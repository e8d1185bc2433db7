---------------------------- MODULE TunerConfig ----------------------------
(***************************************************************************)
(* The tuner's configuration: set_frequency, set_sample_rate and           *)
(* set_control while other sessions configure, stream and disconnect.      *)
(*                                                                         *)
(*   cp/cp_commands.c  the handlers, may_configure and the side effects of *)
(*                     a direct_sampling change                            *)
(*   rtl/rtl_bridge.c  the g_* settings, each written under g_rtl_mutex    *)
(*   vita/vita_tx.c    what a stream is stamped and described with         *)
(*   cp/cp_session.c   session_destroy and the bias tee                    *)
(*                                                                         *)
(* A handler first checks (may_configure, the session's state, the range   *)
(* or list in force) and then applies under g_rtl_mutex or s_sess_mutex.   *)
(* The check and each critical section are steps of their own.  A request  *)
(* that is refused is a stuttering step.  RxStream shows that one session  *)
(* at a time streams, so one VITA slot is kept here; hello is sent once.   *)
(*                                                                         *)
(* A change is announced by an event after it was applied, under a mutex   *)
(* of its own (s_table_mutex), so the event is a step of its own as well.  *)
(***************************************************************************)
EXTENDS Integers, FiniteSets

CONSTANTS
    Sessions,      \* session slots
    Modes,         \* the direct_sampling values in use
    GainSteps,     \* the tuner's gain table
    StartupBias,   \* --bias-tee
    BiasPersist,   \* --bias-tee-persist
    Regimes        \* the surroundings considered: may a request arrive while
                   \* another is handled, may librtlsdr refuse a setting, and
                   \* which frequencies, rates and corrections clients ask for

ASSUME ModesAssumption == Modes \subseteq 0 .. 2
ASSUME GainStepsAssumption == GainSteps \subseteq Nat /\ GainSteps # {}
ASSUME BiasAssumption == /\ StartupBias \in BOOLEAN
                         /\ BiasPersist \in BOOLEAN
                         /\ BiasPersist => StartupBias
ASSUME RegimesAssumption == \A r \in Regimes :
    /\ r.overlap \in BOOLEAN /\ r.refuses \in BOOLEAN
    /\ r.freqs \cup r.rates \subseteq Nat \ {0}
    /\ r.ppms \subseteq -100 .. 100
ASSUME SessionsAssumption == 0 \notin Sessions

NoOwner == 0
AutoGain == -1     \* the tuner sets its own gain
NoArg == 0

SAMPLING_NORMAL == 0    \* the direct modes are 1 and 2
COMPLEX == 1            \* VITA_PAYLOAD_FMT_COMPLEX
REAL == 2               \* VITA_PAYLOAD_FMT_REAL

(* RTL_FREQ_MIN/MAX_*, on a scale with the five values the code tells      *)
(* apart: 1 = 100 kHz, 2 = 500 kHz, 3 = RTL_DEFAULT_FREQ, 4 = 30 MHz,      *)
(* 5 = 1766 MHz.                                                           *)
DefaultFreq == 3
FreqMin(m) == IF m = SAMPLING_NORMAL THEN 2 ELSE 1
FreqMax(m) == IF m = SAMPLING_NORMAL THEN 5 ELSE 4

(* RTL_SAMPLE_RATES_* and RTL_DEFAULT_RATE_*, in ksps.                     *)
RateList(m) == IF m = SAMPLING_NORMAL THEN {250, 1024, 1536, 1800, 2048, 2400}
                            ELSE {250, 512, 1024, 2048}
PreferredRate(m) == IF m = SAMPLING_NORMAL THEN 2048 ELSE 1024

(* sampling_mode_payload_fmt                                               *)
PayloadFmt(m) == IF m = SAMPLING_NORMAL THEN COMPLEX ELSE REAL

VARIABLES
    regime,    \* one of Regimes, for the whole run
    pc,        \* the next step of a session's thread; "gone": no session
    arg,       \* the value its handler will apply
    state,     \* Session.state
    owner,     \* s_rx_owner
    mode,      \* g_sampling_mode
    freq,      \* g_freq_hz
    rate,      \* g_rate_sps, the rate the samples have
    rate_req,  \* g_rate_requested_sps
    gain,      \* g_gain_tenth_db
    agc,       \* g_agc_enabled
    tuner,     \* the gain the tuner applies, or AutoGain
    bias,      \* g_bias_tee_enabled
    ppm,       \* g_ppm_correction
    told,      \* the frequency and the rate the last change events gave
    slot       \* the VITA session: rate_hz_anchor, payload_fmt_word0 and
               \* what the last Context packet said

tuning == <<mode, freq, rate, rate_req>>
levels == <<gain, agc, tuner, bias, ppm>>
vars == <<regime, pc, arg, state, owner, tuning, levels, slot, told>>

Concurrent == regime.overlap
DeviceFails == regime.refuses

NoSlot == [active |-> FALSE, rate |-> 0, pf |-> 0, ctx_ref |-> 0, ctx_pf |-> 0]
Slots == [active : BOOLEAN, rate : Nat, pf : Nat, ctx_ref : Nat, ctx_pf : Nat]
Labels == {"gone", "recv", "set_frequency", "set_sample_rate", "set_gain",
           "set_agc", "set_bias_tee", "set_ppm", "set_mode", "clamp_frequency",
           "clamp_rate", "update_payload", "send_context", "tell_frequency",
           "tell_rate", "tell_clamped_frequency", "tell_clamped_rate",
           "add_slot", "bridge_start", "bias_off"}

-----------------------------------------------------------------------------
Goto(s, label) == pc' = [pc EXCEPT ![s] = label]

(* The handler keeps v and goes on to the step that applies it.            *)
Keep(s, v, label) == arg' = [arg EXCEPT ![s] = v] /\ Goto(s, label)

Return(s) == Keep(s, NoArg, "recv")

Receives(s) ==
    /\ pc[s] = "recv"
    /\ Concurrent \/ \A t \in Sessions : pc[t] \in {"gone", "recv"}

(* Fault: a client that does not hold the channel may configure it.        *)
may_configure_Anyone(s) == TRUE

(* cp_rx_owned_by_other, read under s_table_mutex and then let go of.      *)
may_configure(s) == owner \in {NoOwner, s}

stream_open(s) == state[s] \in {"STREAM_OPEN", "STREAMING"}

Init ==
    /\ regime \in Regimes
    /\ pc = [s \in Sessions |-> "gone"]
    /\ arg = [s \in Sessions |-> NoArg]
    /\ state = [s \in Sessions |-> "IDLE"]
    /\ owner = NoOwner
    /\ mode \in Modes
    /\ freq = DefaultFreq
    /\ rate = PreferredRate(mode)
    /\ rate_req = rate
    /\ gain \in GainSteps
    /\ agc \in BOOLEAN
    /\ tuner = IF agc THEN AutoGain ELSE gain
    /\ bias = StartupBias
    /\ ppm = 0
    /\ told = [freq |-> freq, rate |-> rate_req]
    /\ slot = NoSlot

-----------------------------------------------------------------------------
(* set_frequency and set_sample_rate                                       *)

SetFrequency(s) ==
    /\ Receives(s)
    /\ may_configure(s)
    /\ \E f \in regime.freqs :
          /\ FreqMin(mode) <= f /\ f <= FreqMax(mode)
          /\ Keep(s, f, "set_frequency")
    /\ UNCHANGED <<state, owner, tuning, levels, slot>>

(* rtl_set_frequency: the frequency read back is recorded and returned; a  *)
(* read-back of 0 is an error and records nothing.                         *)
AppliedFreq(f) == {f} \cup (IF DeviceFails THEN {freq} ELSE {})

rtl_set_frequency(s, f, applied_label, failed_label) ==
    \/ \E a \in AppliedFreq(f) : freq' = a /\ Keep(s, a, applied_label)
    \/ DeviceFails /\ UNCHANGED freq /\ Keep(s, NoArg, failed_label)

ApplyFrequency(s) ==
    /\ pc[s] = "set_frequency"
    /\ rtl_set_frequency(s, arg[s], "tell_frequency", "recv")
    /\ UNCHANGED <<state, owner, mode, rate, rate_req, levels, slot>>

RateMayChange(s) == ~stream_open(s)

SetSampleRate(s) ==
    /\ Receives(s)
    /\ may_configure(s)
    /\ RateMayChange(s)
    /\ \E r \in regime.rates \cap RateList(mode) : Keep(s, r, "set_sample_rate")
    /\ UNCHANGED <<state, owner, tuning, levels, slot>>

(* rtl_set_sample_rate: if (applied) g_rate_sps = applied.                 *)
AppliedRate(r) == {r} \cup (IF DeviceFails THEN {rate} ELSE {})

(* The requested rate is recorded even when it was not applied.            *)
rtl_set_sample_rate(s, r, applied_label, failed_label) ==
    /\ rate_req' = r
    /\ \/ rate' \in AppliedRate(r) /\ Keep(s, r, applied_label)
       \/ DeviceFails /\ UNCHANGED rate /\ Keep(s, NoArg, failed_label)

ApplySampleRate(s) ==
    /\ pc[s] = "set_sample_rate"
    /\ rtl_set_sample_rate(s, arg[s], "tell_rate", "recv")
    /\ UNCHANGED <<state, owner, mode, freq, levels, slot>>

-----------------------------------------------------------------------------
(* set_control rf_gain, agc, bias_tee and ppm                               *)

(* Fault: rf_gain is applied while AGC is active.                          *)
GainMayChange_Always == TRUE

(* if (g_agc_enabled) the request is ignored.                              *)
GainMayChange == ~agc

SetGain(s) ==
    /\ Receives(s)
    /\ may_configure(s)
    /\ GainMayChange
    /\ \E g \in GainSteps : Keep(s, g, "set_gain")
    /\ UNCHANGED <<state, owner, tuning, levels, slot>>

(* Fault: the Context packet is left to the next change.                   *)
AfterGain_NoContext == "recv"

AfterGain == "send_context"

(* rtl_set_gain puts the tuner in manual mode, whatever g_agc_enabled is,  *)
(* and reads back the gain the tuner has.                                  *)
ApplyGain(s) ==
    /\ pc[s] = "set_gain"
    /\ gain' \in {arg[s]} \cup (IF DeviceFails THEN {gain} ELSE {})
    /\ tuner' = gain'
    /\ Keep(s, NoArg, AfterGain)
    /\ UNCHANGED <<state, owner, tuning, agc, bias, ppm, slot>>

SetAgc(s) ==
    /\ Receives(s)
    /\ may_configure(s)
    /\ \E en \in {0, 1} : Keep(s, en, "set_agc")
    /\ UNCHANGED <<state, owner, tuning, levels, slot>>

RestoredGain == gain

ApplyAgc(s) ==
    /\ pc[s] = "set_agc"
    /\ agc' = (arg[s] = 1)
    /\ tuner' = IF arg[s] = 1 THEN AutoGain ELSE RestoredGain
    /\ Keep(s, NoArg, "send_context")
    /\ UNCHANGED <<state, owner, tuning, gain, bias, ppm, slot>>

SetBiasTee(s) ==
    /\ Receives(s)
    /\ may_configure(s)
    /\ \E on \in {0, 1} : Keep(s, on, "set_bias_tee")
    /\ UNCHANGED <<state, owner, tuning, levels, slot>>

(* A dongle without a bias tee refuses to switch it on; one that switched  *)
(* it on can switch it off.                                                *)
ApplyBiasTee(s) ==
    /\ pc[s] = "set_bias_tee"
    /\ bias' = (arg[s] = 1) \/ (DeviceFails /\ arg[s] = 1 /\ UNCHANGED bias)
    /\ Return(s)
    /\ UNCHANGED <<state, owner, tuning, gain, agc, tuner, ppm, slot>>

SetPpm(s) ==
    /\ Receives(s)
    /\ may_configure(s)
    /\ \E p \in regime.ppms : Keep(s, p, "set_ppm")
    /\ UNCHANGED <<state, owner, tuning, levels, slot>>

(* rtl_set_ppm: librtlsdr also refuses the correction already in force.    *)
ApplyPpm(s) ==
    /\ pc[s] = "set_ppm"
    /\ ppm' = arg[s] \/ (DeviceFails /\ UNCHANGED ppm)
    /\ Return(s)
    /\ UNCHANGED <<state, owner, tuning, gain, agc, tuner, bias, slot>>

-----------------------------------------------------------------------------
(* set_control direct_sampling                                             *)

ModeMayChange(s) == ~stream_open(s)

SetDirectSampling(s) ==
    /\ Receives(s)
    /\ may_configure(s)
    /\ ModeMayChange(s)
    /\ \E m \in Modes \ {mode} : Keep(s, m, "set_mode")
    /\ UNCHANGED <<state, owner, tuning, levels, slot>>

ApplyMode(s) ==
    /\ pc[s] = "set_mode"
    /\ \/ /\ mode' = arg[s]
          /\ Keep(s, NoArg, "clamp_frequency")
       \/ /\ DeviceFails
          /\ Return(s)
          /\ UNCHANGED mode
    /\ UNCHANGED <<state, owner, freq, rate, rate_req, levels, slot>>

(* Fault: a frequency above the new range is left there.                   *)
Clamped_LowOnly(f) == IF f < FreqMin(mode) THEN FreqMin(mode) ELSE f

Clamped(f) == IF f < FreqMin(mode) THEN FreqMin(mode)
              ELSE IF f > FreqMax(mode) THEN FreqMax(mode) ELSE f

(* Fault: the frequency the daemon chose is announced to nobody.           *)
AfterClamp_Silent == "clamp_rate"

AfterClamp == "tell_clamped_frequency"

(* apply_mode_change_side_effects: frequency, rate, stored Payload Format  *)
(* and Context packets, in this order and under three different mutexes.   *)
ClampFrequency(s) ==
    /\ pc[s] = "clamp_frequency"
    /\ IF Clamped(freq) = freq
       THEN UNCHANGED freq /\ Keep(s, NoArg, "clamp_rate")
       ELSE rtl_set_frequency(s, Clamped(freq), AfterClamp, "clamp_rate")
    /\ UNCHANGED <<state, owner, mode, rate, rate_req, levels, slot>>

ClampRate(s) ==
    /\ pc[s] = "clamp_rate"
    /\ IF rate_req \in RateList(mode)
       THEN UNCHANGED <<rate, rate_req>> /\ Keep(s, NoArg, "update_payload")
       ELSE rtl_set_sample_rate(s, PreferredRate(mode),
                                "tell_clamped_rate", "update_payload")
    /\ UNCHANGED <<state, owner, mode, freq, levels, slot>>

UpdatePayload(s) ==
    /\ pc[s] = "update_payload"
    /\ slot' = IF slot.active THEN [slot EXCEPT !.pf = PayloadFmt(mode)] ELSE slot
    /\ Keep(s, NoArg, "send_context")
    /\ UNCHANGED <<state, owner, tuning, levels>>

(* send_context_locked: the Reference Level is computed from g_gain_tenth  *)
(* _db, so the gain stands for it.                                         *)
WithContext(v) == [v EXCEPT !.ctx_ref = gain, !.ctx_pf = v.pf]

SendContext(s) ==
    /\ pc[s] = "send_context"
    /\ slot' = IF slot.active THEN WithContext(slot) ELSE slot
    /\ Return(s)
    /\ UNCHANGED <<state, owner, tuning, levels>>

-----------------------------------------------------------------------------
(* frequency_changed and sample_rate_changed: cp_broadcast_event, with the *)
(* value the handler applied.  The control_changed events, which report    *)
(* only what a client asked for, are not followed.                         *)

Announce(s, label, next, event) ==
    /\ pc[s] = label
    /\ told' = event
    /\ Keep(s, NoArg, next)
    /\ UNCHANGED <<state, owner, tuning, levels, slot>>

frequency_changed(s) ==
    LET event == [told EXCEPT !.freq = arg[s]]
    IN  \/ Announce(s, "tell_frequency", "recv", event)
        \/ Announce(s, "tell_clamped_frequency", "clamp_rate", event)

sample_rate_changed(s) ==
    LET event == [told EXCEPT !.rate = arg[s]]
    IN  \/ Announce(s, "tell_rate", "recv", event)
        \/ Announce(s, "tell_clamped_rate", "update_payload", event)

-----------------------------------------------------------------------------
(* The stream and the connection, as far as they meet the configuration    *)

Connect(s) ==
    /\ pc[s] = "gone"
    /\ Concurrent \/ \A t \in Sessions : pc[t] \in {"gone", "recv"}
    /\ Goto(s, "recv")
    /\ UNCHANGED <<arg, state, owner, tuning, levels, slot>>

OpenStream(s) ==
    /\ Receives(s)
    /\ ~stream_open(s)
    /\ owner = NoOwner
    /\ owner' = s
    /\ state' = [state EXCEPT ![s] = "STREAM_OPEN"]
    /\ UNCHANGED <<pc, arg, tuning, levels, slot>>

(* start_rx reads g_sampling_mode before it takes s_sess_mutex.            *)
StartRx(s) ==
    /\ Receives(s)
    /\ state[s] = "STREAM_OPEN"
    /\ Keep(s, PayloadFmt(mode), "add_slot")
    /\ UNCHANGED <<state, owner, tuning, levels, slot>>

(* vita_session_add anchors the stream and sends its first Context packet. *)
AddSlot(s) ==
    /\ pc[s] = "add_slot"
    /\ slot' = WithContext([active |-> TRUE, rate |-> rate, pf |-> arg[s],
                            ctx_ref |-> 0, ctx_pf |-> 0])
    /\ Keep(s, NoArg, "bridge_start")
    /\ UNCHANGED <<state, owner, tuning, levels>>

BridgeStart(s) ==
    /\ pc[s] = "bridge_start"
    /\ state' = [state EXCEPT ![s] = "STREAMING"]
    /\ Return(s)
    /\ UNCHANGED <<owner, tuning, levels, slot>>

StopRx(s) ==
    /\ Receives(s)
    /\ state[s] = "STREAMING"
    /\ slot' = NoSlot
    /\ state' = [state EXCEPT ![s] = "STREAM_OPEN"]
    /\ UNCHANGED <<pc, arg, owner, tuning, levels>>

(* close_stream, and the stream's part of session_destroy.                 *)
ReleaseStream(s) ==
    /\ slot' = IF state[s] = "STREAMING" THEN NoSlot ELSE slot
    /\ state' = [state EXCEPT ![s] = "IDLE"]
    /\ owner' = IF owner = s THEN NoOwner ELSE owner

CloseStream(s) ==
    /\ Receives(s)
    /\ stream_open(s)
    /\ ReleaseStream(s)
    /\ UNCHANGED <<pc, arg, tuning, levels>>

Disconnect(s) ==
    /\ Receives(s)
    /\ ReleaseStream(s)
    /\ Goto(s, "bias_off")
    /\ UNCHANGED <<arg, tuning, levels>>

(* Fault: only the session that holds the channel switches it off, and it  *)
(* has already let go of the channel.                                      *)
BiasAfter_OwnerOnly(s) == bias /\ (BiasPersist \/ owner # s)

(* if (g_bias_tee_enabled && !g_bias_tee_persist) rtl_set_bias_tee(0.0)    *)
BiasAfter(s) == bias /\ BiasPersist

BiasOff(s) ==
    /\ pc[s] = "bias_off"
    /\ bias' = BiasAfter(s)
    /\ Goto(s, "gone")
    /\ UNCHANGED <<arg, state, owner, tuning, gain, agc, tuner, ppm, slot>>

Step(s) ==
    \/ SetFrequency(s) \/ ApplyFrequency(s) \/ SetSampleRate(s) \/ ApplySampleRate(s)
    \/ SetGain(s) \/ ApplyGain(s) \/ SetAgc(s) \/ ApplyAgc(s)
    \/ SetBiasTee(s) \/ ApplyBiasTee(s) \/ SetPpm(s) \/ ApplyPpm(s)
    \/ SetDirectSampling(s) \/ ApplyMode(s) \/ ClampFrequency(s) \/ ClampRate(s)
    \/ UpdatePayload(s) \/ SendContext(s)
    \/ Connect(s) \/ OpenStream(s) \/ StartRx(s) \/ AddSlot(s) \/ BridgeStart(s)
    \/ StopRx(s) \/ CloseStream(s) \/ Disconnect(s) \/ BiasOff(s)

Next ==
    /\ \E s \in Sessions : \/ Step(s) /\ UNCHANGED told
                           \/ frequency_changed(s) \/ sample_rate_changed(s)
    /\ UNCHANGED regime

Spec == Init /\ [][Next]_vars

-----------------------------------------------------------------------------
(* Properties                                                              *)

(* Type invariant: the frequency and the rate in force are never zero,     *)
(* and the tuner's gain is a step of its list or automatic.                *)
TypeOK ==
    /\ regime \in Regimes
    /\ pc \in [Sessions -> Labels]
    /\ arg \in [Sessions -> Int]
    /\ state \in [Sessions -> {"IDLE", "STREAM_OPEN", "STREAMING"}]
    /\ owner \in Sessions \cup {NoOwner}
    /\ mode \in Modes
    /\ {freq, rate, rate_req} \subseteq Nat \ {0}
    /\ gain \in GainSteps /\ agc \in BOOLEAN /\ bias \in BOOLEAN /\ ppm \in -100 .. 100
    /\ tuner \in GainSteps \cup {AutoGain}
    /\ slot \in Slots
    /\ told \in [freq : Nat, rate : Nat]

Idle == \A s \in Sessions : pc[s] \in {"gone", "recv"}

(* One request at a time, on a device that does what it is told.           *)
Orderly == ~Concurrent /\ ~DeviceFails

(* Outside a direct_sampling change the frequency and the requested rate   *)
(* lie in what get_capabilities publishes for the mode: the side effects   *)
(* bring anything now out of range back inside it.                         *)
InLimits ==
    Idle => /\ FreqMin(mode) <= freq /\ freq <= FreqMax(mode)
            /\ rate_req \in RateList(mode)

(* InLimits, one request at a time.                                        *)
PublishedLimits == Orderly => InLimits

(* A stream is stamped with the rate its samples have and described with   *)
(* the kind of signal they are, for as long as it lives: nothing that      *)
(* changes the rate or the mode runs under an open stream.                 *)
Anchored ==
    slot.active => slot.rate = rate /\ slot.pf = PayloadFmt(mode)

(* Anchored, one request at a time.                                        *)
StreamAnchored == Orderly => Anchored

(* While agc is on the hardware manages the gain: rf_gain is ignored.      *)
AgcInControl == agc => tuner = AutoGain

(* AgcInControl, one request at a time.                                    *)
AgcManages == Orderly => AgcInControl

(* When every handler has answered, a client that followed the events      *)
(* knows the frequency and the requested rate in force, those the daemon   *)
(* itself chose after a direct_sampling change included.                   *)
EventsAreCurrent == Idle => told = [freq |-> freq, rate |-> rate_req]

(* EventsAreCurrent, one request at a time.                                *)
ToldIsCurrent == Orderly => EventsAreCurrent

(* When agc is off the tuner applies the last gain a client set.           *)
ManualGain == ~agc => tuner = gain

(* The gain the tuner applies: its own while agc is on, when requests come *)
(* one at a time, and the one set last while it is off, in any case.       *)
GainInForce == ManualGain /\ AgcManages

(* A stream whose last Context packet is out of date has another one       *)
(* coming: some handler has still to call vita_send_context_all.           *)
ContextFollows ==
    slot.active /\ (slot.ctx_ref # gain \/ slot.ctx_pf # slot.pf) =>
        \E s \in Sessions : pc[s] = "send_context"

(* When the last client has gone the bias tee is off, whoever switched it  *)
(* on and whoever held the channel.                                        *)
LastOneOut == (\E s \in Sessions : pc[s] # "gone") /\ (\A s \in Sessions : pc'[s] = "gone")
BiasFallsBack == [][LastOneOut => ~bias']_vars

(* Stated by --help: --bias-tee-persist re-applies the startup value after *)
(* a client disconnects.                                                   *)
BiasRestored == (\A s \in Sessions : pc[s] = "gone") => bias = StartupBias

(* Stated by vita_tx.c: a gain change reaches every client that streams    *)
(* before the next IF Data packet, which the USB thread sends at any time  *)
(* once rtl_bridge_start has returned.                                     *)
ContextBeforeData ==
    slot.active /\ (\A s \in Sessions : pc[s] # "bridge_start") => slot.ctx_ref = gain

(* Stated by apply_mode_change_side_effects: nothing is streaming when the *)
(* Payload Format moves.                                                   *)
NothingStreaming == \A s \in Sessions : pc[s] = "update_payload" => ~slot.active
=============================================================================
