------------------------------- MODULE VitaTx -------------------------------
(***************************************************************************)
(* The VITA-49 transmitter (vita/vita_tx.c): the table of VITA sessions,   *)
(* the IF Data packets vita_send_callback builds from each USB buffer, and *)
(* the Context packets that describe them, as a client receives them.      *)
(*                                                                         *)
(* Every operation runs under s_sess_mutex from start to end, so each is   *)
(* one step.  The settings a Context packet reports are written by other   *)
(* threads under other mutexes.  The socket does not block: sendmmsg may   *)
(* accept none or only the first few packets of a burst, sendto none.      *)
(***************************************************************************)
EXTENDS Integers, FiniteSets

CONSTANTS
    Tokens,          \* indices of s_sessions (MAX_VITA_SESSIONS of them)
    CountMod,        \* packet counts are kept modulo 16
    Spp,             \* VITA_SAMPLES_PER_PKT
    Second,          \* units of the fractional timestamp in a second (10^12)
    Rates,           \* values of g_rate_sps
    Gains,           \* values of g_gain_tenth_db
    Buffers,         \* sample pairs in a USB buffer
    MaxBurst,        \* VITA_MMSG_MAX_PKTS
    MaxSamples,      \* bound on the samples of one stream
    ContextEnabled,  \* s_context_enabled
    ContextDropped   \* may the socket refuse a Context packet?

ASSUME TxAssumption == /\ IsFiniteSet(Tokens)
                       /\ CountMod \in Nat \ {0, 1}
                       /\ Spp \in Nat \ {0}
                       /\ Second \in Nat \ {0}
                       /\ Rates \subseteq Nat \ {0}
                       /\ Gains \subseteq Nat
                       /\ MaxBurst \in Nat \ {0}
                       /\ MaxSamples \in Nat
                       /\ ContextEnabled \in BOOLEAN
                       /\ ContextDropped \in BOOLEAN

(* config.h: RTL_ASYNC_BUF_LEN is a multiple of the bytes of a packet, so  *)
(* a callback leaves no remainder, and one sendmmsg takes the buffer.      *)
ASSUME BuffersAssumption ==
    \A b \in Buffers : b \in Nat /\ b % Spp = 0 /\ b <= MaxBurst * Spp

VARIABLES
    slots,    \* s_sessions
    rate,     \* g_rate_sps
    gain,     \* g_gain_tenth_db
    pf,       \* payload format word of g_sampling_mode
    heard     \* per slot: what the client of its stream has received

settings == <<rate, gain, pf>>
vars == <<slots, settings, heard>>

PayloadWords == {"complex", "real"}

(* vita_encode_reference_level of RTL_REF_LEVEL_DBM_AT_0DB - gain: dBm *   *)
(* 128 as a signed 16-bit number, rounded half away from zero and clamped. *)
(* The gain is in tenths of a dB and the level is never positive.          *)
RefWord(g) ==
    LET scaled == -(((100 + g) * 128 + 5) \div 10)
    IN  (IF scaled < -32768 THEN -32768 ELSE scaled) % 65536

Inactive == [active |-> FALSE, pf |-> "none", if_count |-> 0, ctx_count |-> 0,
             ctx_sent |-> FALSE, last_ref |-> 0, last_pf |-> "none",
             samples |-> 0, rate |-> 0]

(* Nothing received: no Context packet, no IF Data packet, and no samples  *)
(* have been taken from the tuner for this stream.                         *)
Silence == [ctx |-> <<>>, marked |-> FALSE, data |-> <<>>, taken |-> 0]

-----------------------------------------------------------------------------
(* Packets                                                                 *)

(* Fault: only the Reference Level is compared.                            *)
Changed_RefOnly(v) == ~v.ctx_sent \/ RefWord(gain) # v.last_ref

(* The change indicator, CIF0 bit 31.                                      *)
Changed(v) == \/ ~v.ctx_sent
              \/ RefWord(gain) # v.last_ref
              \/ v.pf # v.last_pf

(* send_context_locked on the slot ...                                     *)
ContextSlot(v) ==
    IF ~v.active \/ ~ContextEnabled THEN v
    ELSE [v EXCEPT !.ctx_count = (@ + 1) % CountMod, !.ctx_sent = TRUE,
                   !.last_ref = RefWord(gain), !.last_pf = v.pf]

(* ... and at the client, which sees its fields and the change indicator.  *)
ContextHeard(v, h) ==
    IF ~v.active \/ ~ContextEnabled THEN h
    ELSE [h EXCEPT !.ctx = <<RefWord(gain), v.pf>>, !.marked = Changed(v)]

(* The slots whose Context packet the socket refuses; sendto's result is   *)
(* not looked at.                                                          *)
Refused == IF ContextDropped THEN SUBSET Tokens ELSE {{}}

(* The timestamp of the packet whose first sample has index sc: seconds    *)
(* since the stream was anchored, and the fraction of a second.            *)
Stamp(sc, r) == <<sc \div r, ((sc % r) * Second) \div r>>

(* Fault: one stamp per USB buffer and a truncated increment per packet.   *)
DataPacket_Increment(v, k) ==
    LET base == Stamp(v.samples, v.rate)
        frac == base[2] + k * ((Spp * Second) \div v.rate)
    IN  [count |-> (v.if_count + k) % CountMod,
         stamp |-> <<base[1] + frac \div Second, frac % Second>>]

(* The k-th packet of a burst, as vita_build_if_data_packet makes it.      *)
DataPacket(v, k) ==
    [count |-> (v.if_count + k) % CountMod,
     stamp |-> Stamp(v.samples + k * Spp, v.rate)]

(* Fault: the packet count advances by what the socket accepted.           *)
Advance_Count(v, n, sent) ==
    [v EXCEPT !.if_count = (@ + sent) % CountMod, !.samples = @ + n * Spp]

(* The counters after a burst of n packets of which sendmmsg took sent.    *)
Advance(v, n, sent) ==
    [v EXCEPT !.if_count = (@ + n) % CountMod, !.samples = @ + n * Spp]

-----------------------------------------------------------------------------
Init ==
    /\ slots = [i \in Tokens |-> Inactive]
    /\ rate \in Rates
    /\ gain \in Gains
    /\ pf \in PayloadWords
    /\ heard = [i \in Tokens |-> Silence]

(* The slot as vita_session_add fills it in: the stream is anchored at the *)
(* rate in force.                                                          *)
Anchored == [Inactive EXCEPT !.active = TRUE, !.pf = pf, !.rate = rate]

(* Fault: the Context packet is left to a later call.                      *)
FirstHeard_Later == Silence

(* vita_session_add sends the Context packet before it unlocks.            *)
FirstHeard == ContextHeard(Anchored, Silence)

(* It takes the first inactive slot.                                       *)
SessionAdd(i) ==
    /\ ~slots[i].active
    /\ \A j \in Tokens : j < i => slots[j].active
    /\ slots' = [slots EXCEPT ![i] = ContextSlot(Anchored)]
    /\ \E refused \in Refused :
          heard' = [heard EXCEPT ![i] = IF i \in refused THEN Silence ELSE FirstHeard]
    /\ UNCHANGED settings

SessionRemove(i) ==
    /\ slots[i].active
    /\ slots' = [slots EXCEPT ![i] = Inactive]
    /\ heard' = [heard EXCEPT ![i] = Silence]
    /\ UNCHANGED settings

(* vita_send_context_all                                                   *)
SendContextAll ==
    /\ slots' = [i \in Tokens |-> ContextSlot(slots[i])]
    /\ \E refused \in Refused :
          heard' = [i \in Tokens |-> IF i \in refused THEN heard[i]
                                     ELSE ContextHeard(slots[i], heard[i])]
    /\ UNCHANGED settings

(* vita_update_payload_format(sampling_mode_payload_fmt(g_sampling_mode))  *)
UpdatePayloadFormat ==
    /\ slots' = [i \in Tokens |-> IF slots[i].active THEN [slots[i] EXCEPT !.pf = pf]
                                                     ELSE slots[i]]
    /\ UNCHANGED <<settings, heard>>

(* num_pkts: len / bytes_per_pkt, at most VITA_MMSG_MAX_PKTS               *)
Packets(len) == IF len \div Spp > MaxBurst THEN MaxBurst ELSE len \div Spp

(* vita_send_callback: the same packets for every active session, of which *)
(* the socket takes the first sent[i], none after EAGAIN.  A client keeps  *)
(* the last packet it got, with the index of its first sample among all    *)
(* the samples taken from the tuner for its stream.                        *)
Callback(len) ==
    LET n == Packets(len)
        on == {i \in Tokens : slots[i].active}
    IN  /\ n > 0 /\ on # {}
        /\ \A i \in on : heard[i].taken + len <= MaxSamples
        /\ \E sent \in [on -> 0 .. n] :
              /\ slots' = [i \in Tokens |-> IF i \in on THEN Advance(slots[i], n, sent[i])
                                                         ELSE slots[i]]
              /\ heard' = [i \in Tokens |->
                    IF i \notin on THEN heard[i]
                    ELSE [heard[i] EXCEPT
                            !.taken = @ + len,
                            !.data = IF sent[i] = 0 THEN @
                                     ELSE <<heard[i].taken + (sent[i] - 1) * Spp,
                                            DataPacket(slots[i], sent[i] - 1)>>]]
        /\ UNCHANGED settings

(* Other threads: rtl_set_gain, rtl_set_sample_rate, rtl_set_direct_sampling. *)
SettingsChange ==
    /\ \/ gain' \in Gains \ {gain} /\ UNCHANGED <<rate, pf>>
       \/ rate' \in Rates \ {rate} /\ UNCHANGED <<gain, pf>>
       \/ pf' \in PayloadWords \ {pf} /\ UNCHANGED <<gain, rate>>
    /\ UNCHANGED <<slots, heard>>

Next ==
    \/ \E i \in Tokens : SessionAdd(i) \/ SessionRemove(i)
    \/ \E len \in Buffers : Callback(len)
    \/ SendContextAll
    \/ UpdatePayloadFormat
    \/ SettingsChange

Spec == Init /\ [][Next]_vars

-----------------------------------------------------------------------------
(* Properties                                                              *)

(* Type invariant of the VITA table: packet counts stay within their       *)
(* field of the header, and the Reference Level in its 16 bits.            *)
TypeOK ==
    /\ slots \in [Tokens -> [active : BOOLEAN, pf : PayloadWords \cup {"none"},
                             if_count : 0 .. CountMod - 1,
                             ctx_count : 0 .. CountMod - 1,
                             ctx_sent : BOOLEAN, last_ref : 0 .. 65535,
                             last_pf : PayloadWords \cup {"none"},
                             samples : Nat, rate : Rates \cup {0}]]
    /\ rate \in Rates /\ gain \in Gains /\ pf \in PayloadWords
    /\ \A i \in Tokens : heard[i].taken \in 0 .. MaxSamples /\ heard[i].marked \in BOOLEAN

(* The Context packet is the first packet of a stream: no client gets      *)
(* samples before it knows their kind and Reference Level, whatever other  *)
(* streams are in flight.                                                  *)
ContextFirst ==
    ContextEnabled => \A i \in Tokens : heard[i].data # <<>> => heard[i].ctx # <<>>

(* The change indicator of a Context packet is set exactly when it is the  *)
(* first of its stream or differs from the one the client had before, also *)
(* when the slot was used by an earlier stream.                            *)
ContextSent(i) == /\ slots'[i].active
                  /\ \/ slots'[i].ctx_count # slots[i].ctx_count
                     \/ slots'[i].ctx_sent # slots[i].ctx_sent
ChangeHonest ==
    [][\A i \in Tokens :
          ContextSent(i) => (heard'[i].marked <=> heard'[i].ctx # heard[i].ctx)]_vars

(* A packet is stamped with the exact time of its first sample: losing     *)
(* packets to a full socket neither shifts nor stretches the time axis,    *)
(* and no rounding error builds up from one packet to the next.            *)
StampExact ==
    \A i \in Tokens : heard[i].data # <<>> =>
        LET index == heard[i].data[1]
            stamp == heard[i].data[2].stamp
        IN  stamp[1] * Second + stamp[2] = (index * Second) \div slots[i].rate

(* A client can count what it lost: the packet count is the packet's index *)
(* in the stream, lost ones included.                                      *)
LossCounted ==
    \A i \in Tokens : heard[i].data # <<>> =>
        heard[i].data[2].count = (heard[i].data[1] \div Spp) % CountMod

=============================================================================
