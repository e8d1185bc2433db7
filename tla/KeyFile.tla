------------------------------ MODULE KeyFile ------------------------------
(***************************************************************************)
(* The key file of common/auth.c: keygen appends a line to it, the         *)
(* operator deletes lines from it, and keygen and the daemon load it.      *)
(*                                                                         *)
(* A line is an id, a secret and a line end.  keygen checks the file it    *)
(* loaded and then appends with one write, so that two of them overlap and *)
(* a write that is cut short leaves a line the next one runs into.  Every  *)
(* keygen draws a secret of its own, so it is named after the process.     *)
(* Blank lines and comments, which loading skips, are left out.  Ids are   *)
(* short: lines that ran together stay within the lengths that load.       *)
(***************************************************************************)
EXTENDS Integers, Sequences, SequencesExt, FiniteSets

CONSTANTS
    Keygens,        \* invocations of keygen, and the secrets they draw
    KeyIds,         \* the ids operators ask for
    AUTH_MAX_KEYS   \* the size of the ring

ASSUME MaxKeysAssumption == AUTH_MAX_KEYS \in Nat \ {0}

NoSecret == "none"     \* the line was cut before its secret
Mixed == "mixed"       \* a secret two lines ran together in
Garbled == "garbled"   \* an id two lines ran together in
NoId == "none"

ASSUME IdsAssumption == (Keygens \cup KeyIds) \cap {NoSecret, Mixed, Garbled} = {}

Lines == [id : KeyIds \cup {Garbled}, secret : Keygens \cup {NoSecret, Mixed},
          ended : BOOLEAN]

VARIABLES
    file,      \* the lines of the key file
    gen,       \* the next step of each keygen: "start", "write", "done"
    want,      \* the id it was asked for
    acked,     \* the keys that a keygen reported as appended
    deleted,   \* the keys whose lines the operator deleted
    cuts       \* how many writes were cut short

keyvars == <<file, gen, want, acked, deleted, cuts>>

KeyInit ==
    /\ file = <<>>
    /\ gen = [k \in Keygens |-> "start"]
    /\ want = [k \in Keygens |-> NoId]
    /\ acked = {} /\ deleted = {} /\ cuts = 0

-----------------------------------------------------------------------------
(* Loading looks no further than the first key that does not fit.          *)
Scanned(f) == SubSeq(f, 1, IF Len(f) > AUTH_MAX_KEYS THEN AUTH_MAX_KEYS + 1 ELSE Len(f))

Malformed(f) == \E i \in DOMAIN Scanned(f) : f[i].secret = NoSecret

(* auth_keyring_load, when no line is malformed.                           *)
Ring(f) ==
    {[id |-> f[i].id, secret |-> f[i].secret] : i \in {j \in DOMAIN f : j <= AUTH_MAX_KEYS}}

(* keygen: the file must load and must not name the id yet.  A wrong       *)
(* option, a bad id or a file that cannot be read also ends it here.       *)
KeygenCheck(k) ==
    /\ gen[k] = "start"
    /\ \/ gen' = [gen EXCEPT ![k] = "done"] /\ UNCHANGED want
       \/ \E id \in KeyIds :
             /\ ~Malformed(file)
             /\ \A key \in Ring(file) : key.id # id
             /\ gen' = [gen EXCEPT ![k] = "write"] /\ want' = [want EXCEPT ![k] = id]
    /\ UNCHANGED <<file, acked, deleted, cuts>>

(* What the last line becomes when a line runs into it: the cut fell in    *)
(* the id, or after it, or in the secret.                                  *)
RunInto(last, line) ==
    IF last.secret = NoSecret
    THEN {[line EXCEPT !.id = Garbled], [line EXCEPT !.id = last.id, !.secret = Mixed]}
    ELSE {[line EXCEPT !.id = last.id, !.secret = Mixed]}

(* open(O_APPEND), write: the file with line appended.                     *)
Appended(f, line) ==
    IF f = <<>> \/ Last(f).ended THEN {Append(f, line)}
    ELSE {Append(Front(f), merged) : merged \in RunInto(Last(f), line)}

(* Fault: keygen does not end its line.                                    *)
LineEnd_None == FALSE

LineEnd == TRUE

Done(k) ==
    /\ gen[k] = "write"
    /\ gen' = [gen EXCEPT ![k] = "done"]
    /\ want' = [want EXCEPT ![k] = NoId]

KeygenAppend(k) ==
    /\ Done(k)
    /\ file' \in Appended(file, [id |-> want[k], secret |-> k, ended |-> LineEnd])
    /\ acked' = acked \cup {[id |-> want[k], secret |-> k]}
    /\ UNCHANGED <<deleted, cuts>>

(* The write is cut short: in the id, in the secret, or before the line    *)
(* end.  keygen reports it; the line stays.                                *)
KeygenShortWrite(k) ==
    /\ Done(k)
    /\ \E secret \in {NoSecret, Mixed, k} :
          file' \in Appended(file, [id |-> want[k], secret |-> secret, ended |-> FALSE])
    /\ cuts' = cuts + 1
    /\ UNCHANGED <<acked, deleted>>

(* getrandom, mkdir, open or the whole write fails.                        *)
KeygenFails(k) ==
    /\ Done(k)
    /\ UNCHANGED <<file, acked, deleted, cuts>>

(* External: the operator deletes a line, to revoke a key or to repair the *)
(* file.                                                                   *)
DeleteLine ==
    /\ \E i \in DOMAIN file :
          /\ file' = RemoveAt(file, i)
          /\ deleted' = deleted \cup {[id |-> file[i].id, secret |-> file[i].secret]}
    /\ UNCHANGED <<gen, want, acked, cuts>>

KeyNext ==
    \/ \E k \in Keygens : \/ KeygenCheck(k) \/ KeygenAppend(k)
                          \/ KeygenShortWrite(k) \/ KeygenFails(k)
    \/ DeleteLine

-----------------------------------------------------------------------------
KeyTypeOK ==
    /\ file \in Seq(Lines)
    /\ gen \in [Keygens -> {"start", "write", "done"}]
    /\ want \in [Keygens -> KeyIds \cup {NoId}]
    /\ acked \subseteq [id : KeyIds, secret : Keygens]
    /\ deleted \subseteq [id : KeyIds \cup {Garbled},
                          secret : Keygens \cup {NoSecret, Mixed}]
    /\ cuts \in 0 .. Cardinality(Keygens)

(* A key that keygen reported as appended loads, unless the operator       *)
(* deleted its line, the ring is too small or some write was cut short:    *)
(* two keygens that overlap lose neither key, even when both were asked    *)
(* for the same id.                                                        *)
AckedKeyLoads ==
    cuts = 0 /\ Len(file) <= AUTH_MAX_KEYS =>
        ~Malformed(file) /\ acked \ deleted \subseteq Ring(file)

InFile(key) == \E i \in DOMAIN file : file[i].id = key.id /\ file[i].secret = key.secret

(* A write that was cut short spoils at most the one key appended after    *)
(* it: never a key that was in the file before, and never two.             *)
CutsSpoilOneEach ==
    Cardinality({key \in acked \ deleted : ~InFile(key)}) <= cuts

(* A key that keygen reported stays usable, but for one for each write     *)
(* that was cut short.                                                     *)
AckedKeysKept == AckedKeyLoads /\ CutsSpoilOneEach

(* Stated by keygen: "a key named ... already exists", so an id names one  *)
(* key and one line.                                                       *)
IdsUnique == \A i, j \in DOMAIN file : file[i].id = file[j].id => i = j
=============================================================================
