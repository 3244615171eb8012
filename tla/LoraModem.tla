------------------------------ MODULE LoraModem ------------------------------
(***************************************************************************)
(* The registers of the LoRa modem (esp32/components/l2lora/lora_drv.c).   *)
(*                                                                         *)
(* The setters of the driver are programs of register accesses; those of a *)
(* register with several fields read it, and write it back with one field  *)
(* changed.  LoraRadio says when a task runs which program; here any task  *)
(* may start any of its programs, and tasks interleave between accesses,   *)
(* as nothing locks the radio.                                             *)
(*                                                                         *)
(* External: the values after a reset are those of the SX1276.  The main   *)
(* task runs register_lora before other tasks use the radio: a console     *)
(* command in the milliseconds of the boot is left out.                    *)
(***************************************************************************)
EXTENDS Naturals, Sequences

CONSTANTS
    Tasks,        \* reader, lora_task, Bluetooth and console
    BeaconBands,  \* values of lora.beaconBand that are considered
    BeaconSize,   \* length of a beacon
    LoraSf,       \* lora.sf
    LoraCr        \* lora.cr

VARIABLES
    reg,     \* registers, and the driver's variables __implicit and beaconReceive
    prog,    \* task -> the accesses it still has to make
    copy,    \* task -> the value it has read and not yet written back
    last,    \* history: the program started last
    alone    \* history: no other one ran during it

vars == <<reg, prog, copy, last, alone>>

-----------------------------------------------------------------------------
(* Accesses and programs *)

Write(r, val) == <<[do |-> "write", reg |-> r, field |-> "", val |-> val]>>

\* lora_write_reg(r, lora_read_reg(r) with one field changed)
Update(r, field, val) ==
    <<[do |-> "read", reg |-> r, field |-> "", val |-> 0],
      [do |-> "back", reg |-> r, field |-> field, val |-> val]>>

Clamp(x, lo, hi) == IF x < lo THEN lo ELSE IF x > hi THEN hi ELSE x

lora_explicit_header_mode == Write("__implicit", 0) \o Update("mc1", "hdr", 0)
lora_implicit_header_mode(size) ==
    Write("__implicit", 1) \o Update("mc1", "hdr", 1) \o Write("length", size)
lora_idle == Write("op", "stdby")
lora_sleep == Write("op", "sleep")
lora_receive == Write("op", "rx")
lora_set_tx_power(level) == Write("pa", Clamp(level, 2, 17) - 2)
lora_set_frequency(band) ==
    Write("__frequency", band) \o Write("msb", band) \o Write("mid", band)
    \o Write("lsb", band)

\* Mutant of lora_set_spreading_factor: no upper limit.
SpreadingMutant(sf) == Write("detect", 0) \o Update("mc2", "sf", sf + 1)

lora_set_spreading_factor(sf) ==
    Write("detect", IF sf <= 6 THEN 1 ELSE 0) \o Update("mc2", "sf", Clamp(sf, 6, 12))
lora_set_bandwidth(bw) == Update("mc1", "bw", bw)

\* Mutant of lora_set_coding_rate: the register is written as a whole.
CodingRateMutant(d) == Write("mc1", [bw |-> 7, cr |-> Clamp(d, 5, 8) - 4, hdr |-> 0])

lora_set_coding_rate(d) == Update("mc1", "cr", Clamp(d, 5, 8) - 4)
lora_set_preamble_length(n) ==
    Write("preambleMsb", n \div 256) \o Write("preambleLsb", n % 256)
lora_set_sync_word(sw) == Write("sync", sw)
lora_disable_crc == Update("mc2", "crc", 0)
lora_invert_iq(inv) == Write("iq", inv) \o Write("iq2", inv)

\* lora_init and register_lora, up to the choice of a mode.
Boot ==
    lora_idle \o Write("dio", 0) \o lora_sleep \o lora_set_tx_power(17) \o lora_idle
    \o lora_set_sync_word(52) \o lora_set_preamble_length(8) \o lora_set_bandwidth(9)
    \o lora_disable_crc

loraSend ==
    lora_invert_iq(1) \o lora_explicit_header_mode \o lora_set_spreading_factor(LoraSf)
    \o lora_set_coding_rate(LoraCr) \o lora_idle \o Write("length", 4) \o Write("op", "tx")

\* Mutant of lora_receive_beacon: the inversion of an earlier mode stays.
ReceiveBeaconMutant(band) ==
    Write("beaconReceive", 1) \o lora_set_frequency(band)
    \o lora_implicit_header_mode(BeaconSize) \o lora_set_spreading_factor(12)
    \o lora_set_coding_rate(5) \o lora_receive

lora_receive_beacon(band) ==
    Write("beaconReceive", 1) \o lora_set_frequency(band) \o lora_invert_iq(0)
    \o lora_implicit_header_mode(BeaconSize) \o lora_set_spreading_factor(12)
    \o lora_set_coding_rate(5) \o lora_receive

lora_receive_upstream ==
    Write("beaconReceive", 0) \o lora_set_frequency(0) \o lora_invert_iq(1)
    \o lora_explicit_header_mode \o lora_set_spreading_factor(LoraSf)
    \o lora_set_coding_rate(LoraCr) \o lora_receive

-----------------------------------------------------------------------------
Init ==
    /\ reg = [mc1 |-> [bw |-> 7, cr |-> 1, hdr |-> 0], mc2 |-> [sf |-> 7, crc |-> 0],
              op |-> "stdby", msb |-> 0, mid |-> 0, lsb |-> 0, iq |-> 0, iq2 |-> 0,
              detect |-> 0, length |-> 0, pa |-> 0, dio |-> 0, sync |-> 18,
              preambleMsb |-> 0, preambleLsb |-> 8, __implicit |-> 0, __frequency |-> 0, beaconReceive |-> 0]
    /\ prog = [t \in Tasks |-> <<>>] /\ copy = [t \in Tasks |-> <<>>]
    /\ last = <<"none">> /\ alone = TRUE

Idle == \A t \in Tasks : prog[t] = <<>>

Start(t, name, p) ==
    /\ prog[t] = <<>>
    /\ prog' = [prog EXCEPT ![t] = p]
    /\ last' = name /\ alone' = Idle
    /\ UNCHANGED <<reg, copy>>

\* register_lora comes first.
RegisterLora(t) == last = <<"none">> /\ Start(t, <<"boot">>, Boot)
Booted == last # <<"none">> /\ (last = <<"boot">> => Idle)

Send(t) == Booted /\ Start(t, <<"send">>, loraSend)
Beacon(t) ==
    Booted /\ \E b \in BeaconBands : Start(t, <<"beacon", b>>, lora_receive_beacon(b))
Upstream(t) == Booted /\ Start(t, <<"upstream">>, lora_receive_upstream)
Sleep(t) == Booted /\ Start(t, <<"sleep">>, lora_sleep)

Step(t) ==
    /\ prog[t] # <<>>
    /\ prog' = [prog EXCEPT ![t] = Tail(@)]
    /\ LET a == Head(prog[t])
       IN  \/ /\ a.do = "write"
              /\ reg' = [reg EXCEPT ![a.reg] = a.val] /\ UNCHANGED copy
           \/ /\ a.do = "read"
              /\ copy' = [copy EXCEPT ![t] = reg[a.reg]] /\ UNCHANGED reg
           \/ /\ a.do = "back"
              /\ reg' = [reg EXCEPT ![a.reg] = [copy[t] EXCEPT ![a.field] = a.val]]
              /\ copy' = [copy EXCEPT ![t] = <<>>]
    /\ UNCHANGED <<last, alone>>

Next == \E t \in Tasks :
    RegisterLora(t) \/ Send(t) \/ Beacon(t) \/ Upstream(t) \/ Sleep(t) \/ Step(t)

Spec == Init /\ [][Next]_vars

-----------------------------------------------------------------------------
(* Properties *)

\* The fields of the modem's registers stay in their ranges.
TypeOK ==
    /\ reg.mc1 \in [bw : 0 .. 9, cr : 1 .. 4, hdr : {0, 1}]
    /\ reg.mc2 \in [sf : 6 .. 12, crc : {0, 1}]
    /\ reg.op \in {"sleep", "stdby", "tx", "rx"}
    /\ reg.length \in 0 .. 255 /\ reg.pa \in 0 .. 15

\* Once the boot is over, no interleaving of the tasks' updates loses bandwidth,
\* checksum mode, power or sync word: a stale value written back carries them too.
LinkKept ==
    Booted => reg.mc1.bw = 9 /\ reg.mc2.crc = 0 /\ reg.pa = 15 /\ reg.sync = 52

\* A receive mode that was set without another task in between leaves the radio
\* and the driver's variables in that mode, whatever the tasks that overlapped
\* before had left in the registers.
ModeComplete ==
    Idle /\ alone /\ last[1] \in {"beacon", "upstream"} =>
        LET beacon == last[1] = "beacon"
            band == IF beacon THEN last[2] ELSE 0
        IN  /\ <<reg.__frequency, reg.msb, reg.mid, reg.lsb>> = <<band, band, band, band>>
            /\ reg.iq = reg.iq2 /\ reg.iq = (IF beacon THEN 0 ELSE 1)
            /\ reg.mc1.hdr = reg.__implicit /\ reg.mc1.hdr = (IF beacon THEN 1 ELSE 0)
            /\ beacon => reg.length = BeaconSize
            /\ reg.mc2.sf = (IF beacon THEN 12 ELSE LoraSf)
            /\ reg.op = "rx"
=============================================================================
