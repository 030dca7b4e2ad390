------------------------------- MODULE Frames -------------------------------
(***************************************************************************)
(* What one entry of a telemetry body is turned into: the Modbus framing   *)
(* of modbus.rs, the register layouts of decode.rs, and the order in which *)
(* handle_entry of server.rs finds a reason to drop it.  All of it is a    *)
(* function of the two frames of the entry; Ingest has what happens then.  *)
(*                                                                         *)
(* A frame is a sequence of bytes, or NotHex.  A checksum is the set of    *)
(* its bits.  A decoded value is an integer in units of what its register  *)
(* resolves (0.1 V, 0.1 A, 0.1 Ah, mV, degrees).                           *)
(***************************************************************************)
EXTENDS Integers, Sequences, SequencesExt, FiniteSetsExt

CONSTANTS
  NotHex,      \* a string that is not the hex of bytes
  Absent,      \* Option::None
  MaxCurrent,  \* limits.max_current_a, in 0.1 A
  PackVolts    \* limits.pack_volts, in 0.1 V

-----------------------------------------------------------------------------
(***************************************************************************)
(* modbus.rs                                                               *)
(***************************************************************************)

BmsAddress == 210
ReadHolding == 3

\* The bits of a byte, or of any number below 2^16.
Bits(n) == {b \in 0..15 : (n \div 2^b) % 2 = 1}
Number(bits) ==
  LET sum[n \in 0..16] ==
        IF n = 0 THEN 0 ELSE sum[n - 1] + (IF n - 1 \in bits THEN 2^(n - 1) ELSE 0)
  IN  sum[16]

\* 0xA001
Polynomial == {0, 13, 15}

Shifted(crc) == {b - 1 : b \in crc \ {0}}

\* One bit of the inner loop.
Round(crc) ==
  IF 0 \in crc THEN SymDiff(Shifted(crc), Polynomial) ELSE Shifted(crc)

\* The inner loop, a round for each of the eight bits of a byte.
Rounds(crc) == Round(Round(Round(Round(Round(Round(Round(Round(crc))))))))

\* The outer loop, over the bytes.
crc16(data) ==
  LET feed == [i \in 1..Len(data) |->
                 [crc \in SUBSET (0..15) |-> Rounds(SymDiff(crc, Bits(data[i])))]]
      after[i \in 0..Len(data)] == IF i = 0 THEN 0..15 ELSE feed[i][after[i - 1]]
  IN  after[Len(data)]

Rejected(reason) == [reason |-> reason, regs |-> << >>]

BigEndian(hi, lo) == 256 * hi + lo

\* The checks in the order of the code: length, address and function, the
\* declared byte count, the checksum, low byte first.  An odd byte at the end
\* is no register.
parse_response(raw) ==
  IF raw = NotHex THEN Rejected("bad_hex")
  ELSE IF Len(raw) < 5 THEN Rejected("too_short")
  ELSE IF \/ raw[1] # BmsAddress
          \/ raw[2] # ReadHolding
          \/ Len(raw) # raw[3] + 5 THEN Rejected("bad_frame")
  ELSE LET end == 3 + raw[3]
       IN  IF Bits(BigEndian(raw[end + 2], raw[end + 1])) # crc16(SubSeq(raw, 1, end))
           THEN Rejected("crc")
           ELSE [reason |-> Absent,
                 regs |-> [i \in 1..(raw[3] \div 2) |->
                             BigEndian(raw[2 * i + 2], raw[2 * i + 3])]]

\* request_start_register and Block::from_start_register: the command says
\* which block the answer is, the answer itself does not.
Block(command) ==
  IF command = NotHex \/ Len(command) < 6 THEN "bad_command"
  ELSE LET start == BigEndian(command[3], command[4])
       IN  CASE start = 0   -> "realtime"
             [] start = 128 -> "config"
             [] OTHER       -> "unknown_block"

-----------------------------------------------------------------------------
(***************************************************************************)
(* decode.rs                                                               *)
(***************************************************************************)

MaxCells == 32
MaxTemps == 8

\* What a register's integer stands for.
Meaning(kind, raw) ==
  CASE kind = "amps"    -> raw - 30000
    [] kind = "celsius" -> raw - 40
    [] kind = "flag"    -> raw # 0
    [] kind = "plain"   -> raw        \* deci, cell_volts, celsius_delta, counts

\* regs.get(addr), the first register being at base.
reg(regs, base, addr) ==
  IF addr - base + 1 \in DOMAIN regs THEN regs[addr - base + 1] ELSE Absent

Field(regs, base, layout) ==
  [f \in DOMAIN layout |->
     LET raw == reg(regs, base, layout[f].at)
     IN  IF raw = Absent THEN Absent ELSE Meaning(layout[f].kind, raw)]

At(addr, kind) == [at |-> addr, kind |-> kind]

RealtimeLayout ==
  [pack_v |-> At(\h28, "plain"), current_a |-> At(\h29, "amps"),
   soc_pct |-> At(\h2A, "plain"),
   cell_max_v |-> At(\h2B, "plain"), cell_min_v |-> At(\h2C, "plain"),
   temp_max_c |-> At(\h2D, "celsius"), temp_min_c |-> At(\h2E, "celsius"),
   remaining_ah |-> At(\h30, "plain"), cycles |-> At(\h33, "plain"),
   charge_mos |-> At(\h35, "flag"), discharge_mos |-> At(\h36, "flag"),
   cell_avg_v |-> At(\h37, "plain"), cell_delta_v |-> At(\h38, "plain"),
   balancer_active |-> At(\h34, "flag"), balance_current_a |-> At(\h40, "amps"),
   balancing_cells |-> At(\h41, "plain"), mos_temp_c |-> At(\h42, "celsius"),
   alarm_bits |-> At(\h3B, "plain")]

ConfigBase == \h80

ConfigLayout ==
  [rated_capacity_ah |-> At(\h80, "plain"), cell_reference_v |-> At(\h81, "plain"),
   cell_high_warning |-> At(\h8B, "plain"), cell_high_protection |-> At(\h8C, "plain"),
   cell_low_warning |-> At(\h8D, "plain"), cell_low_protection |-> At(\h8E, "plain"),
   pack_high_warning |-> At(\h8F, "plain"), pack_high_protection |-> At(\h90, "plain"),
   pack_low_warning |-> At(\h91, "plain"), pack_low_protection |-> At(\h92, "plain"),
   discharge_overcurrent_warning |-> At(\h93, "amps"),
   discharge_overcurrent_protection |-> At(\h94, "amps"),
   charge_overcurrent_warning |-> At(\h95, "amps"),
   charge_overcurrent_protection |-> At(\h96, "amps"),
   charge_temp_high_warning |-> At(\h97, "celsius"),
   charge_temp_high_protection |-> At(\h98, "celsius"),
   charge_temp_low_warning |-> At(\h99, "celsius"),
   charge_temp_low_protection |-> At(\h9A, "celsius"),
   discharge_temp_high_warning |-> At(\h9B, "celsius"),
   discharge_temp_high_protection |-> At(\h9C, "celsius"),
   diff_temp_c |-> At(\h9D, "plain"), balance_current_a |-> At(\hA2, "plain"),
   fan_on_temp_c |-> At(\hA8, "celsius"), balance_enable |-> At(\hCF, "flag")]

Control(byte) == byte < 32 \/ byte = 127

\* The bytes of the registers first..last, as many as there are.
TextBytes(regs, base, first, last) ==
  LET held == {a \in first..last : reg(regs, base, a) # Absent}
  IN  [i \in 1..(2 * Cardinality(held)) |->
         LET r == reg(regs, base, first + (i - 1) \div 2)
         IN  IF i % 2 = 1 THEN r \div 256 ELSE r % 256]

\* Without the control bytes, wherever they are.
Cleaned(bytes) ==
  LET cleaned[i \in 0..Len(bytes)] ==
        IF i = 0 THEN << >>
        ELSE IF Control(bytes[i]) THEN cleaned[i - 1] ELSE Append(cleaned[i - 1], bytes[i])
  IN  cleaned[Len(bytes)]

\* Without the blanks around it, if there is anything else.
Trimmed(text) ==
  LET inked == {i \in DOMAIN text : text[i] # 32}
      first_inked == CHOOSE i \in inked : \A j \in inked : i <= j
      last_inked == CHOOSE i \in inked : \A j \in inked : i >= j
  IN  IF inked = {} THEN Absent ELSE SubSeq(text, first_inked, last_inked)

\* (Text is ASCII here.)
ascii(regs, base, first, last) == Trimmed(Cleaned(TextBytes(regs, base, first, last)))

\* Seeded fault: the count is taken at its word.
Count_untrusted(regs, addr, max) ==
  LET n == reg(regs, 0, addr) IN IF n = Absent THEN 0 ELSE n

\* A count register: none without it, and never more than can be there.
Count(regs, addr, max) ==
  LET n == reg(regs, 0, addr) IN IF n = Absent THEN 0 ELSE IF n > max THEN max ELSE n

\* Numbered readings from 1; an empty slot and one past the end are skipped.
Slots(regs, addr, count, kind) ==
  LET filled == {i \in 1..count : reg(regs, 0, addr + i - 1) \notin {Absent, 0}}
  IN  [i \in filled |-> Meaning(kind, reg(regs, 0, addr + i - 1))]

RealtimeData(regs) ==
  [cells_v |-> Slots(regs, 0, Count(regs, \h31, MaxCells), "plain"),
   temps_c |-> Slots(regs, \h20, Count(regs, \h32, MaxTemps), "celsius"),
   serial |-> ascii(regs, 0, \h57, \h5D),
   values |-> Field(regs, 0, RealtimeLayout)]

ConfigData(regs) ==
  [sw_version |-> ascii(regs, ConfigBase, \hA9, \hAF),
   hw_version |-> ascii(regs, ConfigBase, \hB1, \hB7),
   machine_code |-> ascii(regs, ConfigBase, \hB9, \hC0),
   values |-> Field(regs, ConfigBase, ConfigLayout)]

\* Only a reading that is there can be implausible; the current is judged
\* before the voltage.
implausibility(d) ==
  LET v == d.values
  IN  IF v.current_a # Absent /\ (v.current_a > MaxCurrent \/ -v.current_a > MaxCurrent)
      THEN "implausible_current"
      ELSE IF v.pack_v # Absent /\ (v.pack_v < PackVolts[1] \/ v.pack_v > PackVolts[2])
      THEN "implausible_voltage"
      ELSE Absent

-----------------------------------------------------------------------------
(***************************************************************************)
(* server.rs                                                               *)
(***************************************************************************)

DROP_REASONS ==
  {"bad_json", "serial_rejected", "device_limit", "bad_command", "unknown_block", "bad_hex",
   "too_short", "bad_frame", "crc", "implausible_current", "implausible_voltage"}

\* What is not hexadecimal is no sequence of bytes.
ASSUME NotHexAssumption == NotHex \notin Seq(Nat)

\* None is no register, no text and no reason.
ASSUME AbsentAssumption == Absent \notin Nat /\ Absent \notin Seq(Nat) /\ Absent \notin DROP_REASONS

Decoded(as, data) == [outcome |-> as, data |-> data]
Dropped_for(reason) == [outcome |-> reason, data |-> << >>]

\* What is to be done with an entry: the first reason to drop it, or the
\* frame that reaches the metrics.
handle_entry(command, raw) ==
  LET block == Block(command)
      answer == parse_response(raw)
  IN  CASE block \in {"bad_command", "unknown_block"} -> Dropped_for(block)
        [] block \in {"realtime", "config"} /\ answer.reason # Absent ->
             Dropped_for(answer.reason)
        [] block = "realtime" /\ answer.reason = Absent ->
             LET d == RealtimeData(answer.regs)
             IN  IF implausibility(d) # Absent THEN Dropped_for(implausibility(d))
                 ELSE Decoded("realtime", d)
        [] block = "config" /\ answer.reason = Absent ->
             Decoded("config", ConfigData(answer.regs))

-----------------------------------------------------------------------------
(***************************************************************************)
(* What TLC evaluates on samples: the checks are functions of their         *)
(* arguments and no state.                                                 *)
(***************************************************************************)

\* The requests for the two blocks, and the frame a device answers with.
RealtimeRequest == <<210, 3, 0, 0, 0, 126, 214, 73>>
ConfigRequest == <<210, 3, 0, 128, 0, 82, 0, 0>>
LowFirst(bits) == <<Number({b \in bits : b < 8}), Number({b \in bits : b >= 8}) \div 256>>
Sent(bytes) ==
  LET body == <<BmsAddress, ReadHolding, Len(bytes)>> \o bytes
  IN  body \o LowFirst(crc16(body))

\* The frame with the numbered bits turned over.
Damaged(raw, flips) ==
  [i \in DOMAIN raw |->
     Number(SymDiff({b \in 0..7 : b \in Bits(raw[i])},
                    {b \in 0..7 : 8 * (i - 1) + b \in flips}))]

BitsOf(raw) == 0..(8 * Len(raw) - 1)

\* An entry is decoded as it was sent or dropped with one of the reasons there
\* are counters for: an intact answer gives its registers, to the block of the
\* request; one with up to three of its bits turned over, wherever they lie, is
\* dropped, and so is one cut short or one with a byte too many.  The checksum
\* of the request in the protocol notes comes out as documented.
OnlyIntactFramesParse(replies) ==
  /\ crc16(SubSeq(RealtimeRequest, 1, 6)) = Bits(\h49D6)
  /\ \A bytes \in replies :
       LET raw == Sent(bytes)
           regs == [i \in 1..(Len(bytes) \div 2) |-> BigEndian(bytes[2 * i - 1], bytes[2 * i])]
           Drops(bad) == handle_entry(RealtimeRequest, bad).outcome \in DROP_REASONS
       IN  /\ handle_entry(RealtimeRequest, raw) = Decoded("realtime", RealtimeData(regs))
           /\ handle_entry(ConfigRequest, raw) = Decoded("config", ConfigData(regs))
           /\ \A a \in BitsOf(raw) : \A b \in {x \in BitsOf(raw) : x > a} :
                \A c \in {x \in BitsOf(raw) : x >= b} : Drops(Damaged(raw, {a, b, c}))
           /\ \A a \in BitsOf(raw) : Drops(Damaged(raw, {a}))
           /\ \A n \in 0..(Len(raw) - 1) : Drops(SubSeq(raw, 1, n))
           /\ \A extra \in {0, 255} : Drops(Append(raw, extra))
           /\ Drops(NotHex)

\* What a shorter answer makes of a value: nothing, or the beginning of a text.
Loses(short, full) == \/ short = full
                      \/ short = Absent

LosesText(short, full) == Loses(short, full) \/ (full # Absent /\ IsPrefix(short, full))

\* An answer with fewer registers loses readings and never changes one:
\* whatever the counts say, no cell or sensor has a number beyond its slots or
\* a reading that is another field's, and no default stands for a register
\* that did not come.
ShortFramesOnlyLoseFields(blocks) ==
  \A regs \in blocks : \A n \in 0..Len(regs) :
    LET full == RealtimeData(regs)
        short == RealtimeData(SubSeq(regs, 1, n))
        full_config == ConfigData(regs)
        short_config == ConfigData(SubSeq(regs, 1, n))
    IN  /\ \A f \in DOMAIN ConfigLayout : Loses(short_config.values[f], full_config.values[f])
        /\ \A f \in DOMAIN RealtimeLayout : Loses(short.values[f], full.values[f])
        /\ LosesText(short.serial, full.serial)
        /\ LosesText(short_config.sw_version, full_config.sw_version)
        /\ LosesText(short_config.hw_version, full_config.hw_version)
        /\ LosesText(short_config.machine_code, full_config.machine_code)
        /\ DOMAIN short.cells_v \subseteq DOMAIN full.cells_v \cap 1..\h20
        /\ DOMAIN short.temps_c \subseteq DOMAIN full.temps_c \cap 1..8
        /\ \A i \in DOMAIN short.cells_v : short.cells_v[i] = full.cells_v[i]
        /\ \A i \in DOMAIN short.temps_c : short.temps_c[i] = full.temps_c[i]

=============================================================================
