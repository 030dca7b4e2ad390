------------------------------ MODULE MCIngest ------------------------------
(* Two requests in flight for two packs whose frames gain and lose cells:   *)
(* what a realtime frame carries is what handle_entry makes of the answers  *)
(* of two sample packs, damaged and cut short ones among them.              *)
EXTENDS IngestedFrames, TLC, Sequences

Symmetry == Permutations(Handlers) \cup Permutations(Serials)

\* A block in which every register tells its own address but for the counts,
\* the cells after the second, the current and a blank in the serial.
Register(i, cells, temps) ==
  CASE i = 50       -> cells
    [] i = 51       -> temps
    [] i \in 3..32  -> 3300
    [] i = 42       -> 30100
    [] i = 92       -> 16416
    [] i = 93       -> 2570
    [] OTHER        -> 256 * 66 + 64 + (i % 32)
Registers(n, cells, temps) == [i \in 1..n |-> Register(i, cells, temps)]

\* Two cells and a sensor, or counts no pack has, and stale readings after them.
TwoCells(n) == Registers(n, 2, 1)
BadCount(n) == Registers(n, 65535, 9999)

AsBytes(regs) ==
  [i \in 1..(2 * Len(regs)) |->
     IF i % 2 = 1 THEN regs[(i + 1) \div 2] \div 256 ELSE regs[i \div 2] % 256]

\* The bits of the header, of the first cells, of the count and of the checksum.
TellingBits(raw) ==
  {b \in BitsOf(raw) : b \div 8 + 1 \in 1..11 \cup (Len(raw) - 3)..Len(raw)}

\* Answers that hold the counts, as they are and of fewer registers, and the
\* first of them with each of those bits turned over and cut anywhere.
Answers ==
  LET raw == Sent(AsBytes(TwoCells(51)))
  IN  {Sent(AsBytes(SubSeq(TwoCells(51), 1, n))) : n \in 0..51}
      \cup {Sent(AsBytes(BadCount(51)))}
      \cup {Damaged(raw, {b}) : b \in TellingBits(raw)}
      \cup {SubSeq(raw, 1, n) : n \in 0..Len(raw)}

Realtime ==
  {r \in {handle_entry(RealtimeRequest, raw) : raw \in Answers} : r.outcome = "realtime"}

DecodedCellSets == {DOMAIN r.data.cells_v : r \in Realtime}

\* (TLC evaluates the definition above once, and this one at each use.)
SampleCellSets == DecodedCellSets

VoltWindow == <<180, 20000>>

\* The framing and the decoding, on one register and on a whole block.
ASSUME FramingAssumption == OnlyIntactFramesParse({<<0, 255>>})
ASSUME DecodingAssumption == ShortFramesOnlyLoseFields({TwoCells(126)})
=============================================================================
