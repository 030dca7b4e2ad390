---------------------------- MODULE FramesProofs ----------------------------
(***************************************************************************)
(* What the decoder makes of an answer, for every answer: no cell without  *)
(* a register, nothing made up for a register that did not come, and every *)
(* frame that is cut or too long is dropped, and so is one of two that     *)
(* differ in one place or in an odd number of bits; what is sent as it     *)
(* should be arrives.  And what follows for the series of the registry,    *)
(* whatever devices send.                                                  *)
(***************************************************************************)
EXTENDS IngestedFrames, IngestProofs

-----------------------------------------------------------------------------
(* The registers.                                                          *)

LEMMA RegValue ==
  ASSUME NEW regs \in Seq(Nat), NEW base \in Int, NEW addr \in Int
  PROVE  /\ reg(regs, base, addr) # Absent <=> addr - base + 1 \in 1..Len(regs)
         /\ reg(regs, base, addr) # Absent =>
              reg(regs, base, addr) = regs[addr - base + 1] /\ reg(regs, base, addr) \in Nat
BY AbsentAssumption DEF reg

\* An answer cut after n registers has the same first ones.
LEMMA CutReg ==
  ASSUME NEW regs \in Seq(Nat), NEW n \in 0..Len(regs), NEW base, NEW addr
  PROVE  LET short == reg(SubSeq(regs, 1, n), base, addr)
         IN  short = Absent \/ short = reg(regs, base, addr)
<1> DEFINE cut == SubSeq(regs, 1, n)
           place == addr - base + 1
<1>1. DOMAIN cut = 1..n /\ DOMAIN regs = 1..Len(regs)
  OBVIOUS
<1>2. \A i \in 1..n : i \in 1..Len(regs) /\ cut[i] = regs[i]
  OBVIOUS
<1> HIDE DEF cut, place
<1>3. place \in DOMAIN cut => place \in DOMAIN regs /\ cut[place] = regs[place]
  BY <1>1, <1>2
<1> QED BY <1>3 DEF reg, cut, place

LEMMA CutIsSeq ==
  ASSUME NEW regs \in Seq(Nat), NEW n \in 0..Len(regs)
  PROVE  SubSeq(regs, 1, n) \in Seq(Nat) /\ Len(SubSeq(regs, 1, n)) = n
OBVIOUS

LEMMA CountBound ==
  ASSUME NEW regs \in Seq(Nat), NEW addr \in Int, NEW max \in Nat
  PROVE  /\ Count(regs, addr, max) \in 0..max
         /\ reg(regs, 0, addr) # Absent => Count(regs, addr, max) <= reg(regs, 0, addr)
         /\ reg(regs, 0, addr) = Absent => Count(regs, addr, max) = 0
<1>1. reg(regs, 0, addr) # Absent => reg(regs, 0, addr) \in Nat
  BY RegValue
<1> QED BY <1>1 DEF Count

LEMMA CutCount ==
  ASSUME NEW regs \in Seq(Nat), NEW n \in 0..Len(regs), NEW addr \in Int, NEW max \in Nat
  PROVE  LET short == Count(SubSeq(regs, 1, n), addr, max)
         IN  short = 0 \/ short = Count(regs, addr, max)
<1>1. \/ reg(SubSeq(regs, 1, n), 0, addr) = Absent
      \/ reg(SubSeq(regs, 1, n), 0, addr) = reg(regs, 0, addr)
  BY CutReg
<1> QED BY <1>1 DEF Count

LEMMA DataFields ==
  ASSUME NEW regs
  PROVE  LET d == RealtimeData(regs) IN
         /\ d.cells_v = Slots(regs, 0, Count(regs, \h31, MaxCells), "plain")
         /\ d.temps_c = Slots(regs, \h20, Count(regs, \h32, MaxTemps), "celsius")
         /\ d.serial = ascii(regs, 0, \h57, \h5D)
BY DEF RealtimeData

\* A slot is filled from its own register, and only if its count covers it.
LEMMA SlotsFilled ==
  ASSUME NEW regs \in Seq(Nat), NEW addr \in Nat, NEW count \in Nat, NEW kind
  PROVE  \A i \in DOMAIN Slots(regs, addr, count, kind) :
           /\ i \in 1..count
           /\ addr + i \in 1..Len(regs)
           /\ regs[addr + i] # 0
           /\ Slots(regs, addr, count, kind)[i] = Meaning(kind, regs[addr + i])
<1> TAKE i \in DOMAIN Slots(regs, addr, count, kind)
<1>1. /\ i \in 1..count
      /\ reg(regs, 0, addr + i - 1) \notin {Absent, 0}
      /\ Slots(regs, addr, count, kind)[i] = Meaning(kind, reg(regs, 0, addr + i - 1))
  BY DEF Slots
<1>2. addr + i - 1 \in Int /\ (addr + i - 1) - 0 + 1 = addr + i
  BY <1>1
<1>3. addr + i \in 1..Len(regs) /\ reg(regs, 0, addr + i - 1) = regs[addr + i]
  BY <1>1, <1>2, RegValue
<1> QED BY <1>1, <1>3

-----------------------------------------------------------------------------
(* Cells and sensors.                                                      *)

\* Whatever an answer says, a cell or a sensor it reports has a slot of its own,
\* a register of the answer behind it that is not zero, and a count that covers
\* it: from_registers on any registers.
THEOREM SlotsAreReal ==
  \A regs \in Seq(Nat) :
    LET d == RealtimeData(regs)
    IN  /\ \A i \in DOMAIN d.cells_v :
             /\ i \in 1..MaxCells /\ i <= Len(regs) /\ i <= regs[\h31 + 1]
             /\ d.cells_v[i] = regs[i] /\ regs[i] # 0
        /\ \A i \in DOMAIN d.temps_c :
             /\ i \in 1..MaxTemps /\ \h20 + i <= Len(regs) /\ i <= regs[\h32 + 1]
             /\ d.temps_c[i] = regs[\h20 + i] - 40 /\ regs[\h20 + i] # 0
<1> SUFFICES ASSUME NEW regs \in Seq(Nat)
             PROVE  LET d == RealtimeData(regs)
                    IN  /\ \A i \in DOMAIN d.cells_v :
                             /\ i \in 1..MaxCells /\ i <= Len(regs) /\ i <= regs[\h31 + 1]
                             /\ d.cells_v[i] = regs[i] /\ regs[i] # 0
                        /\ \A i \in DOMAIN d.temps_c :
                             /\ i \in 1..MaxTemps /\ \h20 + i <= Len(regs) /\ i <= regs[\h32 + 1]
                             /\ d.temps_c[i] = regs[\h20 + i] - 40 /\ regs[\h20 + i] # 0
  OBVIOUS
<1> DEFINE d == RealtimeData(regs)
           cells == Count(regs, \h31, MaxCells)
           temps == Count(regs, \h32, MaxTemps)
<1>1. ASSUME NEW addr \in Nat, NEW max \in Nat, NEW i \in 1..Count(regs, addr, max)
      PROVE  i \in 1..max /\ i <= regs[addr + 1]
  <2>1. Count(regs, addr, max) \in 0..max /\ Count(regs, addr, max) # 0
    BY <1>1, CountBound
  <2>2. reg(regs, 0, addr) # Absent /\ Count(regs, addr, max) <= reg(regs, 0, addr)
    BY <2>1, CountBound
  <2>3. reg(regs, 0, addr) = regs[addr + 1] /\ regs[addr + 1] \in Nat
    BY <2>2, RegValue
  <2> QED BY <2>1, <2>2, <2>3
<1>2. ASSUME NEW i \in DOMAIN d.cells_v
      PROVE  /\ i \in 1..MaxCells /\ i <= Len(regs) /\ i <= regs[\h31 + 1]
             /\ d.cells_v[i] = regs[i] /\ regs[i] # 0
  <2>1. d.cells_v = Slots(regs, 0, cells, "plain")
    BY DataFields
  <2>2. cells \in Nat
    BY CountBound DEF MaxCells
  <2>3. /\ i \in 1..cells /\ 0 + i \in 1..Len(regs) /\ regs[0 + i] # 0
        /\ d.cells_v[i] = Meaning("plain", regs[0 + i])
    <3> HIDE DEF cells, d
    <3> QED BY <1>2, <2>1, <2>2, SlotsFilled
  <2>4. i \in 1..MaxCells /\ i <= regs[\h31 + 1]
    BY <1>1, <2>3 DEF MaxCells
  <2>5. Meaning("plain", regs[i]) = regs[i]
    BY DEF Meaning
  <2>6. 0 + i = i
    BY <2>3
  <2> HIDE DEF d
  <2> QED BY <2>3, <2>4, <2>5, <2>6
<1>3. ASSUME NEW i \in DOMAIN d.temps_c
      PROVE  /\ i \in 1..MaxTemps /\ \h20 + i <= Len(regs) /\ i <= regs[\h32 + 1]
             /\ d.temps_c[i] = regs[\h20 + i] - 40 /\ regs[\h20 + i] # 0
  <2>1. d.temps_c = Slots(regs, \h20, temps, "celsius")
    BY DataFields
  <2>2. temps \in Nat
    BY CountBound DEF MaxTemps
  <2>3. /\ i \in 1..temps /\ \h20 + i \in 1..Len(regs) /\ regs[\h20 + i] # 0
        /\ d.temps_c[i] = Meaning("celsius", regs[\h20 + i])
    <3> HIDE DEF temps, d
    <3> QED BY <1>3, <2>1, <2>2, SlotsFilled
  <2>4. i \in 1..MaxTemps /\ i <= regs[\h32 + 1]
    BY <1>1, <2>3 DEF MaxTemps
  <2>5. Meaning("celsius", regs[\h20 + i]) = regs[\h20 + i] - 40
    BY DEF Meaning
  <2> HIDE DEF d
  <2> QED BY <2>3, <2>4, <2>5
<1> QED BY <1>2, <1>3

\* An answer cut short keeps the slots whose registers came, with their readings.
LEMMA CutSlots ==
  ASSUME NEW regs \in Seq(Nat), NEW n \in 0..Len(regs), NEW addr \in Nat, NEW at \in Nat,
         NEW max \in Nat, NEW kind
  PROVE  LET cut == SubSeq(regs, 1, n)
             short == Slots(cut, addr, Count(cut, at, max), kind)
             full == Slots(regs, addr, Count(regs, at, max), kind)
         IN  DOMAIN short \subseteq DOMAIN full \cap 1..max /\ \A i \in DOMAIN short : short[i] = full[i]
<1> DEFINE cut == SubSeq(regs, 1, n)
           short == Slots(cut, addr, Count(cut, at, max), kind)
           full == Slots(regs, addr, Count(regs, at, max), kind)
<1>1. cut \in Seq(Nat)
  BY CutIsSeq
<1>2. Count(cut, at, max) \in 0..max /\ Count(regs, at, max) \in 0..max
  <2> HIDE DEF cut
  <2> QED BY <1>1, CountBound
<1>3. Count(cut, at, max) = 0 \/ Count(cut, at, max) = Count(regs, at, max)
  BY CutCount
<1>4. ASSUME NEW i \in DOMAIN short
      PROVE  i \in DOMAIN full \cap 1..max /\ short[i] = full[i]
  <2>1. /\ i \in 1..Count(cut, at, max)
        /\ reg(cut, 0, addr + i - 1) \notin {Absent, 0}
        /\ short[i] = Meaning(kind, reg(cut, 0, addr + i - 1))
    BY <1>4 DEF Slots
  <2>2. i \in 1..Count(regs, at, max) /\ i \in 1..max
    BY <1>2, <1>3, <2>1
  <2>3. reg(cut, 0, addr + i - 1) = reg(regs, 0, addr + i - 1)
    BY <2>1, CutReg
  <2> QED BY <2>1, <2>2, <2>3 DEF Slots
<1> QED BY <1>4

-----------------------------------------------------------------------------
(* Texts.                                                                  *)

LEMMA SmallestNat ==
  ASSUME NEW Bad, Bad \subseteq Nat, Bad # {}
  PROVE  \E m \in Bad : \A k \in Bad : m <= k
<1>1. IsWellFoundedOn(OpToRel(<, Nat), Nat)
  BY NatLessThanWellFounded
<1>2. PICK m \in Bad : \A k \in Bad : ~(<<k, m>> \in OpToRel(<, Nat))
  BY <1>1, WFMin
<1>3. \A k \in Bad : ~(k < m) /\ k \in Nat
  BY <1>2 DEF OpToRel
<1> QED BY <1>3

\* The recursion of Cleaned, up to byte n.
Cleans(f, n, b) ==
  f = [i \in 0..n |->
         IF i = 0 THEN << >> ELSE IF Control(b[i]) THEN f[i - 1] ELSE Append(f[i - 1], b[i])]

LEMMA CleansAt ==
  ASSUME NEW f, NEW n \in Nat, NEW b, Cleans(f, n, b)
  PROVE  /\ f[0] = << >>
         /\ \A i \in 1..n : f[i] = IF Control(b[i]) THEN f[i - 1] ELSE Append(f[i - 1], b[i])
<1> DEFINE E(i) == IF i = 0 THEN << >>
                   ELSE IF Control(b[i]) THEN f[i - 1] ELSE Append(f[i - 1], b[i])
<1>1. f = [i \in 0..n |-> E(i)]
  BY DEF Cleans
<1> HIDE DEF E
<1>2. \A i \in 0..n : f[i] = E(i)
  BY <1>1
<1>3. f[0] = E(0) /\ \A i \in 1..n : f[i] = E(i) /\ i # 0
  BY <1>2
<1> QED BY <1>3 DEF E

LEMMA CleansExist ==
  ASSUME NEW n \in Nat, NEW b
  PROVE  \E f : Cleans(f, n, b)
<1> DEFINE Bad == {m \in Nat : ~\E f : Cleans(f, m, b)}
<1>1. ASSUME Bad # {} PROVE FALSE
  <2>1. PICK m \in Bad : \A k \in Bad : m <= k
    <3>1. Bad \subseteq Nat
      OBVIOUS
    <3> HIDE DEF Bad
    <3> QED BY <1>1, <3>1, SmallestNat
  <2>2. m \in Nat /\ ~\E f : Cleans(f, m, b)
    BY <2>1
  <2>3. CASE m = 0
    <3> DEFINE f == [i \in 0..0 |-> << >>]
    <3>1. \A i \in 0..0 : i = 0
      OBVIOUS
    <3>2. f = [i \in 0..0 |->
                 IF i = 0 THEN << >> ELSE IF Control(b[i]) THEN f[i - 1] ELSE Append(f[i - 1], b[i])]
      BY <3>1
    <3>3. Cleans(f, 0, b)
      <4> HIDE DEF f
      <4> QED BY <3>2 DEF Cleans
    <3> QED BY <2>2, <2>3, <3>3
  <2>4. CASE m # 0
    <3>1. m - 1 \in Nat /\ m - 1 \notin Bad
      BY <2>1, <2>2, <2>4
    <3>2. PICK e : Cleans(e, m - 1, b)
      BY <3>1
    <3> DEFINE F == [i \in 0..m |->
                       IF i = m
                       THEN IF Control(b[m]) THEN e[m - 1] ELSE Append(e[m - 1], b[m])
                       ELSE e[i]]
               E(i) == IF i = 0 THEN << >>
                       ELSE IF Control(b[i]) THEN F[i - 1] ELSE Append(F[i - 1], b[i])
    <3>3. /\ e[0] = << >>
          /\ \A i \in 1..m - 1 : e[i] = IF Control(b[i]) THEN e[i - 1] ELSE Append(e[i - 1], b[i])
      BY <3>1, <3>2, CleansAt
    <3>4. \A i \in 0..m : i # m => F[i] = e[i]
      OBVIOUS
    <3>5. F[m] = IF Control(b[m]) THEN e[m - 1] ELSE Append(e[m - 1], b[m])
      BY <2>2
    <3> HIDE DEF F
    <3>6. \A i \in 0..m : F[i] = E(i)
      <4> TAKE i \in 0..m
      <4>1. CASE i = 0
        BY <2>4, <3>3, <3>4, <4>1, <2>2
      <4>2. CASE i = m
        <5>1. F[m - 1] = e[m - 1]
          BY <2>2, <2>4, <3>4
        <5> QED BY <2>4, <3>5, <4>2, <5>1
      <4>3. CASE i # 0 /\ i # m
        <5>1. i \in 1..m - 1 /\ i - 1 \in 0..m /\ i - 1 # m
          BY <2>2, <4>3
        <5>2. F[i] = e[i] /\ F[i - 1] = e[i - 1]
          BY <3>4, <4>3, <5>1
        <5> QED BY <3>3, <4>3, <5>1, <5>2
      <4> QED BY <4>1, <4>2, <4>3
    <3>7. F = [i \in 0..m |-> F[i]]
      BY DEF F
    <3>8. F = [i \in 0..m |-> E(i)]
      <4> HIDE DEF E
      <4> QED BY <3>6, <3>7
    <3>9. Cleans(F, m, b)
      BY <3>8 DEF Cleans
    <3> QED BY <2>2, <3>9
  <2> QED BY <2>3, <2>4
<1> QED BY <1>1

LEMMA CleanedIs ==
  ASSUME NEW bytes \in Seq(Nat)
  PROVE  \E f : Cleans(f, Len(bytes), bytes) /\ Cleaned(bytes) = f[Len(bytes)]
<1> DEFINE Rule(f) ==
      f = [i \in 0..Len(bytes) |->
             IF i = 0 THEN << >>
             ELSE IF Control(bytes[i]) THEN f[i - 1] ELSE Append(f[i - 1], bytes[i])]
<1>1. \A f : Rule(f) <=> Cleans(f, Len(bytes), bytes)
  BY DEF Cleans
<1>2. \E f : Rule(f)
  <2>1. Len(bytes) \in Nat
    OBVIOUS
  <2>2. PICK f : Cleans(f, Len(bytes), bytes)
    BY <2>1, CleansExist
  <2> QED BY <1>1, <2>2
<1>3. Rule(CHOOSE f : Rule(f))
  BY <1>2
<1>4. Cleaned(bytes) = (CHOOSE f : Rule(f))[Len(bytes)]
  BY DEF Cleaned
<1> HIDE DEF Rule
<1> QED BY <1>1, <1>3, <1>4

\* What is cleaned is a sequence, and grows by at most one byte at a time.
LEMMA CleansType ==
  ASSUME NEW f, NEW n \in Nat, NEW b, \A i \in 1..n : b[i] \in Nat, Cleans(f, n, b)
  PROVE  \A i \in 0..n : f[i] \in Seq(Nat)
<1> DEFINE Bad == {i \in 0..n : f[i] \notin Seq(Nat)}
<1>1. ASSUME Bad # {} PROVE FALSE
  <2>1. PICK m \in Bad : \A k \in Bad : m <= k
    <3>1. Bad \subseteq Nat
      OBVIOUS
    <3> HIDE DEF Bad
    <3> QED BY <1>1, <3>1, SmallestNat
  <2>2. m \in 0..n /\ f[m] \notin Seq(Nat)
    BY <2>1
  <2>3. /\ f[0] = << >>
        /\ \A i \in 1..n : f[i] = IF Control(b[i]) THEN f[i - 1] ELSE Append(f[i - 1], b[i])
    BY CleansAt
  <2>4. m # 0
    <3>1. << >> \in Seq(Nat)
      OBVIOUS
    <3> HIDE DEF Bad
    <3> QED BY <2>2, <2>3, <3>1
  <2>5. m \in 1..n /\ m - 1 \in 0..n /\ m - 1 \notin Bad
    BY <2>1, <2>2, <2>4
  <2>6. f[m - 1] \in Seq(Nat) /\ b[m] \in Nat
    BY <2>5
  <2>7. f[m] = IF Control(b[m]) THEN f[m - 1] ELSE Append(f[m - 1], b[m])
    BY <2>3, <2>5
  <2> HIDE DEF Bad
  <2> QED BY <2>2, <2>6, <2>7
<1> QED BY <1>1

\* Where the bytes agree, so does what is cleaned of them.
LEMMA CleansAgree ==
  ASSUME NEW f, NEW n \in Nat, NEW b, Cleans(f, n, b),
         NEW e, NEW m \in 0..n, NEW a, Cleans(e, m, a), \A i \in 1..m : a[i] = b[i]
  PROVE  \A i \in 0..m : e[i] = f[i]
<1> DEFINE Bad == {i \in 0..m : e[i] # f[i]}
<1>1. ASSUME Bad # {} PROVE FALSE
  <2>1. PICK k \in Bad : \A j \in Bad : k <= j
    <3>1. Bad \subseteq Nat
      OBVIOUS
    <3> HIDE DEF Bad
    <3> QED BY <1>1, <3>1, SmallestNat
  <2>2. k \in 0..m /\ e[k] # f[k]
    BY <2>1
  <2>3. /\ f[0] = << >>
        /\ \A i \in 1..n : f[i] = IF Control(b[i]) THEN f[i - 1] ELSE Append(f[i - 1], b[i])
    BY CleansAt
  <2>4. /\ e[0] = << >>
        /\ \A i \in 1..m : e[i] = IF Control(a[i]) THEN e[i - 1] ELSE Append(e[i - 1], a[i])
    BY CleansAt
  <2>5. k # 0
    BY <2>2, <2>3, <2>4
  <2>6. k \in 1..m /\ k \in 1..n /\ k - 1 \in 0..m /\ k - 1 \notin Bad
    BY <2>1, <2>2, <2>5
  <2>7. e[k - 1] = f[k - 1] /\ a[k] = b[k]
    BY <2>6
  <2>8. /\ f[k] = IF Control(b[k]) THEN f[k - 1] ELSE Append(f[k - 1], b[k])
        /\ e[k] = IF Control(a[k]) THEN e[k - 1] ELSE Append(e[k - 1], a[k])
    BY <2>3, <2>4, <2>6
  <2> HIDE DEF Bad
  <2> QED BY <2>2, <2>7, <2>8
<1> QED BY <1>1

Begins(s, t) == Len(s) <= Len(t) /\ \A i \in 1..Len(s) : s[i] = t[i]

LEMMA CleansGrow ==
  ASSUME NEW f, NEW n \in Nat, NEW b, \A i \in 1..n : b[i] \in Nat, Cleans(f, n, b), NEW m \in 0..n
  PROVE  Begins(f[m], f[n])
<1> DEFINE Bad == {i \in m..n : ~Begins(f[m], f[i])}
<1>1. ASSUME Bad # {} PROVE FALSE
  <2>1. PICK k \in Bad : \A j \in Bad : k <= j
    <3>1. Bad \subseteq Nat
      OBVIOUS
    <3> HIDE DEF Bad
    <3> QED BY <1>1, <3>1, SmallestNat
  <2>2. k \in m..n /\ ~Begins(f[m], f[k])
    BY <2>1
  <2>3. \A i \in 0..n : f[i] \in Seq(Nat)
    BY CleansType
  <2>4. k # m
    BY <2>2, <2>3 DEF Begins
  <2>5. k \in 1..n /\ k - 1 \in m..n /\ k - 1 \notin Bad
    BY <2>1, <2>2, <2>4
  <2>6. Begins(f[m], f[k - 1])
    BY <2>5
  <2>7. f[k] = IF Control(b[k]) THEN f[k - 1] ELSE Append(f[k - 1], b[k])
    BY <2>5, CleansAt
  <2>8. f[m] \in Seq(Nat) /\ f[k - 1] \in Seq(Nat) /\ b[k] \in Nat
    BY <2>3, <2>5
  <2> HIDE DEF Bad
  <2>9. Begins(f[m], Append(f[k - 1], b[k]))
    BY <2>6, <2>8 DEF Begins
  <2> QED BY <2>2, <2>6, <2>7, <2>9
<1>2. n \in m..n
  OBVIOUS
<1> QED BY <1>1, <1>2

\* Trimming cuts before the first and after the last byte that is no blank.
LEMMA TrimmedIs ==
  ASSUME NEW t \in Seq(Nat)
  PROVE  \/ /\ \A i \in 1..Len(t) : t[i] = 32
            /\ Trimmed(t) = Absent
         \/ \E a, z \in 1..Len(t) :
              /\ a <= z /\ t[a] # 32 /\ t[z] # 32
              /\ \A i \in 1..Len(t) : t[i] # 32 => a <= i /\ i <= z
              /\ Trimmed(t) = SubSeq(t, a, z)
<1> DEFINE inked == {i \in DOMAIN t : t[i] # 32}
           Lowest(i) == i \in inked /\ \A j \in inked : i <= j
           Highest(i) == i \in inked /\ \A j \in inked : i >= j
<1>1. inked = {i \in 1..Len(t) : t[i] # 32}
  OBVIOUS
<1>2. CASE inked = {}
  <2>1. \A i \in 1..Len(t) : t[i] = 32
    BY <1>1, <1>2
  <2>2. Trimmed(t) = Absent
    BY <1>2 DEF Trimmed
  <2> QED BY <2>1, <2>2
<1>3. CASE inked # {}
  <2>1. \E i : Lowest(i)
    <3>1. inked \subseteq Nat
      BY <1>1
    <3> HIDE DEF inked
    <3> QED BY <1>3, <3>1, SmallestNat
  <2>2. \E i : Highest(i)
    <3> DEFINE behind == {Len(t) - i : i \in inked}
    <3>1. behind \subseteq Nat /\ behind # {}
      BY <1>1, <1>3
    <3>2. PICK m \in behind : \A k \in behind : m <= k
      <4> HIDE DEF behind
      <4> QED BY <3>1, SmallestNat
    <3>3. PICK i \in inked : m = Len(t) - i
      BY <3>2
    <3>4. \A j \in inked : Len(t) - i <= Len(t) - j
      BY <3>2, <3>3
    <3>5. \A j \in inked : j \in Int /\ Len(t) \in Int
      BY <1>1
    <3> HIDE DEF inked
    <3> QED BY <3>3, <3>4, <3>5
  <2> DEFINE a == CHOOSE i \in inked : \A j \in inked : i <= j
             z == CHOOSE i \in inked : \A j \in inked : i >= j
  <2>3. Lowest(a) /\ Highest(z)
    <3> HIDE DEF inked
    <3> QED BY <2>1, <2>2
  <2>4. Trimmed(t) = SubSeq(t, a, z)
    BY <1>3 DEF Trimmed
  <2> HIDE DEF a, z
  <2>5. a \in 1..Len(t) /\ z \in 1..Len(t) /\ t[a] # 32 /\ t[z] # 32
    BY <1>1, <2>3
  <2>6. a <= z /\ \A i \in 1..Len(t) : t[i] # 32 => a <= i /\ i <= z
    BY <1>1, <2>3, <2>5
  <2> QED BY <2>4, <2>5, <2>6
<1> QED BY <1>2, <1>3

LEMMA SubSeqIs ==
  ASSUME NEW s \in Seq(Nat), NEW a \in 1..Len(s), NEW z \in 1..Len(s), a <= z
  PROVE  /\ SubSeq(s, a, z) \in Seq(Nat) /\ Len(SubSeq(s, a, z)) = z - a + 1
         /\ \A i \in 1..z - a + 1 : SubSeq(s, a, z)[i] = s[a + i - 1]
<1>1. Len(SubSeq(s, a, z)) = z - a + 1
  OBVIOUS
<1>2. SubSeq(s, a, z) \in Seq(Nat)
  OBVIOUS
<1>3. ASSUME NEW i \in 1..z - a + 1 PROVE SubSeq(s, a, z)[i] = s[a + i - 1]
  OBVIOUS
<1> QED BY <1>1, <1>2, <1>3

LEMMA PrefixIs ==
  ASSUME NEW s \in Seq(Nat), NEW t \in Seq(Nat), Begins(s, t)
  PROVE  IsPrefix(s, t)
<1> DEFINE n == Len(s)
           S == SubSeq(s, 1, n)
           T == SubSeq(t, 1, n)
<1>1. n \in Nat /\ n <= Len(t)
  BY DEF Begins
<1>2. S \in Seq(Nat) /\ T \in Seq(Nat) /\ Len(S) = n /\ Len(T) = n
  BY <1>1
<1>3. ASSUME NEW i \in 1..n PROVE S[i] = T[i]
  <2>1. S[i] = s[i]
    BY <1>1
  <2>2. T[i] = t[i]
    BY <1>1
  <2> QED BY <2>1, <2>2 DEF Begins
<1> HIDE DEF n, S, T
<1>4. S = T
  BY <1>2, <1>3
<1> QED BY <1>1, <1>4 DEF IsPrefix, n, S, T

\* The beginning of a text, trimmed, is nothing or the beginning of the text.
LEMMA TrimmedBegins ==
  ASSUME NEW s \in Seq(Nat), NEW t \in Seq(Nat), Begins(s, t)
  PROVE  LosesText(Trimmed(s), Trimmed(t))
<1>1. CASE Trimmed(s) = Absent
  BY <1>1 DEF LosesText, Loses
<1>2. CASE Trimmed(s) # Absent
  <2>1. PICK a \in 1..Len(s), z \in 1..Len(s) :
          /\ a <= z /\ s[a] # 32 /\ s[z] # 32
          /\ \A i \in 1..Len(s) : s[i] # 32 => a <= i /\ i <= z
          /\ Trimmed(s) = SubSeq(s, a, z)
    BY <1>2, TrimmedIs
  <2>2. Len(s) \in Nat /\ Len(t) \in Nat /\ Len(s) <= Len(t)
        /\ \A i \in 1..Len(s) : i \in 1..Len(t) /\ s[i] = t[i]
    BY DEF Begins
  <2>3. a \in 1..Len(t) /\ z \in 1..Len(t) /\ t[a] # 32 /\ t[z] # 32
    BY <2>1, <2>2
  <2>4. PICK c \in 1..Len(t), y \in 1..Len(t) :
          /\ c <= y /\ t[c] # 32 /\ t[y] # 32
          /\ \A i \in 1..Len(t) : t[i] # 32 => c <= i /\ i <= y
          /\ Trimmed(t) = SubSeq(t, c, y)
    BY <2>3, TrimmedIs
  <2>5. c = a /\ z <= y
    <3>1. c <= a /\ z <= y
      BY <2>3, <2>4
    <3>2. c \in 1..Len(s)
      BY <2>2, <3>1
    <3>3. s[c] = t[c]
      BY <2>2, <3>2
    <3>4. a <= c
      BY <2>1, <2>4, <3>2, <3>3
    <3> QED BY <3>1, <3>4
  <2> DEFINE S == SubSeq(s, a, z)
             T == SubSeq(t, a, y)
  <2>6. /\ S \in Seq(Nat) /\ Len(S) = z - a + 1
        /\ \A i \in 1..z - a + 1 : S[i] = s[a + i - 1]
    BY <2>1, SubSeqIs
  <2>7. /\ T \in Seq(Nat) /\ Len(T) = y - a + 1
        /\ \A i \in 1..y - a + 1 : T[i] = t[a + i - 1]
    <3>1. a <= y
      BY <2>1, <2>5
    <3> QED BY <2>3, <3>1, SubSeqIs
  <2>8. Trimmed(s) = S /\ Trimmed(t) = T
    BY <2>1, <2>4, <2>5
  <2> HIDE DEF S, T
  <2>9. Len(S) <= Len(T)
    BY <2>5, <2>6, <2>7
  <2>10. ASSUME NEW i \in 1..Len(S) PROVE S[i] = T[i]
    <3>1. i \in 1..z - a + 1 /\ i \in 1..y - a + 1
      BY <2>5, <2>6
    <3>2. a + i - 1 \in 1..Len(s)
      BY <3>1
    <3>3. S[i] = s[a + i - 1] /\ T[i] = t[a + i - 1]
      BY <2>6, <2>7, <3>1
    <3>4. s[a + i - 1] = t[a + i - 1]
      BY <2>2, <3>2
    <3> QED BY <3>3, <3>4
  <2>11. IsPrefix(S, T)
    BY <2>6, <2>7, <2>9, <2>10, PrefixIs DEF Begins
  <2>12. T # Absent
    BY <2>7, AbsentAssumption
  <2> QED BY <2>8, <2>11, <2>12 DEF LosesText
<1> QED BY <1>1, <1>2

\* The registers of a text that came, and byte i of what they hold.
Held(regs, base, first, last) == {a \in first..last : reg(regs, base, a) # Absent}
ByteOf(regs, base, first, i) ==
  LET r == reg(regs, base, first + (i - 1) \div 2)
  IN  IF i % 2 = 1 THEN r \div 256 ELSE r % 256

\* They are the first ones, size of them.
Came(regs, base, first, last, size) ==
  /\ Cardinality(Held(regs, base, first, last)) = size
  /\ Held(regs, base, first, last) = first..(first + size - 1)

LEMMA HeldIs ==
  ASSUME NEW regs \in Seq(Nat), NEW base \in Nat, NEW first \in Nat, NEW last \in Nat,
         base <= first
  PROVE  \E size \in Nat : Came(regs, base, first, last, size)
<1> DEFINE top == IF base + Len(regs) - 1 < last THEN base + Len(regs) - 1 ELSE last
           held == Held(regs, base, first, last)
<1>1. top \in Int /\ top <= last /\ top - base + 1 <= Len(regs)
  OBVIOUS
<1>2. \A a \in first..last : a <= top <=> reg(regs, base, a) # Absent
  <2> TAKE a \in first..last
  <2>1. reg(regs, base, a) # Absent <=> a - base + 1 \in 1..Len(regs)
    BY RegValue
  <2>2. a - base + 1 \in 1..Len(regs) <=> a <= top
    OBVIOUS
  <2> QED BY <2>1, <2>2
<1>3. held = first..top
  <2> HIDE DEF top
  <2> QED BY <1>1, <1>2 DEF Held
<1> HIDE DEF top, held
<1>4. Cardinality(first..top) = IF first > top THEN 0 ELSE top - first + 1
  BY <1>1, FS_Interval
<1>5. CASE first > top
  <2>1. first..top = first..(first + 0 - 1)
    BY <1>1, <1>5
  <2> QED BY <1>3, <1>4, <1>5, <2>1 DEF held, Came
<1>6. CASE ~(first > top)
  <2>1. top - first + 1 \in Nat /\ first + (top - first + 1) - 1 = top
    BY <1>1, <1>6
  <2> QED BY <1>3, <1>4, <1>6, <2>1 DEF held, Came
<1> QED BY <1>5, <1>6

LEMMA ByteInRegister ==
  ASSUME NEW first \in Nat, NEW size \in Nat, NEW i \in 1..(2 * size)
  PROVE  first + (i - 1) \div 2 \in first..(first + size - 1)
<1>1. (i - 1) \div 2 \in Nat /\ (i - 1) \div 2 < size
  OBVIOUS
<1> QED BY <1>1

LEMMA TextBytesIs ==
  ASSUME NEW regs \in Seq(Nat), NEW base \in Nat, NEW first \in Nat, NEW last \in Nat,
         base <= first,
         NEW size \in Nat, Came(regs, base, first, last, size)
  PROVE  /\ TextBytes(regs, base, first, last) \in Seq(Nat)
         /\ Len(TextBytes(regs, base, first, last)) = 2 * size
         /\ \A i \in 1..(2 * size) :
              TextBytes(regs, base, first, last)[i] = ByteOf(regs, base, first, i)
<1>1. TextBytes(regs, base, first, last) = [i \in 1..(2 * size) |-> ByteOf(regs, base, first, i)]
  BY DEF TextBytes, Held, ByteOf, Came
<1>2. ASSUME NEW i \in 1..(2 * size) PROVE ByteOf(regs, base, first, i) \in Nat
  <2> DEFINE a == first + (i - 1) \div 2
             r == reg(regs, base, a)
  <2>1. a \in first..(first + size - 1)
    BY ByteInRegister
  <2>2. r # Absent /\ a \in Int
    <3> HIDE DEF a
    <3> QED BY <2>1 DEF Held, Came
  <2>3. r \in Nat
    <3> HIDE DEF a
    <3> QED BY <2>2, RegValue
  <2>4. ByteOf(regs, base, first, i) = IF i % 2 = 1 THEN r \div 256 ELSE r % 256
    BY DEF ByteOf
  <2> HIDE DEF r
  <2>5. r \div 256 \in Nat /\ r % 256 \in Nat
    BY <2>3
  <2> QED BY <2>4, <2>5
<1>3. 2 * size \in Nat
  OBVIOUS
<1> DEFINE T == TextBytes(regs, base, first, last)
<1> HIDE DEF T
<1>4. T = [i \in 1..(2 * size) |-> ByteOf(regs, base, first, i)]
  BY <1>1 DEF T
<1>5. T \in [1..(2 * size) -> Nat]
  BY <1>2, <1>4
<1>6. T \in Seq(Nat) /\ Len(T) = 2 * size
  BY <1>3, <1>5
<1>7. \A i \in 1..(2 * size) : T[i] = ByteOf(regs, base, first, i)
  BY <1>4
<1> QED BY <1>6, <1>7 DEF T

\* The bytes of a shorter answer are the first of those of the whole one.
LEMMA CutBytes ==
  ASSUME NEW regs \in Seq(Nat), NEW n \in 0..Len(regs),
         NEW base \in Nat, NEW first \in Nat, NEW last \in Nat, base <= first
  PROVE  LET short == TextBytes(SubSeq(regs, 1, n), base, first, last)
             full == TextBytes(regs, base, first, last)
         IN  short \in Seq(Nat) /\ full \in Seq(Nat) /\ Begins(short, full)
<1> DEFINE cut == SubSeq(regs, 1, n)
           short == TextBytes(cut, base, first, last)
           full == TextBytes(regs, base, first, last)
<1>1. cut \in Seq(Nat)
  BY CutIsSeq
<1>2. \A a \in Int : reg(cut, base, a) = Absent \/ reg(cut, base, a) = reg(regs, base, a)
  BY CutReg
<1> HIDE DEF cut
<1>3. PICK k \in Nat : Came(cut, base, first, last, k)
  BY <1>1, HeldIs
<1>4. PICK m \in Nat : Came(regs, base, first, last, m)
  BY HeldIs
<1>5. \A a \in first..(first + k - 1) :
        a \in first..(first + m - 1) /\ reg(cut, base, a) = reg(regs, base, a)
  <2> TAKE a \in first..(first + k - 1)
  <2>1. a \in Held(cut, base, first, last)
    BY <1>3 DEF Came
  <2>2. a \in first..last /\ reg(cut, base, a) # Absent /\ a \in Int
    BY <2>1 DEF Held
  <2>3. reg(cut, base, a) = reg(regs, base, a)
    BY <1>2, <2>2
  <2>4. a \in Held(regs, base, first, last)
    BY <2>2, <2>3 DEF Held
  <2> QED BY <1>4, <2>3, <2>4 DEF Came
<1>6. k <= m
  <2>1. CASE k = 0
    BY <2>1
  <2>2. CASE k # 0
    <3>1. first + k - 1 \in first..(first + k - 1)
      BY <2>2
    <3>2. first + k - 1 \in first..(first + m - 1)
      BY <1>5, <3>1
    <3> QED BY <3>2
  <2> QED BY <2>1, <2>2
<1>7. /\ short \in Seq(Nat) /\ Len(short) = 2 * k
      /\ \A i \in 1..(2 * k) : short[i] = ByteOf(cut, base, first, i)
  BY <1>1, <1>3, TextBytesIs
<1>8. /\ full \in Seq(Nat) /\ Len(full) = 2 * m
      /\ \A i \in 1..(2 * m) : full[i] = ByteOf(regs, base, first, i)
  BY <1>4, TextBytesIs
<1> HIDE DEF short, full
<1>9. ASSUME NEW i \in 1..(2 * k) PROVE short[i] = full[i]
  <2>1. i \in 1..(2 * m)
    BY <1>6
  <2>2. first + (i - 1) \div 2 \in first..(first + k - 1)
    BY ByteInRegister
  <2>3. ByteOf(cut, base, first, i) = ByteOf(regs, base, first, i)
    BY <1>5, <2>2 DEF ByteOf
  <2> QED BY <1>7, <1>8, <2>1, <2>3
<1>10. Begins(short, full)
  <2>1. 2 * k <= 2 * m
    BY <1>6
  <2> QED BY <1>7, <1>8, <1>9, <2>1 DEF Begins
<1> QED BY <1>7, <1>8, <1>10 DEF short, full, cut

LEMMA CleanedBegins ==
  ASSUME NEW s \in Seq(Nat), NEW t \in Seq(Nat), Begins(s, t)
  PROVE  Cleaned(s) \in Seq(Nat) /\ Cleaned(t) \in Seq(Nat) /\ Begins(Cleaned(s), Cleaned(t))
<1> DEFINE m == Len(s)
           n == Len(t)
<1>1. n \in Nat /\ m \in 0..n /\ m \in Nat
  BY DEF Begins
<1>2. /\ \A i \in 1..m : s[i] \in Nat /\ s[i] = t[i]
      /\ \A i \in 1..n : t[i] \in Nat
  BY DEF Begins
<1>3. PICK e : Cleans(e, m, s) /\ Cleaned(s) = e[m]
  BY CleanedIs
<1>4. PICK f : Cleans(f, n, t) /\ Cleaned(t) = f[n]
  BY CleanedIs
<1> HIDE DEF m, n
<1>5. \A i \in 0..m : e[i] = f[i]
  BY <1>1, <1>2, <1>3, <1>4, CleansAgree
<1>6. e[m] = f[m]
  BY <1>1, <1>5
<1>7. Begins(f[m], f[n])
  BY <1>1, <1>2, <1>4, CleansGrow
<1>8. \A i \in 0..n : f[i] \in Seq(Nat)
  BY <1>1, <1>2, <1>4, CleansType
<1>9. f[m] \in Seq(Nat) /\ f[n] \in Seq(Nat)
  BY <1>1, <1>8
<1> QED BY <1>3, <1>4, <1>6, <1>7, <1>9

\* A text of a shorter answer is none or the beginning of the text.
LEMMA CutText ==
  ASSUME NEW regs \in Seq(Nat), NEW n \in 0..Len(regs),
         NEW base \in Nat, NEW first \in Nat, NEW last \in Nat, base <= first
  PROVE  LosesText(ascii(SubSeq(regs, 1, n), base, first, last), ascii(regs, base, first, last))
<1> DEFINE s == TextBytes(SubSeq(regs, 1, n), base, first, last)
           t == TextBytes(regs, base, first, last)
<1>1. s \in Seq(Nat) /\ t \in Seq(Nat) /\ Begins(s, t)
  BY CutBytes
<1> HIDE DEF s, t
<1> DEFINE cs == Cleaned(s)
           ct == Cleaned(t)
<1>2. cs \in Seq(Nat) /\ ct \in Seq(Nat) /\ Begins(cs, ct)
  BY <1>1, CleanedBegins
<1> HIDE DEF cs, ct
<1>3. LosesText(Trimmed(cs), Trimmed(ct))
  BY <1>2, TrimmedBegins
<1> QED BY <1>3 DEF ascii, s, t, cs, ct

\* A field of a shorter answer is absent or what it was.
LEMMA CutField ==
  ASSUME NEW regs \in Seq(Nat), NEW n \in 0..Len(regs), NEW base, NEW layout
  PROVE  \A f \in DOMAIN layout :
           Loses(Field(SubSeq(regs, 1, n), base, layout)[f], Field(regs, base, layout)[f])
<1> DEFINE cut == SubSeq(regs, 1, n)
<1> TAKE f \in DOMAIN layout
<1> DEFINE at == layout[f].at
<1>1. reg(cut, base, at) = Absent \/ reg(cut, base, at) = reg(regs, base, at)
  BY CutReg
<1> HIDE DEF cut
<1>2. /\ Field(cut, base, layout)[f] =
           IF reg(cut, base, at) = Absent THEN Absent
           ELSE Meaning(layout[f].kind, reg(cut, base, at))
      /\ Field(regs, base, layout)[f] =
           IF reg(regs, base, at) = Absent THEN Absent
           ELSE Meaning(layout[f].kind, reg(regs, base, at))
  BY DEF Field
<1> HIDE DEF at
<1> QED BY <1>1, <1>2 DEF Loses, cut

\* What the checks sample: a short answer, which modbus.rs accepts when its
\* length byte agrees, only ever loses readings.  For every answer and every
\* number of registers left of it.
THEOREM ShortFramesTheorem == \A blocks \in SUBSET Seq(Nat) : ShortFramesOnlyLoseFields(blocks)
<1> SUFFICES ASSUME NEW blocks \in SUBSET Seq(Nat), NEW regs \in blocks, NEW n \in 0..Len(regs)
             PROVE
    LET full == RealtimeData(regs)
        short == RealtimeData(SubSeq(regs, 1, n))
        full_config == ConfigData(regs)
        short_config == ConfigData(SubSeq(regs, 1, n))
    IN  /\ \A f \in DOMAIN ConfigLayout : Loses(short_config.values[f], full_config.values[f])
        /\ \A f \in DOMAIN RealtimeLayout : Loses(short.values[f], full.values[f])
        /\ LosesText(short.serial, full.serial)
        /\ LosesText(short_config.sw_version, full_config.sw_version)
        /\ LosesText(short_config.hw_version, full_config.hw_version)
        /\ LosesText(short_config.machine_code, full_config.machine_code)
        /\ DOMAIN short.cells_v \subseteq DOMAIN full.cells_v \cap 1..\h20
        /\ DOMAIN short.temps_c \subseteq DOMAIN full.temps_c \cap 1..8
        /\ \A i \in DOMAIN short.cells_v : short.cells_v[i] = full.cells_v[i]
        /\ \A i \in DOMAIN short.temps_c : short.temps_c[i] = full.temps_c[i]
  BY DEF ShortFramesOnlyLoseFields
<1> DEFINE cut == SubSeq(regs, 1, n)
           full == RealtimeData(regs)
           short == RealtimeData(cut)
           full_config == ConfigData(regs)
           short_config == ConfigData(cut)
<1>0. regs \in Seq(Nat)
  OBVIOUS
<1>1. \A f \in DOMAIN ConfigLayout : Loses(short_config.values[f], full_config.values[f])
  <2>1. short_config.values = Field(cut, ConfigBase, ConfigLayout)
    BY DEF ConfigData
  <2>2. full_config.values = Field(regs, ConfigBase, ConfigLayout)
    BY DEF ConfigData
  <2> QED BY <1>0, <2>1, <2>2, CutField
<1>2. \A f \in DOMAIN RealtimeLayout : Loses(short.values[f], full.values[f])
  <2>1. short.values = Field(cut, 0, RealtimeLayout)
    BY DEF RealtimeData
  <2>2. full.values = Field(regs, 0, RealtimeLayout)
    BY DEF RealtimeData
  <2> QED BY <1>0, <2>1, <2>2, CutField
<1>3. LosesText(short.serial, full.serial)
  <2>1. short.serial = ascii(cut, 0, \h57, \h5D) /\ full.serial = ascii(regs, 0, \h57, \h5D)
    BY DataFields
  <2>2. LosesText(ascii(cut, 0, \h57, \h5D), ascii(regs, 0, \h57, \h5D))
    BY <1>0, CutText
  <2> QED BY <2>1, <2>2
<1>4. /\ LosesText(short_config.sw_version, full_config.sw_version)
      /\ LosesText(short_config.hw_version, full_config.hw_version)
      /\ LosesText(short_config.machine_code, full_config.machine_code)
  <2>1. /\ LosesText(ascii(cut, 128, \hA9, \hAF), ascii(regs, 128, \hA9, \hAF))
        /\ LosesText(ascii(cut, 128, \hB1, \hB7), ascii(regs, 128, \hB1, \hB7))
        /\ LosesText(ascii(cut, 128, \hB9, \hC0), ascii(regs, 128, \hB9, \hC0))
    BY <1>0, CutText
  <2>2. \A r : LET c == ConfigData(r)
               IN  /\ c.sw_version = ascii(r, 128, \hA9, \hAF)
                   /\ c.hw_version = ascii(r, 128, \hB1, \hB7)
                   /\ c.machine_code = ascii(r, 128, \hB9, \hC0)
    BY DEF ConfigData, ConfigBase
  <2> HIDE DEF cut
  <2> QED BY <2>1, <2>2
<1>5. /\ DOMAIN short.cells_v \subseteq DOMAIN full.cells_v \cap 1..\h20
      /\ \A i \in DOMAIN short.cells_v : short.cells_v[i] = full.cells_v[i]
  <2> DEFINE a == Slots(cut, 0, Count(cut, \h31, MaxCells), "plain")
             b == Slots(regs, 0, Count(regs, \h31, MaxCells), "plain")
  <2>1. DOMAIN a \subseteq DOMAIN b \cap 1..MaxCells /\ \A i \in DOMAIN a : a[i] = b[i]
    <3>1. MaxCells \in Nat
      BY DEF MaxCells
    <3> QED BY <1>0, <3>1, CutSlots
  <2>2. short.cells_v = a /\ full.cells_v = b
    BY DataFields
  <2> HIDE DEF a, b, short, full
  <2> QED BY <2>1, <2>2 DEF MaxCells
<1>6. /\ DOMAIN short.temps_c \subseteq DOMAIN full.temps_c \cap 1..8
      /\ \A i \in DOMAIN short.temps_c : short.temps_c[i] = full.temps_c[i]
  <2> DEFINE a == Slots(cut, \h20, Count(cut, \h32, MaxTemps), "celsius")
             b == Slots(regs, \h20, Count(regs, \h32, MaxTemps), "celsius")
  <2>1. DOMAIN a \subseteq DOMAIN b \cap 1..MaxTemps /\ \A i \in DOMAIN a : a[i] = b[i]
    <3>1. MaxTemps \in Nat
      BY DEF MaxTemps
    <3> QED BY <1>0, <3>1, CutSlots
  <2>2. short.temps_c = a /\ full.temps_c = b
    BY DataFields
  <2> HIDE DEF a, b, short, full
  <2> QED BY <2>1, <2>2 DEF MaxTemps
<1> HIDE DEF short, full, short_config, full_config
<1> QED BY <1>1, <1>2, <1>3, <1>4, <1>5, <1>6 DEF short, full, short_config, full_config

-----------------------------------------------------------------------------
(* Frames.                                                                 *)

LEMMA TwoBytes == \A hi, lo \in Nat : BigEndian(hi, lo) \in Nat
BY DEF BigEndian

\* What an accepted frame says of itself: enough bytes, and as many as it
\* declares; then a register is two of them.
LEMMA Accepted ==
  ASSUME NEW raw \in Seq(Nat), parse_response(raw).reason = Absent
  PROVE  /\ Len(raw) >= 5 /\ raw[1] = BmsAddress /\ raw[2] = ReadHolding
         /\ raw[3] \in Nat /\ Len(raw) = raw[3] + 5
         /\ parse_response(raw).regs \in Seq(Nat)
         /\ Len(parse_response(raw).regs) = raw[3] \div 2
<1> DEFINE size == raw[3]
           regs == [i \in 1..(size \div 2) |-> BigEndian(raw[2 * i + 2], raw[2 * i + 3])]
<1>1. \A r \in DROP_REASONS : Rejected(r).reason # Absent
  BY AbsentAssumption DEF Rejected
<1>2. {"bad_hex", "too_short", "bad_frame", "crc"} \subseteq DROP_REASONS
  BY DEF DROP_REASONS
<1>3. /\ raw # NotHex /\ ~(Len(raw) < 5)
      /\ ~(raw[1] # BmsAddress \/ raw[2] # ReadHolding \/ Len(raw) # raw[3] + 5)
      /\ parse_response(raw) = [reason |-> Absent, regs |-> regs]
  BY <1>1, <1>2 DEF parse_response
<1>4. size \in Nat /\ Len(raw) = size + 5
  BY <1>3
<1>5. \A i \in 1..(size \div 2) : BigEndian(raw[2 * i + 2], raw[2 * i + 3]) \in Nat
  <2> TAKE i \in 1..(size \div 2)
  <2>1. 2 * i + 2 \in 1..Len(raw) /\ 2 * i + 3 \in 1..Len(raw)
    BY <1>4
  <2>2. raw[2 * i + 2] \in Nat /\ raw[2 * i + 3] \in Nat
    BY <2>1
  <2> QED BY <2>2, TwoBytes
<1>6. size \div 2 \in Nat
  BY <1>4
<1>7. regs \in [1..(size \div 2) -> Nat]
  <2> HIDE DEF size
  <2> QED BY <1>5
<1>8. regs \in Seq(Nat) /\ Len(regs) = size \div 2
  <2> HIDE DEF regs, size
  <2> QED BY <1>6, <1>7
<1> HIDE DEF regs
<1> QED BY <1>3, <1>4, <1>8

\* An answer whose length byte does not tell its length is refused.
LEMMA Refused ==
  ASSUME NEW raw \in Seq(Nat), ~(Len(raw) >= 5 /\ Len(raw) = raw[3] + 5)
  PROVE  parse_response(raw).reason \in {"bad_hex", "too_short", "bad_frame"}
<1>1. CASE raw = NotHex
  BY <1>1 DEF parse_response, Rejected
<1>2. CASE raw # NotHex /\ Len(raw) < 5
  BY <1>2 DEF parse_response, Rejected
<1>3. CASE raw # NotHex /\ ~(Len(raw) < 5)
  <2>1. Len(raw) # raw[3] + 5
    BY <1>3
  <2> QED BY <1>3, <2>1 DEF parse_response, Rejected
<1> QED BY <1>1, <1>2, <1>3

\* The reasons parse_response and implausibility give are counted ones.
LEMMA ReasonsCounted ==
  /\ \A raw : parse_response(raw).reason \in DROP_REASONS \cup {Absent}
  /\ \A d : implausibility(d) \in DROP_REASONS \cup {Absent}
<1>1. {"bad_hex", "too_short", "bad_frame", "crc", "implausible_current",
       "implausible_voltage"} \subseteq DROP_REASONS
  BY DEF DROP_REASONS
<1>2. ASSUME NEW raw PROVE parse_response(raw).reason \in DROP_REASONS \cup {Absent}
  <2>1. \A r : Rejected(r).reason = r
    BY DEF Rejected
  <2>2. \/ \E r \in {"bad_hex", "too_short", "bad_frame", "crc"} : parse_response(raw) = Rejected(r)
        \/ parse_response(raw).reason = Absent
    BY DEF parse_response
  <2> QED BY <1>1, <2>1, <2>2
<1>3. ASSUME NEW d PROVE implausibility(d) \in DROP_REASONS \cup {Absent}
  BY <1>1 DEF implausibility
<1> QED BY <1>2, <1>3

LEMMA BlockKinds ==
  \A command : Block(command) \in {"bad_command", "unknown_block", "realtime", "config"}
BY DEF Block

\* An entry is dropped with a reason there is a counter for and leaves no data
\* behind, or it is decoded: to the block its request names, from the registers
\* of an answer that parses.  handle_entry has no other way out.
THEOREM OutcomeTheorem ==
  \A command, raw :
    LET entry == handle_entry(command, raw)
    IN  \/ entry.outcome \in DROP_REASONS /\ entry.data = << >>
        \/ /\ parse_response(raw).reason = Absent
           /\ entry.outcome = Block(command)
           /\ \/ /\ entry = Decoded("realtime", RealtimeData(parse_response(raw).regs))
                 /\ implausibility(entry.data) = Absent
              \/ entry = Decoded("config", ConfigData(parse_response(raw).regs))
<1> SUFFICES ASSUME NEW command, NEW raw
             PROVE  LET entry == handle_entry(command, raw)
                    IN  \/ entry.outcome \in DROP_REASONS /\ entry.data = << >>
                        \/ /\ parse_response(raw).reason = Absent
                           /\ entry.outcome = Block(command)
                           /\ \/ /\ entry = Decoded("realtime", RealtimeData(parse_response(raw).regs))
                                 /\ implausibility(entry.data) = Absent
                              \/ entry = Decoded("config", ConfigData(parse_response(raw).regs))
  OBVIOUS
<1> DEFINE entry == handle_entry(command, raw)
           answer == parse_response(raw)
           block == Block(command)
           d == RealtimeData(answer.regs)
<1>1. \A r : Dropped_for(r).outcome = r /\ Dropped_for(r).data = << >>
  BY DEF Dropped_for
<1>2. \A as, x : Decoded(as, x).outcome = as /\ Decoded(as, x).data = x
  BY DEF Decoded
<1>3. {"bad_command", "unknown_block"} \subseteq DROP_REASONS
  BY DEF DROP_REASONS
<1>4. answer.reason \in DROP_REASONS \cup {Absent} /\ implausibility(d) \in DROP_REASONS \cup {Absent}
  BY ReasonsCounted
<1>5. block \in {"bad_command", "unknown_block", "realtime", "config"}
  BY BlockKinds
<1>6. entry =
        CASE block \in {"bad_command", "unknown_block"} -> Dropped_for(block)
          [] block \in {"realtime", "config"} /\ answer.reason # Absent ->
               Dropped_for(answer.reason)
          [] block = "realtime" /\ answer.reason = Absent ->
               IF implausibility(d) # Absent THEN Dropped_for(implausibility(d))
               ELSE Decoded("realtime", d)
          [] block = "config" /\ answer.reason = Absent ->
               Decoded("config", ConfigData(answer.regs))
  BY DEF handle_entry
<1> HIDE DEF entry, block
<1>7. CASE block \in {"bad_command", "unknown_block"}
  <2>1. entry = Dropped_for(block)
    BY <1>6, <1>7
  <2> QED BY <1>1, <1>3, <1>7, <2>1 DEF entry, block
<1>8. CASE block \in {"realtime", "config"} /\ answer.reason # Absent
  <2>1. entry = Dropped_for(answer.reason)
    BY <1>6, <1>8
  <2> QED BY <1>1, <1>4, <1>8, <2>1 DEF entry, block
<1>9. CASE block = "realtime" /\ answer.reason = Absent
  <2>1. entry = IF implausibility(d) # Absent THEN Dropped_for(implausibility(d))
                ELSE Decoded("realtime", d)
    BY <1>6, <1>9
  <2>2. CASE implausibility(d) # Absent
    BY <1>1, <1>4, <2>1, <2>2 DEF entry, block
  <2>3. CASE implausibility(d) = Absent
    BY <1>2, <1>9, <2>1, <2>3 DEF entry, block
  <2> QED BY <2>2, <2>3
<1>10. CASE block = "config" /\ answer.reason = Absent
  <2>1. entry = Decoded("config", ConfigData(answer.regs))
    BY <1>6, <1>10
  <2> QED BY <1>2, <1>10, <2>1 DEF entry, block
<1> QED BY <1>4, <1>5, <1>7, <1>8, <1>9, <1>10

\* Of two answers one of which is the beginning of the other, at most one is
\* accepted: the length byte tells the length.  So every answer cut short and
\* every answer with bytes too many is dropped, whatever the checksum says.
THEOREM LengthTheorem ==
  \A raw, other \in Seq(Nat) :
    Begins(raw, other) /\ raw # other =>
      \A command, request :
        \/ handle_entry(command, raw).outcome \in DROP_REASONS
        \/ handle_entry(request, other).outcome \in DROP_REASONS
<1> SUFFICES ASSUME NEW raw \in Seq(Nat), NEW other \in Seq(Nat),
                    Begins(raw, other), raw # other, NEW command, NEW request,
                    handle_entry(command, raw).outcome \notin DROP_REASONS,
                    handle_entry(request, other).outcome \notin DROP_REASONS
             PROVE  FALSE
  OBVIOUS
<1>1. parse_response(raw).reason = Absent /\ parse_response(other).reason = Absent
  BY OutcomeTheorem
<1>2. Len(raw) >= 5 /\ Len(raw) = raw[3] + 5 /\ Len(other) = other[3] + 5
  BY <1>1, Accepted
<1>3. Len(raw) \in Nat /\ 3 \in 1..Len(raw)
  BY <1>2
<1>4. raw[3] = other[3]
  BY <1>3 DEF Begins
<1>5. Len(raw) = Len(other) /\ \A i \in 1..Len(raw) : raw[i] = other[i]
  BY <1>2, <1>4 DEF Begins
<1> QED BY <1>5

-----------------------------------------------------------------------------
(***************************************************************************)
(* The checksum.  First the bits of a byte and of two.                     *)
(***************************************************************************)

Bytes == {n \in Nat : n < 256}

Agree(p, q, on) == \A b \in on : b \in p <=> b \in q

Weight == [b \in 0..15 |-> 2^b]

LEMMA WeightIs ==
  /\ Weight[0] = 1 /\ Weight[1] = 2 /\ Weight[2] = 4 /\ Weight[3] = 8
  /\ Weight[4] = 16 /\ Weight[5] = 32 /\ Weight[6] = 64 /\ Weight[7] = 128
  /\ Weight[8] = 256 /\ Weight[9] = 512 /\ Weight[10] = 1024 /\ Weight[11] = 2048
  /\ Weight[12] = 4096 /\ Weight[13] = 8192 /\ Weight[14] = 16384 /\ Weight[15] = 32768
BY DEF Weight

LEMMA BitIs ==
  ASSUME NEW n, NEW b \in 0..15
  PROVE  b \in Bits(n) <=> (n \div Weight[b]) % 2 = 1
<1>1. Weight[b] = 2^b
  BY DEF Weight
<1>2. b \in Bits(n) <=> (n \div 2^b) % 2 = 1
  BY Zenon DEF Bits
<1> QED BY <1>1, <1>2, Zenon

LEMMA Halves == \A l \in Nat : l < 256 =>
  /\ l \div 1 = l /\ l \div 256 = 0
  /\ l \div 1 = 2 * (l \div 2) + ((l \div 1) % 2)
  /\ l \div 2 = 2 * (l \div 4) + ((l \div 2) % 2)
  /\ l \div 4 = 2 * (l \div 8) + ((l \div 4) % 2)
  /\ l \div 8 = 2 * (l \div 16) + ((l \div 8) % 2)
  /\ l \div 16 = 2 * (l \div 32) + ((l \div 16) % 2)
  /\ l \div 32 = 2 * (l \div 64) + ((l \div 32) % 2)
  /\ l \div 64 = 2 * (l \div 128) + ((l \div 64) % 2)
  /\ l \div 128 = 2 * (l \div 256) + ((l \div 128) % 2)
OBVIOUS

LEMMA LowBits == \A h, l \in Nat : l < 256 =>
  /\ ((256 * h + l) \div 1) % 2 = (l \div 1) % 2
  /\ ((256 * h + l) \div 2) % 2 = (l \div 2) % 2
  /\ ((256 * h + l) \div 4) % 2 = (l \div 4) % 2
  /\ ((256 * h + l) \div 8) % 2 = (l \div 8) % 2
  /\ ((256 * h + l) \div 16) % 2 = (l \div 16) % 2
  /\ ((256 * h + l) \div 32) % 2 = (l \div 32) % 2
  /\ ((256 * h + l) \div 64) % 2 = (l \div 64) % 2
  /\ ((256 * h + l) \div 128) % 2 = (l \div 128) % 2
OBVIOUS

LEMMA HighBits == \A h, l \in Nat : l < 256 =>
  /\ (256 * h + l) \div 256 = h \div 1
  /\ (256 * h + l) \div 512 = h \div 2
  /\ (256 * h + l) \div 1024 = h \div 4
  /\ (256 * h + l) \div 2048 = h \div 8
  /\ (256 * h + l) \div 4096 = h \div 16
  /\ (256 * h + l) \div 8192 = h \div 32
  /\ (256 * h + l) \div 16384 = h \div 64
  /\ (256 * h + l) \div 32768 = h \div 128
OBVIOUS

LEMMA NoHighBits == \A l \in Nat : l < 256 =>
  /\ (l \div 256) % 2 = 0
  /\ (l \div 512) % 2 = 0
  /\ (l \div 1024) % 2 = 0
  /\ (l \div 2048) % 2 = 0
  /\ (l \div 4096) % 2 = 0
  /\ (l \div 8192) % 2 = 0
  /\ (l \div 16384) % 2 = 0
  /\ (l \div 32768) % 2 = 0
OBVIOUS

LEMMA UpToSeven ==
  \A b \in 0..7 : b = 0 \/ b = 1 \/ b = 2 \/ b = 3 \/ b = 4 \/ b = 5 \/ b = 6 \/ b = 7
OBVIOUS

LEMMA ByteBits == \A l \in Bytes : Bits(l) \subseteq 0..7
<1> SUFFICES ASSUME NEW l \in Bytes, NEW b \in Bits(l), b \notin 0..7 PROVE FALSE
  OBVIOUS
<1>1. b \in 8..15
  BY DEF Bits
<1>2. (l \div Weight[b]) % 2 = 1
  BY <1>1, BitIs
<1>3. l \in Nat /\ l < 256
  BY DEF Bytes
<1>4. b = 8 \/ b = 9 \/ b = 10 \/ b = 11 \/ b = 12 \/ b = 13 \/ b = 14 \/ b = 15
  BY <1>1
<1> QED BY <1>2, <1>3, <1>4, NoHighBits, WeightIs

\* A byte is told by its eight bits.
LEMMA ByteTold ==
  ASSUME NEW l \in Bytes, NEW m \in Bytes, Agree(Bits(l), Bits(m), 0..7)
  PROVE  l = m
<1>1. l \in Nat /\ l < 256 /\ m \in Nat /\ m < 256
  BY DEF Bytes
<1>2. \A b \in 0..7 : (l \div Weight[b]) % 2 = 1 <=> (m \div Weight[b]) % 2 = 1
  BY BitIs DEF Agree
<1>3. \A k \in Nat \ {0} : (l \div k) % 2 \in {0, 1} /\ (m \div k) % 2 \in {0, 1}
  BY <1>1
<1>4. \A b \in 0..7 : (l \div Weight[b]) % 2 = (m \div Weight[b]) % 2
  <2> TAKE b \in 0..7
  <2>1. Weight[b] \in Nat \ {0}
    BY UpToSeven, WeightIs
  <2> QED BY <1>2, <1>3, <2>1
<1>5. /\ (l \div 1) % 2 = (m \div 1) % 2 /\ (l \div 2) % 2 = (m \div 2) % 2
      /\ (l \div 4) % 2 = (m \div 4) % 2 /\ (l \div 8) % 2 = (m \div 8) % 2
      /\ (l \div 16) % 2 = (m \div 16) % 2 /\ (l \div 32) % 2 = (m \div 32) % 2
      /\ (l \div 64) % 2 = (m \div 64) % 2 /\ (l \div 128) % 2 = (m \div 128) % 2
  BY <1>4, WeightIs
<1> QED BY <1>1, <1>5, Halves

\* The bits of two bytes are those of the one and of the other.
LEMMA WordBits ==
  ASSUME NEW h \in Bytes, NEW l \in Bytes, NEW b \in 0..7
  PROVE  /\ b \in Bits(BigEndian(h, l)) <=> b \in Bits(l)
         /\ b + 8 \in Bits(BigEndian(h, l)) <=> b \in Bits(h)
<1> DEFINE n == BigEndian(h, l)
           k == b + 8
<1>1. h \in Nat /\ l \in Nat /\ l < 256 /\ n = 256 * h + l /\ k \in 0..15 /\ b \in 0..15
  BY DEF Bytes, BigEndian
<1> HIDE DEF n
<1>2. /\ (n \div Weight[b]) % 2 = (l \div Weight[b]) % 2
      /\ n \div Weight[k] = h \div Weight[b]
  <2>1. /\ (n \div 1) % 2 = (l \div 1) % 2 /\ (n \div 2) % 2 = (l \div 2) % 2
        /\ (n \div 4) % 2 = (l \div 4) % 2 /\ (n \div 8) % 2 = (l \div 8) % 2
        /\ (n \div 16) % 2 = (l \div 16) % 2 /\ (n \div 32) % 2 = (l \div 32) % 2
        /\ (n \div 64) % 2 = (l \div 64) % 2 /\ (n \div 128) % 2 = (l \div 128) % 2
    BY <1>1, LowBits
  <2>2. /\ n \div 256 = h \div 1 /\ n \div 512 = h \div 2
        /\ n \div 1024 = h \div 4 /\ n \div 2048 = h \div 8
        /\ n \div 4096 = h \div 16 /\ n \div 8192 = h \div 32
        /\ n \div 16384 = h \div 64 /\ n \div 32768 = h \div 128
    BY <1>1, HighBits
  <2>3. \/ (b = 0 /\ k = 8) \/ (b = 1 /\ k = 9) \/ (b = 2 /\ k = 10) \/ (b = 3 /\ k = 11)
        \/ (b = 4 /\ k = 12) \/ (b = 5 /\ k = 13) \/ (b = 6 /\ k = 14) \/ (b = 7 /\ k = 15)
    BY UpToSeven
  <2> HIDE DEF k
  <2> QED BY <2>1, <2>2, <2>3, WeightIs
<1> HIDE DEF k
<1>3. /\ b \in Bits(n) <=> b \in Bits(l)
      /\ k \in Bits(n) <=> b \in Bits(h)
  BY <1>1, <1>2, BitIs
<1> QED BY <1>3 DEF n, k

-----------------------------------------------------------------------------
(* Round and Rounds.                                                       *)

LEMMA RoundBits ==
  ASSUME NEW p \in SUBSET (0..15)
  PROVE  /\ Round(p) \in SUBSET (0..15)
         /\ 15 \in Round(p) <=> 0 \in p
         /\ \A b \in 0..14 : b \in Round(p) <=> ((b + 1 \in p) <=> ~(0 \in p /\ b \in {0, 13}))
<1>1. Shifted(p) \in SUBSET (0..14)
  BY DEF Shifted
<1>2. \A b \in 0..14 : b \in Shifted(p) <=> b + 1 \in p
  BY DEF Shifted
<1>3. CASE 0 \in p
  <2>1. Round(p) = (Shifted(p) \ {0, 13, 15}) \cup ({0, 13, 15} \ Shifted(p))
    BY <1>3 DEF Round, SymDiff, Polynomial
  <2> QED BY <1>1, <1>2, <1>3, <2>1
<1>4. CASE 0 \notin p
  <2>1. Round(p) = Shifted(p)
    BY <1>4 DEF Round
  <2> QED BY <1>1, <1>2, <1>4, <2>1
<1> QED BY <1>3, <1>4

\* Agreement of what j rounds back was the high byte.
Kept(p, q, j) == Agree(p, q, 0..(j - 1) \cup (8 + j)..15)

\* The bit that was shifted out is the highest of the result.
LEMMA RoundBack ==
  ASSUME NEW p \in SUBSET (0..15), NEW q \in SUBSET (0..15), NEW j \in 0..7,
         Kept(Round(p), Round(q), j)
  PROVE  Kept(p, q, j + 1)
<1>1. 0 \in p <=> 0 \in q
  BY RoundBits DEF Kept, Agree
<1>2. ASSUME NEW b \in 1..j \cup (9 + j)..15 PROVE b \in p <=> b \in q
  <2> DEFINE k == b - 1
  <2>1. k \in 0..14 /\ b = k + 1 /\ k \in 0..(j - 1) \cup (8 + j)..15
    BY <1>2
  <2>2. k \in Round(p) <=> k \in Round(q)
    BY <2>1 DEF Kept, Agree
  <2> HIDE DEF k
  <2>3. /\ k \in Round(p) <=> ((k + 1 \in p) <=> ~(0 \in p /\ k \in {0, 13}))
        /\ k \in Round(q) <=> ((k + 1 \in q) <=> ~(0 \in q /\ k \in {0, 13}))
    BY <2>1, RoundBits
  <2> QED BY <1>1, <2>1, <2>2, <2>3
<1>3. \A b \in 0..(j + 1 - 1) \cup (8 + (j + 1))..15 : b = 0 \/ b \in 1..j \cup (9 + j)..15
  OBVIOUS
<1> QED BY <1>1, <1>2, <1>3 DEF Kept, Agree

LEMMA RoundInjective ==
  ASSUME NEW p \in SUBSET (0..15), NEW q \in SUBSET (0..15), Round(p) = Round(q)
  PROVE  p = q
<1>1. 0 \in p <=> 0 \in q
  BY RoundBits
<1>2. ASSUME NEW k \in 0..14 PROVE k + 1 \in p <=> k + 1 \in q
  BY <1>1, RoundBits
<1>3. \A b \in 1..15 : b - 1 \in 0..14 /\ b = (b - 1) + 1
  OBVIOUS
<1>4. \A b \in 1..15 : b \in p <=> b \in q
  BY <1>2, <1>3
<1>5. \A b \in 0..15 : b = 0 \/ b \in 1..15
  OBVIOUS
<1>6. \A b : b \in p <=> b \in q
  BY <1>1, <1>4, <1>5
<1> QED BY <1>6

LEMMA RoundsTypes ==
  ASSUME NEW p \in SUBSET (0..15)
  PROVE  Rounds(p) \in SUBSET (0..15)
  BY RoundBits DEF Rounds

LEMMA TwoBack ==
  ASSUME NEW p \in SUBSET (0..15), NEW q \in SUBSET (0..15), NEW j \in 0..6,
         Kept(Round(Round(p)), Round(Round(q)), j)
  PROVE  Kept(p, q, j + 2)
<1> DEFINE r == Round(p)
           s == Round(q)
<1>1. r \in SUBSET (0..15) /\ s \in SUBSET (0..15)
  BY RoundBits
<1>2. Kept(r, s, j + 1)
  <2> HIDE DEF r, s
  <2>1. Kept(Round(r), Round(s), j)
    BY DEF r, s
  <2> QED BY <1>1, <2>1, RoundBack
<1> DEFINE k == j + 1
<1>3. k \in 0..7 /\ j + 2 = k + 1 /\ Kept(r, s, k)
  BY <1>2
<1> HIDE DEF k
<1> QED BY <1>3, RoundBack

\* Eight rounds leave what the low byte was in the high one.
LEMMA RoundsBack ==
  ASSUME NEW p \in SUBSET (0..15), NEW q \in SUBSET (0..15),
         Agree(Rounds(p), Rounds(q), 8..15)
  PROVE  Agree(p, q, 0..7)
<1> DEFINE p2 == Round(Round(p))
           p4 == Round(Round(p2))
           p6 == Round(Round(p4))
           q2 == Round(Round(q))
           q4 == Round(Round(q2))
           q6 == Round(Round(q4))
<1>1. Kept(Round(Round(p6)), Round(Round(q6)), 0)
  BY DEF Rounds, Kept, Agree
<1>2. /\ p2 \in SUBSET (0..15) /\ p4 \in SUBSET (0..15) /\ p6 \in SUBSET (0..15)
      /\ q2 \in SUBSET (0..15) /\ q4 \in SUBSET (0..15) /\ q6 \in SUBSET (0..15)
  BY RoundBits
<1>3. Kept(p6, q6, 2)
  <2> HIDE DEF p6, q6
  <2> QED BY <1>1, <1>2, TwoBack
<1>4. Kept(p4, q4, 4)
  <2> HIDE DEF p4, q4
  <2>1. Kept(Round(Round(p4)), Round(Round(q4)), 2)
    BY <1>3 DEF p6, q6
  <2> QED BY <1>2, <2>1, TwoBack
<1>5. Kept(p2, q2, 6)
  <2> HIDE DEF p2, q2
  <2>1. Kept(Round(Round(p2)), Round(Round(q2)), 4)
    BY <1>4 DEF p4, q4
  <2> QED BY <1>2, <2>1, TwoBack
<1>6. Kept(p, q, 8)
  <2>1. Kept(Round(Round(p)), Round(Round(q)), 6)
    BY <1>5 DEF p2, q2
  <2> QED BY <2>1, TwoBack
<1> QED BY <1>6 DEF Kept, Agree

LEMMA TwoInjective ==
  ASSUME NEW p \in SUBSET (0..15), NEW q \in SUBSET (0..15),
         Round(Round(p)) = Round(Round(q))
  PROVE  p = q
  BY RoundBits, RoundInjective

LEMMA RoundsInjective ==
  ASSUME NEW p \in SUBSET (0..15), NEW q \in SUBSET (0..15), Rounds(p) = Rounds(q)
  PROVE  p = q
<1> DEFINE p2 == Round(Round(p))
           p4 == Round(Round(p2))
           p6 == Round(Round(p4))
           q2 == Round(Round(q))
           q4 == Round(Round(q2))
           q6 == Round(Round(q4))
<1>1. Round(Round(p6)) = Round(Round(q6))
  BY DEF Rounds
<1>2. /\ p2 \in SUBSET (0..15) /\ p4 \in SUBSET (0..15) /\ p6 \in SUBSET (0..15)
      /\ q2 \in SUBSET (0..15) /\ q4 \in SUBSET (0..15) /\ q6 \in SUBSET (0..15)
  BY RoundBits
<1>3. p6 = q6
  BY <1>1, <1>2, TwoInjective
<1>4. p4 = q4
  BY <1>2, <1>3, TwoInjective
<1>5. p2 = q2
  BY <1>2, <1>4, TwoInjective
<1> QED BY <1>5, TwoInjective

-----------------------------------------------------------------------------
(* One byte and two.                                                       *)

\* What differs in a byte only, and is the same in the high byte after it.
LEMMA ByteThenHigh ==
  ASSUME NEW c \in SUBSET (0..15), NEW a \in Bytes, NEW b \in Bytes,
         Agree(Rounds(SymDiff(c, Bits(a))), Rounds(SymDiff(c, Bits(b))), 8..15)
  PROVE  a = b
<1> DEFINE p == SymDiff(c, Bits(a))
           q == SymDiff(c, Bits(b))
<1>1. p \in SUBSET (0..15) /\ q \in SUBSET (0..15)
  BY DEF SymDiff, Bits
<1>2. Agree(p, q, 0..7)
  BY <1>1, RoundsBack
<1>3. \A k \in 0..7 : k \in Bits(a) <=> k \in Bits(b)
  BY <1>2 DEF Agree, SymDiff
<1> QED BY <1>3, ByteTold DEF Agree

\* A byte leaves the high one alone.
LEMMA FeedHigh ==
  ASSUME NEW c, NEW d, NEW a \in Bytes, NEW b \in Bytes,
         SymDiff(c, Bits(a)) = SymDiff(d, Bits(b))
  PROVE  Agree(c, d, 8..15)
<1>1. \A k \in 8..15 : k \notin Bits(a) /\ k \notin Bits(b)
  BY ByteBits
<1> QED BY <1>1 DEF Agree, SymDiff

\* Two bytes are told by the checksum after them.
LEMMA TwoBytesTold ==
  ASSUME NEW c \in SUBSET (0..15), NEW a \in Bytes, NEW b \in Bytes,
         NEW x \in Bytes, NEW z \in Bytes,
         Rounds(SymDiff(Rounds(SymDiff(c, Bits(a))), Bits(x)))
           = Rounds(SymDiff(Rounds(SymDiff(c, Bits(b))), Bits(z)))
  PROVE  a = b /\ x = z
<1> DEFINE p == Rounds(SymDiff(c, Bits(a)))
           q == Rounds(SymDiff(c, Bits(b)))
<1>1. SymDiff(c, Bits(a)) \in SUBSET (0..15) /\ SymDiff(c, Bits(b)) \in SUBSET (0..15)
  BY DEF SymDiff, Bits
<1>2. p \in SUBSET (0..15) /\ q \in SUBSET (0..15)
  BY <1>1, RoundsTypes
<1>3. SymDiff(p, Bits(x)) = SymDiff(q, Bits(z))
  <2> HIDE DEF p, q
  <2>1. SymDiff(p, Bits(x)) \in SUBSET (0..15) /\ SymDiff(q, Bits(z)) \in SUBSET (0..15)
    BY <1>2 DEF SymDiff, Bits
  <2>2. Rounds(SymDiff(p, Bits(x))) = Rounds(SymDiff(q, Bits(z)))
    BY DEF p, q
  <2> QED BY <2>1, <2>2, RoundsInjective
<1>4. Agree(p, q, 8..15)
  <2> HIDE DEF p, q
  <2> QED BY <1>3, FeedHigh
<1>5. a = b
  BY <1>4, ByteThenHigh
<1>6. \A k \in 0..7 : k \in Bits(x) <=> k \in Bits(z)
  <2>1. p = q
    BY <1>5
  <2> HIDE DEF p, q
  <2> QED BY <1>3, <2>1 DEF SymDiff
<1> QED BY <1>5, <1>6, ByteTold DEF Agree

-----------------------------------------------------------------------------
(* Recursion along 0..n, and that of crc16 over the bytes.                  *)

Recursion(f, first, step, n) ==
  f = [i \in 0..n |-> IF i = 0 THEN first ELSE step[i][f[i - 1]]]

LEMMA RecursionAt ==
  ASSUME NEW f, NEW first, NEW step, NEW n \in Nat, Recursion(f, first, step, n)
  PROVE  f[0] = first /\ \A i \in 1..n : f[i] = step[i][f[i - 1]]
<1> DEFINE E(i) == IF i = 0 THEN first ELSE step[i][f[i - 1]]
<1>1. f = [i \in 0..n |-> E(i)]
  BY DEF Recursion
<1> HIDE DEF E
<1>2. \A i \in 0..n : f[i] = E(i)
  BY <1>1
<1>3. f[0] = E(0) /\ \A i \in 1..n : f[i] = E(i) /\ i # 0
  BY <1>2
<1> QED BY <1>3 DEF E

LEMMA RecursionExists ==
  ASSUME NEW first, NEW step, NEW n \in Nat
  PROVE  \E f : Recursion(f, first, step, n)
<1> DEFINE P(f, m) == Recursion(f, first, step, m)
           Bad == {m \in Nat : ~\E f : P(f, m)}
<1>1. ASSUME Bad # {} PROVE FALSE
  <2>1. PICK m \in Bad : \A k \in Bad : m <= k
    <3>1. Bad \subseteq Nat
      OBVIOUS
    <3> HIDE DEF Bad
    <3> QED BY <1>1, <3>1, SmallestNat
  <2>2. m \in Nat /\ ~\E f : P(f, m)
    BY <2>1
  <2>3. CASE m = 0
    <3> DEFINE f == [i \in 0..0 |-> first]
    <3>1. P(f, 0)
      <4>1. \A i \in 0..0 : i = 0
        OBVIOUS
      <4>2. f = [i \in 0..0 |-> IF i = 0 THEN first ELSE step[i][f[i - 1]]]
        BY <4>1
      <4> HIDE DEF f
      <4> QED BY <4>2 DEF Recursion
    <3> HIDE DEF f, P
    <3> QED BY <2>2, <2>3, <3>1
  <2>4. CASE m # 0
    <3>1. m - 1 \in Nat /\ m - 1 \notin Bad
      <4> HIDE DEF Bad
      <4> QED BY <2>1, <2>2, <2>4
    <3>2. PICK e : P(e, m - 1)
      BY <3>1
    <3> DEFINE f == [i \in 0..m |-> IF i = m THEN step[m][e[m - 1]] ELSE e[i]]
               E(i) == IF i = 0 THEN first ELSE step[i][f[i - 1]]
    <3>3. e[0] = first /\ \A i \in 1..(m - 1) : e[i] = step[i][e[i - 1]]
      <4> HIDE DEF Bad, f
      <4> QED BY <3>1, <3>2, RecursionAt
    <3>4. \A i \in 0..m : i # m => f[i] = e[i]
      OBVIOUS
    <3>5. f[m] = step[m][e[m - 1]]
      BY <2>2
    <3>6. f = [i \in 0..m |-> f[i]]
      OBVIOUS
    <3> HIDE DEF f, Bad, P
    <3>7. \A i \in 0..m : f[i] = E(i)
      <4> TAKE i \in 0..m
      <4>1. CASE i = 0
        BY <2>2, <2>4, <3>3, <3>4, <4>1
      <4>2. CASE i = m
        <5>1. f[m - 1] = e[m - 1]
          BY <2>2, <2>4, <3>4
        <5> QED BY <2>4, <3>5, <4>2, <5>1
      <4>3. CASE i # 0 /\ i # m
        <5>1. i \in 1..(m - 1) /\ i - 1 \in 0..m /\ i - 1 # m
          BY <2>2, <4>3
        <5>2. f[i] = e[i] /\ f[i - 1] = e[i - 1]
          BY <3>4, <4>3, <5>1
        <5> QED BY <3>3, <4>3, <5>1, <5>2
      <4> QED BY <4>1, <4>2, <4>3
    <3> HIDE DEF E
    <3>8. f = [i \in 0..m |-> E(i)]
      BY <3>6, <3>7
    <3>9. P(f, m)
      BY <3>8 DEF P, E, Recursion
    <3> QED BY <2>2, <3>9
  <2> QED BY <2>3, <2>4
<1> QED BY <1>1

Feed(d) ==
  [i \in 1..Len(d) |-> [crc \in SUBSET (0..15) |-> Rounds(SymDiff(crc, Bits(d[i])))]]

\* The checksums after each byte of d, starting with all ones.
Running(f, d) ==
  /\ f[0] = 0..15
  /\ \A i \in 0..Len(d) : f[i] \in SUBSET (0..15)
  /\ \A i \in 1..Len(d) : f[i] = Rounds(SymDiff(f[i - 1], Bits(d[i])))

LEMMA CrcIs ==
  ASSUME NEW d, Len(d) \in Nat
  PROVE  \E f : Running(f, d) /\ crc16(d) = f[Len(d)]
<1> DEFINE n == Len(d)
           first == 0..15
           f == CHOOSE g : Recursion(g, first, Feed(d), n)
<1>1. Recursion(f, first, Feed(d), n)
  <2> DEFINE step == Feed(d)
  <2> HIDE DEF step, first
  <2>1. \E g : Recursion(g, first, step, n)
    BY RecursionExists
  <2> QED BY <2>1 DEF step
<1>2. crc16(d) = f[n]
  BY DEF crc16, Recursion, Feed
<1> HIDE DEF f
<1>3. f[0] = 0..15 /\ \A i \in 1..n : f[i] = Feed(d)[i][f[i - 1]]
  <2> DEFINE step == Feed(d)
  <2> HIDE DEF step, first
  <2>1. f[0] = first /\ \A i \in 1..n : f[i] = step[i][f[i - 1]]
    BY <1>1, RecursionAt DEF step
  <2> QED BY <2>1 DEF step, first
<1>4. \A i \in 1..n : \A c \in SUBSET (0..15) :
        /\ Feed(d)[i][c] = Rounds(SymDiff(c, Bits(d[i])))
        /\ Feed(d)[i][c] \in SUBSET (0..15)
  <2> TAKE i \in 1..n
  <2> TAKE c \in SUBSET (0..15)
  <2>1. Feed(d)[i][c] = Rounds(SymDiff(c, Bits(d[i])))
    BY DEF Feed
  <2> DEFINE p == SymDiff(c, Bits(d[i]))
  <2>2. p \in SUBSET (0..15)
    BY DEF SymDiff, Bits
  <2> HIDE DEF p
  <2>3. Rounds(p) \in SUBSET (0..15)
    BY <2>2, RoundsTypes
  <2> QED BY <2>1, <2>3 DEF p
<1>5. \A i \in 0..n : f[i] \in SUBSET (0..15)
  <2> DEFINE Bad == {i \in 0..n : f[i] \notin SUBSET (0..15)}
  <2>1. ASSUME Bad # {} PROVE FALSE
    <3>1. PICK k \in Bad : \A j \in Bad : k <= j
      <4>1. Bad \subseteq Nat
        OBVIOUS
      <4> HIDE DEF Bad
      <4> QED BY <2>1, <4>1, SmallestNat
    <3>2. k \in 0..n /\ f[k] \notin SUBSET (0..15)
      BY <3>1
    <3>3. k # 0
      BY <1>3, <3>2
    <3>4. k \in 1..n /\ k - 1 \in 0..n /\ k - 1 \notin Bad
      BY <3>1, <3>2, <3>3
    <3>5. f[k - 1] \in SUBSET (0..15)
      BY <3>4
    <3> HIDE DEF Bad
    <3>6. f[k] = Feed(d)[k][f[k - 1]]
      BY <1>3, <3>4
    <3>7. f[k] \in SUBSET (0..15)
      BY <1>4, <3>4, <3>5, <3>6
    <3> QED BY <3>2, <3>7
  <2> QED BY <2>1
<1>6. \A i \in 1..n : f[i] = Rounds(SymDiff(f[i - 1], Bits(d[i])))
  <2> TAKE i \in 1..n
  <2>1. i - 1 \in 0..n
    OBVIOUS
  <2> QED BY <1>3, <1>4, <1>5, <2>1
<1> QED BY <1>2, <1>3, <1>5, <1>6 DEF Running

\* Two runs are together up to the first byte that differs.
LEMMA RunsForward ==
  ASSUME NEW f, NEW d, Running(f, d), NEW g, NEW e, Running(g, e),
         Len(d) \in Nat, NEW k \in 0..Len(d), Len(e) = Len(d), \A i \in 1..k : d[i] = e[i]
  PROVE  f[k] = g[k]
<1> DEFINE Bad == {i \in 0..k : f[i] # g[i]}
<1>1. ASSUME Bad # {} PROVE FALSE
  <2>1. PICK m \in Bad : \A j \in Bad : m <= j
    <3>1. Bad \subseteq Nat
      OBVIOUS
    <3> HIDE DEF Bad
    <3> QED BY <1>1, <3>1, SmallestNat
  <2>2. m \in 0..k /\ f[m] # g[m]
    BY <2>1
  <2>3. m # 0
    BY <2>2 DEF Running
  <2>4. m \in 1..k /\ m \in 1..Len(d) /\ m - 1 \in 0..k /\ m - 1 \notin Bad
    BY <2>1, <2>2, <2>3
  <2>5. f[m - 1] = g[m - 1] /\ d[m] = e[m]
    BY <2>4
  <2> HIDE DEF Bad
  <2> QED BY <2>2, <2>4, <2>5 DEF Running
<1> QED BY <1>1

\* And, if they end together, from the last one on.
LEMMA RunsBackward ==
  ASSUME NEW f, NEW d, Running(f, d), NEW g, NEW e, Running(g, e),
         Len(d) \in Nat, NEW k \in 0..Len(d), Len(e) = Len(d),
         \A i \in (k + 1)..Len(d) : d[i] = e[i], f[Len(d)] = g[Len(d)]
  PROVE  f[k] = g[k]
<1> DEFINE n == Len(d)
           Bad == {i \in 0..(n - k) : f[n - i] # g[n - i]}
<1>1. ASSUME Bad # {} PROVE FALSE
  <2>1. PICK m \in Bad : \A j \in Bad : m <= j
    <3>1. Bad \subseteq Nat
      OBVIOUS
    <3> HIDE DEF Bad
    <3> QED BY <1>1, <3>1, SmallestNat
  <2>2. m \in 0..(n - k) /\ f[n - m] # g[n - m]
    BY <2>1
  <2>3. m # 0
    BY <2>2
  <2>4. m - 1 \in 0..(n - k) /\ m - 1 \notin Bad
    BY <2>1, <2>2, <2>3
  <2> DEFINE i == n - (m - 1)
  <2>5. f[i] = g[i]
    BY <2>4
  <2>6. i \in (k + 1)..n /\ i \in 1..n /\ i \in 0..n /\ i - 1 \in 0..n /\ i - 1 = n - m
    BY <2>2, <2>3
  <2> HIDE DEF i, Bad
  <2>7. d[i] = e[i] /\ f[i - 1] \in SUBSET (0..15) /\ g[i - 1] \in SUBSET (0..15)
        /\ f[i] = Rounds(SymDiff(f[i - 1], Bits(d[i])))
        /\ g[i] = Rounds(SymDiff(g[i - 1], Bits(e[i])))
    BY <2>6 DEF Running
  <2> DEFINE p == f[i - 1]
             q == g[i - 1]
             v == Bits(d[i])
  <2>8. SymDiff(p, v) \in SUBSET (0..15) /\ SymDiff(q, v) \in SUBSET (0..15)
        /\ Rounds(SymDiff(p, v)) = Rounds(SymDiff(q, v))
    BY <2>5, <2>7 DEF SymDiff, Bits
  <2>9. SymDiff(p, v) = SymDiff(q, v)
    <3> DEFINE x == SymDiff(p, v)
               z == SymDiff(q, v)
    <3>1. x \in SUBSET (0..15) /\ z \in SUBSET (0..15) /\ Rounds(x) = Rounds(z)
      BY <2>8
    <3> HIDE DEF x, z
    <3>2. x = z
      BY <3>1, RoundsInjective
    <3> QED BY <3>2 DEF x, z
  <2> HIDE DEF p, q, v
  <2>10. p = q
    BY <2>9 DEF SymDiff
  <2> QED BY <2>2, <2>6, <2>10 DEF p, q
<1>2. n - k \in 0..(n - k) /\ n - (n - k) = k
  OBVIOUS
<1>3. n - k \notin Bad
  BY <1>1
<1> QED BY <1>2, <1>3

-----------------------------------------------------------------------------
(* Damage in one place.                                                    *)

LEMMA AcceptedCrc ==
  ASSUME NEW raw \in Seq(Bytes), parse_response(raw).reason = Absent
  PROVE  /\ raw[1] = BmsAddress /\ raw[2] = ReadHolding /\ Len(raw) = raw[3] + 5
         /\ raw[3] \in Nat
         /\ Bits(BigEndian(raw[raw[3] + 5], raw[raw[3] + 4])) = crc16(SubSeq(raw, 1, raw[3] + 3))
<1> DEFINE end == 3 + raw[3]
           regs == [i \in 1..(raw[3] \div 2) |-> BigEndian(raw[2 * i + 2], raw[2 * i + 3])]
           sum == Bits(BigEndian(raw[end + 2], raw[end + 1]))
           body == crc16(SubSeq(raw, 1, end))
<1>1. raw \in Seq(Nat)
  BY DEF Bytes
<1>2. raw[1] = BmsAddress /\ raw[2] = ReadHolding /\ Len(raw) = raw[3] + 5 /\ raw[3] \in Nat
      /\ Len(raw) >= 5
  BY <1>1, Accepted
<1>3. \A r \in DROP_REASONS : Rejected(r).reason # Absent
  BY AbsentAssumption DEF Rejected
<1>4. "bad_hex" \in DROP_REASONS /\ "crc" \in DROP_REASONS
  BY DEF DROP_REASONS
<1>5. raw # NotHex
  BY <1>3, <1>4 DEF parse_response
<1>6. sum = body
  <2>1. parse_response(raw) = IF sum # body THEN Rejected("crc")
                              ELSE [reason |-> Absent, regs |-> regs]
    BY <1>2, <1>5 DEF parse_response
  <2> HIDE DEF sum, body, regs
  <2> QED BY <1>3, <1>4, <2>1
<1>7. end + 2 = raw[3] + 5 /\ end + 1 = raw[3] + 4 /\ end = raw[3] + 3
  BY <1>2
<1> QED BY <1>2, <1>6, <1>7

\* Damaged, however badly, in no more than two adjacent bytes.
Burst(raw, bad) ==
  /\ Len(bad) = Len(raw)
  /\ \E p \in Nat : \A i \in 1..Len(raw) : i \notin {p, p + 1} => bad[i] = raw[i]

\* Of two answers that differ in at most two adjacent bytes, wherever they are,
\* at most one is accepted: an answer that was damaged in one place by up to
\* nine bits in a row, or by two bytes exchanged, is never decoded
\* (parse_response, crc16).
THEOREM BurstTheorem ==
  \A raw, bad \in Seq(Bytes) :
    Burst(raw, bad) /\ bad # raw =>
      \A command, request :
        \/ handle_entry(command, raw).outcome \in DROP_REASONS
        \/ handle_entry(request, bad).outcome \in DROP_REASONS
<1> SUFFICES ASSUME NEW raw \in Seq(Bytes), NEW bad \in Seq(Bytes),
                    Burst(raw, bad), NEW command, NEW request,
                    handle_entry(command, raw).outcome \notin DROP_REASONS,
                    handle_entry(request, bad).outcome \notin DROP_REASONS
             PROVE  bad = raw
  OBVIOUS
<1>1. parse_response(raw).reason = Absent /\ parse_response(bad).reason = Absent
  <2>1. raw \in Seq(Nat) /\ bad \in Seq(Nat)
    BY DEF Bytes
  <2> QED BY <2>1, OutcomeTheorem
<1> DEFINE n == raw[3] + 3
           d == SubSeq(raw, 1, n)
           e == SubSeq(bad, 1, n)
<1>2. /\ raw[1] = bad[1] /\ raw[2] = bad[2] /\ raw[3] = bad[3]
      /\ raw[3] \in Nat /\ Len(raw) = raw[3] + 5 /\ Len(bad) = Len(raw)
      /\ Bits(BigEndian(raw[raw[3] + 5], raw[raw[3] + 4])) = crc16(d)
      /\ Bits(BigEndian(bad[raw[3] + 5], bad[raw[3] + 4])) = crc16(e)
  <2>1. Len(bad) = Len(raw)
    BY DEF Burst
  <2>2. /\ raw[1] = BmsAddress /\ raw[2] = ReadHolding /\ Len(raw) = raw[3] + 5
        /\ raw[3] \in Nat
        /\ Bits(BigEndian(raw[raw[3] + 5], raw[raw[3] + 4])) = crc16(d)
    BY <1>1, AcceptedCrc
  <2>3. /\ bad[1] = BmsAddress /\ bad[2] = ReadHolding /\ Len(bad) = bad[3] + 5
        /\ bad[3] \in Nat
        /\ Bits(BigEndian(bad[bad[3] + 5], bad[bad[3] + 4])) = crc16(SubSeq(bad, 1, bad[3] + 3))
    BY <1>1, AcceptedCrc
  <2>4. raw[3] = bad[3]
    BY <2>1, <2>2, <2>3
  <2> QED BY <2>1, <2>2, <2>3, <2>4
<1>3. n \in Nat /\ n >= 3 /\ Len(raw) = n + 2 /\ raw[3] + 5 = n + 2 /\ raw[3] + 4 = n + 1
  BY <1>2
<1>4. Len(d) = n /\ Len(e) = n /\ \A i \in 1..n : d[i] = raw[i] /\ e[i] = bad[i]
  <2> HIDE DEF n
  <2> QED BY <1>2, <1>3
<1>5. PICK f : Running(f, d) /\ crc16(d) = f[n]
  BY <1>3, <1>4, CrcIs
<1>6. PICK g : Running(g, e) /\ crc16(e) = g[n]
  BY <1>3, <1>4, CrcIs
<1>7. PICK p \in Nat : \A i \in 1..Len(raw) : i \notin {p, p + 1} => bad[i] = raw[i]
  BY DEF Burst
<1> DEFINE hi == raw[n + 2]
           lo == raw[n + 1]
           xi == bad[n + 2]
           xo == bad[n + 1]
<1>8. Bits(BigEndian(hi, lo)) = f[n] /\ Bits(BigEndian(xi, xo)) = g[n]
  BY <1>2, <1>3, <1>5, <1>6
<1>9. \A i \in 1..(n + 2) : raw[i] \in Bytes /\ bad[i] \in Bytes
  <2> HIDE DEF n
  <2> QED BY <1>2, <1>3
<1> HIDE DEF n, d, e
<1>10. SUFFICES \A i \in 1..(n + 2) : bad[i] = raw[i]
  BY <1>2, <1>3
<1>11. ASSUME f[n] = g[n] PROVE hi = xi /\ lo = xo
  <2>1. hi \in Bytes /\ lo \in Bytes /\ xi \in Bytes /\ xo \in Bytes
    BY <1>3, <1>9
  <2> HIDE DEF hi, lo, xi, xo
  <2> DEFINE v == BigEndian(hi, lo)
             w == BigEndian(xi, xo)
  <2>2. \A b \in 0..7 : (b \in Bits(v) <=> b \in Bits(lo)) /\ (b + 8 \in Bits(v) <=> b \in Bits(hi))
    BY <2>1, WordBits
  <2>3. \A b \in 0..7 : (b \in Bits(w) <=> b \in Bits(xo)) /\ (b + 8 \in Bits(w) <=> b \in Bits(xi))
    BY <2>1, WordBits
  <2>4. Bits(v) = Bits(w)
    BY <1>8, <1>11
  <2> HIDE DEF v, w
  <2>5. Agree(Bits(hi), Bits(xi), 0..7) /\ Agree(Bits(lo), Bits(xo), 0..7)
    BY <2>2, <2>3, <2>4 DEF Agree
  <2> QED BY <2>1, <2>5, ByteTold
<1>12. CASE p + 1 <= n
  <2>1. hi = xi /\ lo = xo
    BY <1>3, <1>7, <1>12
  <2>2. f[n] = g[n]
    BY <1>8, <2>1
  <2>3. CASE p = 0
    <3>1. \A i \in 2..(n + 2) : bad[i] = raw[i]
      BY <1>3, <1>7, <2>3
    <3>2. \A i \in 1..(n + 2) : i = 1 \/ i \in 2..(n + 2)
      BY <1>3
    <3> QED BY <1>2, <3>1, <3>2
  <2>4. CASE p > 0
    <3> DEFINE k == p - 1
               m == p + 1
    <3>1. k \in 0..n /\ m \in 0..n /\ p \in 1..n /\ m \in 1..n /\ p - 1 = k /\ m - 1 = p
      BY <1>3, <1>12, <2>4
    <3>2. /\ \A i \in 1..k : d[i] = e[i]
          /\ \A i \in (m + 1)..n : d[i] = e[i]
      <4>1. ASSUME NEW i \in 1..n, i # p, i # p + 1 PROVE d[i] = e[i]
        BY <1>3, <1>4, <1>7, <4>1
      <4>2. ASSUME NEW i \in 1..k PROVE i \in 1..n /\ i # p /\ i # p + 1
        BY <1>3, <3>1
      <4>3. ASSUME NEW i \in (m + 1)..n PROVE i \in 1..n /\ i # p /\ i # p + 1
        BY <1>3, <3>1
      <4> HIDE DEF k, m
      <4> QED BY <4>1, <4>2, <4>3
    <3> HIDE DEF k, m
    <3>3. f[k] = g[k]
      BY <1>3, <1>4, <1>5, <1>6, <3>1, <3>2, RunsForward
    <3>4. f[m] = g[m]
      <4>1. Running(f, d) /\ Running(g, e) /\ Len(d) \in Nat /\ Len(e) = Len(d)
            /\ m \in 0..Len(d) /\ f[Len(d)] = g[Len(d)]
            /\ \A i \in (m + 1)..Len(d) : d[i] = e[i]
        BY <1>3, <1>4, <1>5, <1>6, <2>2, <3>1, <3>2
      <4> QED BY <4>1, RunsBackward
    <3> DEFINE c == f[k]
               a == d[p]
               b == e[p]
               x == d[m]
               z == e[m]
    <3>5. /\ f[p] = Rounds(SymDiff(c, Bits(a))) /\ f[m] = Rounds(SymDiff(f[p], Bits(x)))
          /\ g[p] = Rounds(SymDiff(c, Bits(b))) /\ g[m] = Rounds(SymDiff(g[p], Bits(z)))
          /\ c \in SUBSET (0..15)
      BY <1>4, <1>5, <1>6, <3>1, <3>3 DEF Running
    <3>6. a \in Bytes /\ b \in Bytes /\ x \in Bytes /\ z \in Bytes
      BY <1>3, <1>4, <1>9, <3>1
    <3> HIDE DEF c, a, b, x, z
    <3>7. a = b /\ x = z
      <4>1. Rounds(SymDiff(Rounds(SymDiff(c, Bits(a))), Bits(x)))
              = Rounds(SymDiff(Rounds(SymDiff(c, Bits(b))), Bits(z)))
        BY <3>4, <3>5
      <4> QED BY <3>5, <3>6, <4>1, TwoBytesTold
    <3>8. raw[p] = bad[p] /\ raw[p + 1] = bad[p + 1]
      BY <1>4, <3>1, <3>7 DEF a, b, x, z, m
    <3> QED BY <1>3, <1>7, <3>8
  <2> QED BY <2>3, <2>4
<1>13. CASE p = n
  <2> DEFINE k == n - 1
             c == f[k]
             a == d[n]
             b == e[n]
  <2>1. k \in 0..n /\ n \in 1..n /\ n - 1 = k /\ hi = xi
    BY <1>3, <1>7, <1>13
  <2>2. \A i \in 1..k : d[i] = e[i]
    BY <1>3, <1>4, <1>7, <1>13
  <2> HIDE DEF k
  <2>3. f[k] = g[k]
    BY <1>3, <1>4, <1>5, <1>6, <2>1, <2>2, RunsForward
  <2>4. /\ f[n] = Rounds(SymDiff(c, Bits(a))) /\ g[n] = Rounds(SymDiff(c, Bits(b)))
        /\ c \in SUBSET (0..15)
    BY <1>4, <1>5, <1>6, <2>1, <2>3 DEF Running
  <2>5. a \in Bytes /\ b \in Bytes
    BY <1>3, <1>4, <1>9, <2>1
  <2>6. Agree(f[n], g[n], 8..15)
    <3>1. hi \in Bytes /\ lo \in Bytes /\ xo \in Bytes
      BY <1>3, <1>9
    <3> HIDE DEF hi, lo, xo, xi
    <3> DEFINE v == BigEndian(hi, lo)
               w == BigEndian(xi, xo)
    <3>2. \A j \in 0..7 : (j + 8 \in Bits(v) <=> j \in Bits(hi)) /\ (j + 8 \in Bits(w) <=> j \in Bits(hi))
      BY <2>1, <3>1, WordBits
    <3>3. Bits(v) = f[n] /\ Bits(w) = g[n]
      BY <1>8
    <3> HIDE DEF v, w
    <3>4. \A j \in 0..7 : j + 8 \in f[n] <=> j + 8 \in g[n]
      BY <3>2, <3>3
    <3>5. \A j \in 8..15 : j - 8 \in 0..7 /\ (j - 8) + 8 = j
      OBVIOUS
    <3>6. \A j \in 8..15 : j \in f[n] <=> j \in g[n]
      BY <3>4, <3>5
    <3> QED BY <3>6 DEF Agree
  <2> HIDE DEF a, b, c
  <2>7. a = b
    BY <2>4, <2>5, <2>6, ByteThenHigh
  <2>8. f[n] = g[n] /\ raw[n] = bad[n]
    BY <1>4, <2>1, <2>4, <2>7 DEF a, b
  <2>9. lo = xo
    BY <1>11, <2>8
  <2> QED BY <1>3, <1>7, <1>13, <2>8, <2>9
<1>14. CASE p > n
  <2>1. \A i \in 1..n : d[i] = e[i] /\ bad[i] = raw[i]
    BY <1>3, <1>4, <1>7, <1>14
  <2>2. f[n] = g[n]
    BY <1>3, <1>4, <1>5, <1>6, <2>1, RunsForward
  <2>3. hi = xi /\ lo = xo
    BY <1>11, <2>2
  <2>4. \A i \in 1..(n + 2) : i \in 1..n \/ i = n + 1 \/ i = n + 2
    BY <1>3
  <2> QED BY <2>1, <2>3, <2>4
<1> QED BY <1>3, <1>12, <1>13, <1>14

-----------------------------------------------------------------------------
(* How many bits are set, modulo two.                                      *)

Parity(s) == Cardinality(s) % 2

LEMMA ParityType ==
  ASSUME NEW s, IsFiniteSet(s)
  PROVE  Cardinality(s) \in Nat /\ Parity(s) \in {0, 1}
<1>1. Cardinality(s) \in Nat
  BY FS_CardinalityType
<1> QED BY <1>1 DEF Parity

LEMMA FiniteBits ==
  ASSUME NEW p \in SUBSET (0..15)
  PROVE  IsFiniteSet(p)
<1> DEFINE n == 15
<1>1. p \in SUBSET Nat /\ n \in Nat /\ \A b \in p : b <= n
  OBVIOUS
<1> HIDE DEF n
<1> QED BY <1>1, FS_BoundedSetOfNaturals

LEMMA ParityDiff ==
  ASSUME NEW s, NEW t, IsFiniteSet(s), IsFiniteSet(t)
  PROVE  IsFiniteSet(SymDiff(s, t)) /\ Parity(SymDiff(s, t)) = (Parity(s) + Parity(t)) % 2
<1> DEFINE a == s \ t
           b == t \ s
           c == s \cap t
<1>1. c = t \cap s /\ a \cap b = {} /\ SymDiff(s, t) = a \cup b
  BY DEF SymDiff
<1>2. /\ IsFiniteSet(a) /\ Cardinality(a) = Cardinality(s) - Cardinality(c)
      /\ IsFiniteSet(b) /\ Cardinality(b) = Cardinality(t) - Cardinality(c)
  <2>1. IsFiniteSet(s \ t) /\ Cardinality(s \ t) = Cardinality(s) - Cardinality(s \cap t)
    BY FS_Difference
  <2>2. IsFiniteSet(t \ s) /\ Cardinality(t \ s) = Cardinality(t) - Cardinality(t \cap s)
    BY FS_Difference
  <2> QED BY <1>1, <2>1, <2>2
<1>3. IsFiniteSet(c)
  BY FS_Subset
<1> HIDE DEF a, b, c
<1>4. IsFiniteSet(a \cup b) /\ Cardinality(a \cup b) = Cardinality(a) + Cardinality(b)
  <2>1. IsFiniteSet(a \cup b)
        /\ Cardinality(a \cup b) = Cardinality(a) + Cardinality(b) - Cardinality(a \cap b)
    BY <1>2, FS_Union
  <2>2. Cardinality(a \cap b) = 0
    BY <1>1, FS_EmptySet
  <2>3. Cardinality(a) \in Nat /\ Cardinality(b) \in Nat
    BY <1>2, FS_CardinalityType
  <2> QED BY <2>1, <2>2, <2>3
<1>5. Cardinality(s) \in Nat /\ Cardinality(t) \in Nat /\ Cardinality(c) \in Nat
  BY <1>3, FS_CardinalityType
<1>6. \A x, y, z \in Nat : (x - z + (y - z)) % 2 = ((x % 2) + (y % 2)) % 2
  OBVIOUS
<1> QED BY <1>1, <1>2, <1>4, <1>5, <1>6 DEF Parity

\* The same set, moved: what is in t is what f makes of the elements of s.
LEMMA ParityMoved ==
  ASSUME NEW s, NEW t, IsFiniteSet(s), NEW f \in [s -> t],
         \A x, y \in s : f[x] = f[y] => x = y, \A z \in t : \E x \in s : f[x] = z
  PROVE  IsFiniteSet(t) /\ Cardinality(t) = Cardinality(s) /\ Parity(t) = Parity(s)
<1>1. f \in Bijection(s, t)
  BY DEF Bijection, Injection, Surjection, IsInjective
<1>2. ExistsBijection(s, t)
  BY <1>1 DEF ExistsBijection
<1>3. IsFiniteSet(t) /\ Cardinality(t) = Cardinality(s)
  BY <1>2, FS_Bijection
<1> QED BY <1>3 DEF Parity

-----------------------------------------------------------------------------
(* The polynomial has an even number of terms, the one that is shifted out *)
(* among them: no round turns a single bit over.                           *)

LEMMA RoundParity ==
  ASSUME NEW p \in SUBSET (0..15)
  PROVE  Parity(Round(p)) = Parity(p)
<1> DEFINE q == p \ {0}
           t == Shifted(p)
           f == [b \in q |-> b - 1]
<1>1. IsFiniteSet(p)
  BY FiniteBits
<1>2. /\ IsFiniteSet(q)
      /\ Cardinality(q) = IF 0 \in p THEN Cardinality(p) - 1 ELSE Cardinality(p)
  BY <1>1, FS_RemoveElement
<1>3. IsFiniteSet(t) /\ Parity(t) = Parity(q)
  <2>1. f \in [q -> t]
    BY DEF Shifted
  <2>2. \A z \in t : \E x \in q : f[x] = z
    BY DEF Shifted
  <2>3. \A x, y \in q : f[x] = f[y] => x = y
    OBVIOUS
  <2> HIDE DEF f, q, t
  <2> QED BY <1>2, <2>1, <2>2, <2>3, ParityMoved
<1>4. Cardinality(p) \in Nat /\ Cardinality(q) \in Nat
  BY <1>1, <1>2, FS_CardinalityType
<1>5. CASE 0 \in p
  <2>1. IsFiniteSet(Polynomial) /\ Parity(Polynomial) = 1
    <3>1. IsFiniteSet({0}) /\ Cardinality({0}) = 1
      BY FS_Singleton
    <3>2. IsFiniteSet({0} \cup {13}) /\ Cardinality({0} \cup {13}) = 2
      BY <3>1, FS_AddElement
    <3>3. IsFiniteSet(({0} \cup {13}) \cup {15}) /\ Cardinality(({0} \cup {13}) \cup {15}) = 3
      BY <3>2, FS_AddElement
    <3>4. Polynomial = ({0} \cup {13}) \cup {15}
      BY DEF Polynomial
    <3> QED BY <3>3, <3>4 DEF Parity
  <2>2. Parity(SymDiff(t, Polynomial)) = (Parity(q) + 1) % 2
    BY <1>3, <2>1, ParityDiff
  <2>3. Round(p) = SymDiff(t, Polynomial)
    BY <1>5 DEF Round
  <2>4. Cardinality(q) = Cardinality(p) - 1
    BY <1>2, <1>5
  <2>5. \A x, y \in Nat : y = x - 1 => ((y % 2) + 1) % 2 = x % 2
    OBVIOUS
  <2> HIDE DEF q, t
  <2> QED BY <1>4, <2>2, <2>3, <2>4, <2>5 DEF Parity
<1>6. CASE 0 \notin p
  <2>1. Round(p) = t /\ q = p
    BY <1>6 DEF Round
  <2> QED BY <1>3, <2>1
<1> QED BY <1>5, <1>6

LEMMA TwoParity ==
  ASSUME NEW p \in SUBSET (0..15)
  PROVE  Round(Round(p)) \in SUBSET (0..15) /\ Parity(Round(Round(p))) = Parity(p)
<1>1. Round(p) \in SUBSET (0..15) /\ Parity(Round(p)) = Parity(p)
  BY RoundBits, RoundParity
<1> DEFINE q == Round(p)
<1> HIDE DEF q
<1>2. q \in SUBSET (0..15) => Round(q) \in SUBSET (0..15) /\ Parity(Round(q)) = Parity(q)
  BY RoundBits, RoundParity
<1> QED BY <1>1, <1>2 DEF q

LEMMA RoundsParity ==
  ASSUME NEW p \in SUBSET (0..15)
  PROVE  Parity(Rounds(p)) = Parity(p)
<1> DEFINE p2 == Round(Round(p))
           p4 == Round(Round(p2))
           p6 == Round(Round(p4))
           p8 == Round(Round(p6))
<1>1. p2 \in SUBSET (0..15) /\ Parity(p2) = Parity(p)
  BY TwoParity
<1>2. p4 \in SUBSET (0..15) /\ Parity(p4) = Parity(p2)
  <2> HIDE DEF p2
  <2> QED BY <1>1, TwoParity
<1>3. p6 \in SUBSET (0..15) /\ Parity(p6) = Parity(p4)
  <2> HIDE DEF p4
  <2> QED BY <1>2, TwoParity
<1>4. Parity(p8) = Parity(p6)
  <2> HIDE DEF p6
  <2> QED BY <1>3, TwoParity
<1>5. Rounds(p) = p8
  BY DEF Rounds
<1> HIDE DEF p2, p4, p6, p8
<1> QED BY <1>1, <1>2, <1>3, <1>4, <1>5

LEMMA FeedParity ==
  ASSUME NEW c \in SUBSET (0..15), NEW v
  PROVE  Parity(Rounds(SymDiff(c, Bits(v)))) = (Parity(c) + Parity(Bits(v))) % 2
<1>1. SymDiff(c, Bits(v)) \in SUBSET (0..15) /\ Bits(v) \in SUBSET (0..15)
  BY DEF SymDiff, Bits
<1>2. Parity(Rounds(SymDiff(c, Bits(v)))) = Parity(SymDiff(c, Bits(v)))
  <2> DEFINE p == SymDiff(c, Bits(v))
  <2> HIDE DEF p
  <2>1. p \in SUBSET (0..15) => Parity(Rounds(p)) = Parity(p)
    BY RoundsParity
  <2> QED BY <1>1, <2>1 DEF p
<1>3. IsFiniteSet(c) /\ IsFiniteSet(Bits(v))
  BY <1>1, FiniteBits
<1> QED BY <1>2, <1>3, ParityDiff

LEMMA WordParity ==
  ASSUME NEW h \in Bytes, NEW l \in Bytes
  PROVE  Parity(Bits(BigEndian(h, l))) = (Parity(Bits(h)) + Parity(Bits(l))) % 2
<1> DEFINE w == Bits(BigEndian(h, l))
           s == Bits(h)
           u == {b \in w : b >= 8}
           v == Bits(l)
           f == [b \in s |-> b + 8]
<1>1. w \in SUBSET (0..15) /\ s \in SUBSET (0..7) /\ v \in SUBSET (0..7)
  BY ByteBits DEF Bits
<1>2. \A b \in 0..7 : (b \in w <=> b \in v) /\ (b + 8 \in w <=> b \in s)
  BY WordBits
<1> HIDE DEF w, s, v
<1>3. f \in [s -> u] /\ \A x, y \in s : f[x] = f[y] => x = y
  BY <1>1, <1>2
<1>4. \A z \in u : \E x \in s : f[x] = z
  <2> TAKE z \in u
  <2>1. z - 8 \in 0..7 /\ (z - 8) + 8 = z /\ z \in w
    BY <1>1
  <2>2. z - 8 \in s
    BY <1>2, <2>1
  <2> QED BY <2>1, <2>2
<1>5. IsFiniteSet(s) /\ IsFiniteSet(v)
  BY <1>1, FiniteBits
<1>6. w = SymDiff(u, v)
  <2>1. \A b \in 0..15 : b \in 0..7 \/ b >= 8
    OBVIOUS
  <2>2. \A b \in w : b >= 8 \/ b \in v
    BY <1>1, <1>2, <2>1
  <2>3. \A b \in v : b \in w /\ ~(b >= 8)
    BY <1>1, <1>2
  <2> QED BY <2>2, <2>3 DEF SymDiff
<1> HIDE DEF f, u
<1>7. IsFiniteSet(u) /\ Parity(u) = Parity(s)
  BY <1>3, <1>4, <1>5, ParityMoved
<1>8. Parity(w) = (Parity(s) + Parity(v)) % 2
  BY <1>5, <1>6, <1>7, ParityDiff
<1> QED BY <1>8 DEF w, s, v

-----------------------------------------------------------------------------
(* Damage to an odd number of bits.                                        *)

\* The bits of the first k bytes that are not the same in both answers.
Turned(raw, bad, k) ==
  {x \in (1..k) \X (0..7) : ~(x[2] \in Bits(raw[x[1]]) <=> x[2] \in Bits(bad[x[1]]))}

LEMMA TurnedNone == \A raw, bad : IsFiniteSet(Turned(raw, bad, 0)) /\ Parity(Turned(raw, bad, 0)) = 0
<1>1. \A raw, bad : Turned(raw, bad, 0) = {}
  BY DEF Turned
<1> QED BY <1>1, FS_EmptySet DEF Parity

LEMMA TurnedMore ==
  ASSUME NEW raw, NEW bad, NEW k \in Nat, k > 0, raw[k] \in Bytes, bad[k] \in Bytes,
         IsFiniteSet(Turned(raw, bad, k - 1))
  PROVE  /\ IsFiniteSet(Turned(raw, bad, k))
         /\ Parity(Turned(raw, bad, k))
              = (Parity(Turned(raw, bad, k - 1)) + (Parity(Bits(raw[k])) + Parity(Bits(bad[k])))) % 2
<1> DEFINE p == Bits(raw[k])
           q == Bits(bad[k])
           s == SymDiff(p, q)
           u == {x \in Turned(raw, bad, k) : x[1] = k}
           v == Turned(raw, bad, k - 1)
           f == [b \in s |-> <<k, b>>]
<1>1. p \in SUBSET (0..7) /\ q \in SUBSET (0..7)
  BY ByteBits
<1>2. IsFiniteSet(p) /\ IsFiniteSet(q)
  BY <1>1, FiniteBits
<1>3. IsFiniteSet(s) /\ Parity(s) = (Parity(p) + Parity(q)) % 2
  <2> HIDE DEF p, q
  <2> QED BY <1>2, ParityDiff
<1>4. s \subseteq 0..7 /\ \A b \in 0..7 : b \in s <=> ~(b \in p <=> b \in q)
  BY <1>1 DEF SymDiff
<1>5. \A b \in 0..7 : <<k, b>> \in u <=> ~(b \in p <=> b \in q)
  BY DEF Turned
<1>6. \A x \in u : x[2] \in 0..7 /\ x = <<k, x[2]>>
  BY DEF Turned
<1>7. Turned(raw, bad, k) = SymDiff(v, u)
  <2>1. \A x : x \in (1..k) \X (0..7) <=> (x \in (1..(k - 1)) \X (0..7) \/ x \in {k} \X (0..7))
    <3>1. 1..k = (1..(k - 1)) \cup {k}
      OBVIOUS
    <3> QED BY <3>1
  <2>2. \A x \in (1..(k - 1)) \X (0..7) : x[1] # k
    OBVIOUS
  <2>3. \A x \in {k} \X (0..7) : x[1] = k
    OBVIOUS
  <2> QED BY <2>1, <2>2, <2>3 DEF Turned, SymDiff
<1> HIDE DEF p, q, s, u, v
<1>8. f \in [s -> u] /\ \A x, y \in s : f[x] = f[y] => x = y
  BY <1>4, <1>5
<1>9. \A z \in u : \E x \in s : f[x] = z
  <2> TAKE z \in u
  <2>1. z[2] \in s
    BY <1>4, <1>5, <1>6
  <2> QED BY <1>6, <2>1
<1> HIDE DEF f
<1>10. IsFiniteSet(u) /\ Parity(u) = Parity(s)
  BY <1>3, <1>8, <1>9, ParityMoved
<1>11. IsFiniteSet(v)
  BY DEF v
<1>12. IsFiniteSet(SymDiff(v, u)) /\ Parity(SymDiff(v, u)) = (Parity(v) + Parity(u)) % 2
  BY <1>10, <1>11, ParityDiff
<1>13. Parity(v) \in {0, 1} /\ Parity(p) \in {0, 1} /\ Parity(q) \in {0, 1}
  BY <1>2, <1>11, ParityType
<1>14. \A x, y, z \in {0, 1} : (x + ((y + z) % 2)) % 2 = (x + (y + z)) % 2
  OBVIOUS
<1>15. Parity(Turned(raw, bad, k)) = (Parity(v) + (Parity(p) + Parity(q))) % 2
  BY <1>3, <1>7, <1>10, <1>12, <1>13, <1>14
<1> QED BY <1>7, <1>12, <1>15 DEF v, p, q

\* Each byte turns over in the checksum an odd number of bits if it has one.
LEMMA RunsParity ==
  ASSUME NEW f, NEW d, Running(f, d), NEW g, NEW e, Running(g, e),
         Len(d) \in Nat, Len(e) = Len(d),
         \A i \in 1..Len(d) : d[i] \in Bytes /\ e[i] \in Bytes
  PROVE  \A k \in 0..Len(d) :
           /\ IsFiniteSet(Turned(d, e, k))
           /\ Parity(Turned(d, e, k)) = (Parity(f[k]) + Parity(g[k])) % 2
<1> DEFINE Good(k) == /\ IsFiniteSet(Turned(d, e, k))
                      /\ Parity(Turned(d, e, k)) = (Parity(f[k]) + Parity(g[k])) % 2
           Bad == {k \in 0..Len(d) : ~Good(k)}
<1>1. ASSUME Bad # {} PROVE FALSE
  <2>1. PICK m \in Bad : \A j \in Bad : m <= j
    <3>1. Bad \subseteq Nat
      OBVIOUS
    <3> HIDE DEF Bad
    <3> QED BY <1>1, <3>1, SmallestNat
  <2>2. m \in 0..Len(d) /\ ~Good(m)
    BY <2>1
  <2>3. m # 0
    <3>1. Good(0)
      <4>1. f[0] \in SUBSET (0..15) /\ g[0] = f[0]
        BY DEF Running
      <4>2. Parity(f[0]) \in {0, 1}
        BY <4>1, FiniteBits, ParityType
      <4>3. (Parity(f[0]) + Parity(g[0])) % 2 = 0
        BY <4>1, <4>2
      <4> QED BY <4>3, TurnedNone
    <3> QED BY <2>2, <3>1
  <2> DEFINE l == m - 1
  <2>4. m \in 1..Len(d) /\ l \in 0..Len(d) /\ l \notin Bad /\ m \in Nat /\ m > 0
    BY <2>1, <2>2, <2>3
  <2>5. Good(l)
    BY <2>4
  <2>6. /\ IsFiniteSet(Turned(d, e, m))
        /\ Parity(Turned(d, e, m))
             = (Parity(Turned(d, e, l)) + (Parity(Bits(d[m])) + Parity(Bits(e[m])))) % 2
    BY <2>4, <2>5, TurnedMore
  <2>7. /\ f[l] \in SUBSET (0..15) /\ g[l] \in SUBSET (0..15)
        /\ f[m] = Rounds(SymDiff(f[l], Bits(d[m])))
        /\ g[m] = Rounds(SymDiff(g[l], Bits(e[m])))
    BY <2>4 DEF Running
  <2> DEFINE x == Parity(f[l])
             y == Parity(g[l])
             a == Parity(Bits(d[m]))
             b == Parity(Bits(e[m]))
  <2>8. Parity(f[m]) = (x + a) % 2
    <3> DEFINE c == f[l]
    <3>1. c \in SUBSET (0..15) /\ f[m] = Rounds(SymDiff(c, Bits(d[m])))
      BY <2>7
    <3> HIDE DEF c
    <3>2. Parity(f[m]) = (Parity(c) + Parity(Bits(d[m]))) % 2
      BY <3>1, FeedParity
    <3> QED BY <3>2 DEF c
  <2>9. Parity(g[m]) = (y + b) % 2
    <3> DEFINE c == g[l]
    <3>1. c \in SUBSET (0..15) /\ g[m] = Rounds(SymDiff(c, Bits(e[m])))
      BY <2>7
    <3> HIDE DEF c
    <3>2. Parity(g[m]) = (Parity(c) + Parity(Bits(e[m]))) % 2
      BY <3>1, FeedParity
    <3> QED BY <3>2 DEF c
  <2>10. x \in {0, 1} /\ y \in {0, 1} /\ a \in {0, 1} /\ b \in {0, 1}
    <3>1. \A s \in SUBSET (0..15) : Parity(s) \in {0, 1}
      BY FiniteBits, ParityType
    <3>2. Bits(d[m]) \in SUBSET (0..15) /\ Bits(e[m]) \in SUBSET (0..15)
      BY DEF Bits
    <3> QED BY <2>7, <3>1, <3>2
  <2>11. Parity(Turned(d, e, l)) = (x + y) % 2
    BY <2>5
  <2> HIDE DEF x, y, a, b, l, Bad
  <2>12. \A o, p, q, r \in {0, 1} :
           (((o + p) % 2) + (q + r)) % 2 = (((o + q) % 2) + ((p + r) % 2)) % 2
    OBVIOUS
  <2>13. Parity(Turned(d, e, m)) = (((x + a) % 2) + ((y + b) % 2)) % 2
    BY <2>6, <2>10, <2>11, <2>12 DEF a, b
  <2>14. Good(m)
    BY <2>6, <2>8, <2>9, <2>13
  <2> QED BY <2>2, <2>14
<1> QED BY <1>1

\* Of two answers of a length that differ in an odd number of bits, wherever
\* they lie, at most one is accepted: one bit, three, or any other odd number
\* turned over on the way, in the checksum too, are never decoded
\* (parse_response, crc16).
THEOREM OddTheorem ==
  \A raw, bad \in Seq(Bytes) :
    Len(bad) = Len(raw) /\ Cardinality(Turned(raw, bad, Len(raw))) % 2 = 1 =>
      \A command, request :
        \/ handle_entry(command, raw).outcome \in DROP_REASONS
        \/ handle_entry(request, bad).outcome \in DROP_REASONS
<1> SUFFICES ASSUME NEW raw \in Seq(Bytes), NEW bad \in Seq(Bytes), Len(bad) = Len(raw),
                    NEW command, NEW request,
                    handle_entry(command, raw).outcome \notin DROP_REASONS,
                    handle_entry(request, bad).outcome \notin DROP_REASONS
             PROVE  Parity(Turned(raw, bad, Len(raw))) = 0
  BY DEF Parity
<1>1. parse_response(raw).reason = Absent /\ parse_response(bad).reason = Absent
  <2>1. raw \in Seq(Nat) /\ bad \in Seq(Nat)
    BY DEF Bytes
  <2> QED BY <2>1, OutcomeTheorem
<1> DEFINE n == raw[3] + 3
           d == SubSeq(raw, 1, n)
           e == SubSeq(bad, 1, n)
           hi == raw[n + 2]
           lo == raw[n + 1]
           xi == bad[n + 2]
           xo == bad[n + 1]
<1>2. /\ raw[3] \in Nat /\ Len(raw) = raw[3] + 5 /\ raw[3] = bad[3]
      /\ Bits(BigEndian(raw[raw[3] + 5], raw[raw[3] + 4])) = crc16(d)
      /\ Bits(BigEndian(bad[raw[3] + 5], bad[raw[3] + 4])) = crc16(e)
  <2>1. /\ raw[3] \in Nat /\ Len(raw) = raw[3] + 5
        /\ Bits(BigEndian(raw[raw[3] + 5], raw[raw[3] + 4])) = crc16(d)
    BY <1>1, AcceptedCrc
  <2>2. /\ bad[3] \in Nat /\ Len(bad) = bad[3] + 5
        /\ Bits(BigEndian(bad[bad[3] + 5], bad[bad[3] + 4])) = crc16(SubSeq(bad, 1, bad[3] + 3))
    BY <1>1, AcceptedCrc
  <2>3. raw[3] = bad[3]
    BY <2>1, <2>2
  <2> QED BY <2>1, <2>2, <2>3
<1>3. n \in Nat /\ Len(raw) = n + 2 /\ raw[3] + 5 = n + 2 /\ raw[3] + 4 = n + 1
  BY <1>2
<1>4. Len(d) = n /\ Len(e) = n /\ \A i \in 1..n : d[i] = raw[i] /\ e[i] = bad[i]
  <2> HIDE DEF n
  <2> QED BY <1>3
<1>5. PICK f : Running(f, d) /\ crc16(d) = f[n]
  BY <1>3, <1>4, CrcIs
<1>6. PICK g : Running(g, e) /\ crc16(e) = g[n]
  BY <1>3, <1>4, CrcIs
<1>7. Bits(BigEndian(hi, lo)) = f[n] /\ Bits(BigEndian(xi, xo)) = g[n]
  BY <1>2, <1>3, <1>5, <1>6
<1>8. \A i \in 1..(n + 2) : raw[i] \in Bytes /\ bad[i] \in Bytes
  <2> HIDE DEF n
  <2> QED BY <1>3
<1> HIDE DEF n, d, e
<1>9. IsFiniteSet(Turned(raw, bad, n))
      /\ Parity(Turned(raw, bad, n)) = (Parity(f[n]) + Parity(g[n])) % 2
  <2>1. \A i \in 1..n : d[i] \in Bytes /\ e[i] \in Bytes
    BY <1>3, <1>4, <1>8
  <2>2. IsFiniteSet(Turned(d, e, n)) /\ Parity(Turned(d, e, n)) = (Parity(f[n]) + Parity(g[n])) % 2
    BY <1>3, <1>4, <1>5, <1>6, <2>1, RunsParity
  <2>3. Turned(d, e, n) = Turned(raw, bad, n)
    BY <1>4 DEF Turned
  <2> QED BY <2>2, <2>3
<1> DEFINE a == Parity(Bits(lo))
           b == Parity(Bits(hi))
           x == Parity(Bits(xo))
           y == Parity(Bits(xi))
           m == n + 1
           k == n + 2
<1>10. hi \in Bytes /\ lo \in Bytes /\ xi \in Bytes /\ xo \in Bytes
  BY <1>3, <1>8
<1>11. Parity(f[n]) = (b + a) % 2 /\ Parity(g[n]) = (y + x) % 2
  <2>1. /\ Parity(Bits(BigEndian(hi, lo))) = (b + a) % 2
        /\ Parity(Bits(BigEndian(xi, xo))) = (y + x) % 2
    <3> HIDE DEF hi, lo, xi, xo
    <3> QED BY <1>10, WordParity
  <2> QED BY <1>7, <2>1
<1>12. m \in Nat /\ m > 0 /\ m - 1 = n /\ k \in Nat /\ k > 0 /\ k - 1 = m
       /\ raw[m] = lo /\ bad[m] = xo /\ raw[k] = hi /\ bad[k] = xi
  BY <1>3
<1> HIDE DEF m, k, hi, lo, xi, xo
<1>13. IsFiniteSet(Turned(raw, bad, m))
       /\ Parity(Turned(raw, bad, m)) = (Parity(Turned(raw, bad, n)) + (a + x)) % 2
  BY <1>9, <1>10, <1>12, TurnedMore
<1>14. Parity(Turned(raw, bad, k)) = (Parity(Turned(raw, bad, m)) + (b + y)) % 2
  BY <1>10, <1>12, <1>13, TurnedMore
<1>15. a \in {0, 1} /\ b \in {0, 1} /\ x \in {0, 1} /\ y \in {0, 1}
  <2>1. \A v : Bits(v) \in SUBSET (0..15)
    BY DEF Bits
  <2>2. \A v : Parity(Bits(v)) \in {0, 1}
    BY <2>1, FiniteBits, ParityType
  <2> QED BY <2>2
<1> HIDE DEF a, b, x, y
<1>16. \A o, p, q, r \in {0, 1} :
         (((((((p + o) % 2) + ((r + q) % 2)) % 2) + (o + q)) % 2) + (p + r)) % 2 = 0
  OBVIOUS
<1>17. Parity(Turned(raw, bad, k)) = 0
  BY <1>9, <1>11, <1>13, <1>14, <1>15, <1>16
<1> QED BY <1>3, <1>17 DEF k

-----------------------------------------------------------------------------
(* The byte of a set of bits.                                              *)

Worth(s) == [b \in 0..15 |-> IF b \in s THEN Weight[b] ELSE 0]

LEMMA NumberIs ==
  ASSUME NEW s
  PROVE  \E f : /\ Number(s) = f[16] /\ f[0] = 0
                /\ \A i \in 1..16 : f[i] = f[i - 1] + Worth(s)[i - 1]
<1> DEFINE step == [i \in 1..16 |-> [c \in Nat |-> c + Worth(s)[i - 1]]]
           S(f) == f = [n \in 0..16 |->
                          IF n = 0 THEN 0
                          ELSE f[n - 1] + (IF n - 1 \in s THEN 2^(n - 1) ELSE 0)]
           w == Worth(s)
<1>1. \A i \in 1..16 : w[i - 1] \in Nat /\ w[i - 1] = IF i - 1 \in s THEN 2^(i - 1) ELSE 0
  <2>1. \A b \in 0..15 : Weight[b] = 2^b
    BY DEF Weight
  <2>2. \A b \in 0..15 : \/ b = 0 \/ b = 1 \/ b = 2 \/ b = 3 \/ b = 4 \/ b = 5 \/ b = 6
                         \/ b = 7 \/ b = 8 \/ b = 9 \/ b = 10 \/ b = 11 \/ b = 12
                         \/ b = 13 \/ b = 14 \/ b = 15
    OBVIOUS
  <2>3. \A b \in 0..15 : Weight[b] \in Nat
    BY <2>2, WeightIs
  <2>4. \A b \in 0..15 : w[b] \in Nat /\ w[b] = IF b \in s THEN 2^b ELSE 0
    <3> TAKE b \in 0..15
    <3>1. w[b] = IF b \in s THEN Weight[b] ELSE 0
      BY DEF Worth
    <3>2. w[b] \in Nat
      BY <2>3, <3>1
    <3>3. Weight[b] = 2^b
      BY <2>1
    <3> QED BY <3>1, <3>2, <3>3, Zenon
  <2> HIDE DEF w
  <2>5. \A i \in 1..16 : i - 1 \in 0..15
    OBVIOUS
  <2> QED BY <2>4, <2>5
<1> HIDE DEF w
<1>2. PICK e : Recursion(e, 0, step, 16)
  <2> HIDE DEF step
  <2> QED BY RecursionExists
<1>3. e[0] = 0 /\ \A i \in 1..16 : e[i] = step[i][e[i - 1]]
  <2> HIDE DEF step
  <2> QED BY <1>2, RecursionAt
<1>4. \A i \in 1..16 : \A c \in Nat : step[i][c] = c + w[i - 1] /\ step[i][c] \in Nat
  <2> TAKE i \in 1..16
  <2> TAKE c \in Nat
  <2>1. step[i][c] = c + w[i - 1]
    BY DEF w
  <2> HIDE DEF step
  <2> QED BY <1>1, <2>1
<1> HIDE DEF step
<1>5. \A i \in 0..16 : e[i] \in Nat
  <2> DEFINE Bad == {i \in 0..16 : e[i] \notin Nat}
  <2>1. ASSUME Bad # {} PROVE FALSE
    <3>1. PICK k \in Bad : \A j \in Bad : k <= j
      <4>1. Bad \subseteq Nat
        OBVIOUS
      <4> HIDE DEF Bad
      <4> QED BY <2>1, <4>1, SmallestNat
    <3>2. k \in 0..16 /\ e[k] \notin Nat
      BY <3>1
    <3>3. k # 0
      BY <1>3, <3>2
    <3>4. k \in 1..16 /\ k - 1 \in 0..16 /\ k - 1 \notin Bad
      BY <3>1, <3>2, <3>3
    <3>5. e[k - 1] \in Nat
      BY <3>4
    <3> HIDE DEF Bad
    <3> QED BY <1>3, <1>4, <3>2, <3>4, <3>5
  <2> QED BY <2>1
<1>6. S(e)
  <2> DEFINE E(n) == IF n = 0 THEN 0 ELSE e[n - 1] + (IF n - 1 \in s THEN 2^(n - 1) ELSE 0)
  <2>1. \A n \in 0..16 : e[n] = E(n)
    <3> TAKE n \in 0..16
    <3>1. CASE n = 0
      BY <1>3, <3>1
    <3>2. CASE n # 0
      <4>1. n \in 1..16 /\ n - 1 \in 0..16
        BY <3>2
      <4>2. e[n] = e[n - 1] + w[n - 1]
        BY <1>3, <1>4, <1>5, <4>1
      <4> QED BY <1>1, <3>2, <4>1, <4>2
    <3> QED BY <3>1, <3>2
  <2>2. e = [n \in 0..16 |-> e[n]]
    BY <1>2 DEF Recursion
  <2> HIDE DEF E
  <2>3. e = [n \in 0..16 |-> E(n)]
    BY <2>1, <2>2
  <2> QED BY <2>3 DEF E
<1> DEFINE f == CHOOSE g : S(g)
<1>7. S(f) /\ Number(s) = f[16]
  <2>1. Number(s) = f[16]
    BY DEF Number
  <2> HIDE DEF S
  <2> QED BY <1>6, <2>1
<1> HIDE DEF f
<1>8. f[0] = 0 /\ \A i \in 1..16 : f[i] = f[i - 1] + w[i - 1]
  <2> DEFINE E(n) == IF n = 0 THEN 0 ELSE f[n - 1] + (IF n - 1 \in s THEN 2^(n - 1) ELSE 0)
  <2>1. f = [n \in 0..16 |-> E(n)]
    BY <1>7
  <2> HIDE DEF E, S
  <2>2. \A n \in 0..16 : f[n] = E(n)
    BY <2>1
  <2>3. f[0] = E(0) /\ \A i \in 1..16 : f[i] = E(i) /\ i # 0
    BY <2>2
  <2> QED BY <1>1, <2>3 DEF E
<1> QED BY <1>7, <1>8 DEF w

\* A number below 256 of its bits.
LEMMA EightBits ==
  ASSUME NEW x, NEW l,
         /\ x[0] \in {0, 1} /\ x[1] \in {0, 1} /\ x[2] \in {0, 1} /\ x[3] \in {0, 1}
         /\ x[4] \in {0, 1} /\ x[5] \in {0, 1} /\ x[6] \in {0, 1} /\ x[7] \in {0, 1},
         l = x[0] + 2 * x[1] + 4 * x[2] + 8 * x[3] + 16 * x[4] + 32 * x[5] + 64 * x[6] + 128 * x[7]
  PROVE  /\ l \in Bytes
         /\ \A b \in 0..7 : b \in Bits(l) <=> x[b] = 1
<1> DEFINE x0 == x[0]
           x1 == x[1]
           x2 == x[2]
           x3 == x[3]
           x4 == x[4]
           x5 == x[5]
           x6 == x[6]
           x7 == x[7]
<1>1. /\ x0 \in {0, 1} /\ x1 \in {0, 1} /\ x2 \in {0, 1} /\ x3 \in {0, 1}
      /\ x4 \in {0, 1} /\ x5 \in {0, 1} /\ x6 \in {0, 1} /\ x7 \in {0, 1}
      /\ l = x0 + 2 * x1 + 4 * x2 + 8 * x3 + 16 * x4 + 32 * x5 + 64 * x6 + 128 * x7
  OBVIOUS
<1> HIDE DEF x0, x1, x2, x3, x4, x5, x6, x7
<1>2. l \in Nat /\ l < 256
  BY ONLY <1>1
<1>3. /\ (l \div 1) % 2 = x0 /\ (l \div 2) % 2 = x1
      /\ (l \div 4) % 2 = x2 /\ (l \div 8) % 2 = x3
      /\ (l \div 16) % 2 = x4 /\ (l \div 32) % 2 = x5
      /\ (l \div 64) % 2 = x6 /\ (l \div 128) % 2 = x7
  BY ONLY <1>1
<1>4. /\ (l \div Weight[0]) % 2 = x[0] /\ (l \div Weight[1]) % 2 = x[1]
      /\ (l \div Weight[2]) % 2 = x[2] /\ (l \div Weight[3]) % 2 = x[3]
      /\ (l \div Weight[4]) % 2 = x[4] /\ (l \div Weight[5]) % 2 = x[5]
      /\ (l \div Weight[6]) % 2 = x[6] /\ (l \div Weight[7]) % 2 = x[7]
  BY <1>3, WeightIs DEF x0, x1, x2, x3, x4, x5, x6, x7
<1>5. \A b \in 0..7 : (l \div Weight[b]) % 2 = x[b]
  <2> DEFINE g(b) == (l \div Weight[b]) % 2
  <2>1. /\ g(0) = x[0] /\ g(1) = x[1] /\ g(2) = x[2] /\ g(3) = x[3]
        /\ g(4) = x[4] /\ g(5) = x[5] /\ g(6) = x[6] /\ g(7) = x[7]
    BY <1>4
  <2> HIDE DEF g
  <2>2. \A b \in 0..7 : g(b) = x[b]
    BY <2>1, UpToSeven
  <2> QED BY <2>2 DEF g
<1>6. \A b \in 0..7 : b \in Bits(l) <=> x[b] = 1
  <2> TAKE b \in 0..7
  <2>1. b \in 0..15
    OBVIOUS
  <2>2. b \in Bits(l) <=> (l \div Weight[b]) % 2 = 1
    BY <2>1, BitIs
  <2>3. (l \div Weight[b]) % 2 = x[b]
    BY <1>5
  <2> QED BY <2>2, <2>3, Zenon
<1> QED BY <1>2, <1>6 DEF Bytes

LEMMA NumberSum ==
  ASSUME NEW s
  PROVE  LET w == Worth(s)
         IN  Number(s) = w[0] + w[1] + w[2] + w[3] + w[4] + w[5] + w[6] + w[7]
                         + w[8] + w[9] + w[10] + w[11] + w[12] + w[13] + w[14] + w[15]
<1> DEFINE w == Worth(s)
<1> HIDE DEF w
<1>1. PICK f : /\ Number(s) = f[16] /\ f[0] = 0
               /\ \A i \in 1..16 : f[i] = f[i - 1] + w[i - 1]
  BY NumberIs DEF w
<1>2. /\ f[1] = f[0] + w[0] /\ f[2] = f[1] + w[1] /\ f[3] = f[2] + w[2] /\ f[4] = f[3] + w[3]
      /\ f[5] = f[4] + w[4] /\ f[6] = f[5] + w[5] /\ f[7] = f[6] + w[6] /\ f[8] = f[7] + w[7]
      /\ f[9] = f[8] + w[8] /\ f[10] = f[9] + w[9] /\ f[11] = f[10] + w[10]
      /\ f[12] = f[11] + w[11] /\ f[13] = f[12] + w[12] /\ f[14] = f[13] + w[13]
      /\ f[15] = f[14] + w[14] /\ f[16] = f[15] + w[15]
  BY <1>1
<1>3. /\ w[0] \in Nat /\ w[1] \in Nat /\ w[2] \in Nat /\ w[3] \in Nat /\ w[4] \in Nat
      /\ w[5] \in Nat /\ w[6] \in Nat /\ w[7] \in Nat /\ w[8] \in Nat /\ w[9] \in Nat
      /\ w[10] \in Nat /\ w[11] \in Nat /\ w[12] \in Nat /\ w[13] \in Nat /\ w[14] \in Nat
      /\ w[15] \in Nat
  BY WeightIs DEF w, Worth
<1>4. Number(s) = w[0] + w[1] + w[2] + w[3] + w[4] + w[5] + w[6] + w[7]
                  + w[8] + w[9] + w[10] + w[11] + w[12] + w[13] + w[14] + w[15]
  BY <1>1, <1>2, <1>3
<1> QED BY <1>4 DEF w

LEMMA LowByte ==
  ASSUME NEW s \in SUBSET (0..7)
  PROVE  Number(s) \in Bytes /\ \A b \in 0..7 : b \in Bits(Number(s)) <=> b \in s
<1> DEFINE x == [b \in 0..7 |-> IF b \in s THEN 1 ELSE 0]
           w == Worth(s)
           l == Number(s)
<1>1. \A b \in 0..7 : x[b] \in {0, 1} /\ (x[b] = 1 <=> b \in s)
  OBVIOUS
<1>2. /\ w[0] = x[0] /\ w[1] = 2 * x[1] /\ w[2] = 4 * x[2] /\ w[3] = 8 * x[3]
      /\ w[4] = 16 * x[4] /\ w[5] = 32 * x[5] /\ w[6] = 64 * x[6] /\ w[7] = 128 * x[7]
      /\ w[8] = 0 /\ w[9] = 0 /\ w[10] = 0 /\ w[11] = 0
      /\ w[12] = 0 /\ w[13] = 0 /\ w[14] = 0 /\ w[15] = 0
  BY WeightIs DEF Worth
<1>3. l = w[0] + w[1] + w[2] + w[3] + w[4] + w[5] + w[6] + w[7]
          + w[8] + w[9] + w[10] + w[11] + w[12] + w[13] + w[14] + w[15]
  BY NumberSum
<1>4. /\ x[0] \in {0, 1} /\ x[1] \in {0, 1} /\ x[2] \in {0, 1} /\ x[3] \in {0, 1}
      /\ x[4] \in {0, 1} /\ x[5] \in {0, 1} /\ x[6] \in {0, 1} /\ x[7] \in {0, 1}
  BY <1>1
<1> HIDE DEF x, w, l
<1>5. l \in Nat
      /\ l = x[0] + 2 * x[1] + 4 * x[2] + 8 * x[3] + 16 * x[4] + 32 * x[5] + 64 * x[6] + 128 * x[7]
  BY <1>2, <1>3, <1>4
<1>6. l \in Bytes /\ \A b \in 0..7 : b \in Bits(l) <=> x[b] = 1
  BY <1>4, <1>5, EightBits
<1> QED BY <1>1, <1>6 DEF l

LEMMA HighByte ==
  ASSUME NEW s \in SUBSET (8..15)
  PROVE  /\ Number(s) \div 256 \in Bytes
         /\ \A b \in 0..7 : b \in Bits(Number(s) \div 256) <=> b + 8 \in s
<1> DEFINE x == [b \in 0..7 |-> IF b + 8 \in s THEN 1 ELSE 0]
           w == Worth(s)
           n == Number(s)
           l == n \div 256
<1>1. \A b \in 0..7 : x[b] \in {0, 1} /\ (x[b] = 1 <=> b + 8 \in s)
  OBVIOUS
<1>2. /\ w[8] = 256 * x[0] /\ w[9] = 512 * x[1] /\ w[10] = 1024 * x[2] /\ w[11] = 2048 * x[3]
      /\ w[12] = 4096 * x[4] /\ w[13] = 8192 * x[5] /\ w[14] = 16384 * x[6] /\ w[15] = 32768 * x[7]
      /\ w[0] = 0 /\ w[1] = 0 /\ w[2] = 0 /\ w[3] = 0
      /\ w[4] = 0 /\ w[5] = 0 /\ w[6] = 0 /\ w[7] = 0
  BY WeightIs DEF Worth
<1>3. n = w[0] + w[1] + w[2] + w[3] + w[4] + w[5] + w[6] + w[7]
          + w[8] + w[9] + w[10] + w[11] + w[12] + w[13] + w[14] + w[15]
  BY NumberSum
<1>4. /\ x[0] \in {0, 1} /\ x[1] \in {0, 1} /\ x[2] \in {0, 1} /\ x[3] \in {0, 1}
      /\ x[4] \in {0, 1} /\ x[5] \in {0, 1} /\ x[6] \in {0, 1} /\ x[7] \in {0, 1}
  BY <1>1
<1> HIDE DEF x, w, n
<1>5. l \in Nat
      /\ l = x[0] + 2 * x[1] + 4 * x[2] + 8 * x[3] + 16 * x[4] + 32 * x[5] + 64 * x[6] + 128 * x[7]
  <2> DEFINE m == x[0] + 2 * x[1] + 4 * x[2] + 8 * x[3] + 16 * x[4] + 32 * x[5] + 64 * x[6]
                  + 128 * x[7]
  <2>1. m \in Nat
    BY <1>4
  <2>2. n = 256 * m
    BY <1>2, <1>3, <1>4
  <2> HIDE DEF m
  <2>3. l = m
    BY <2>1, <2>2
  <2> QED BY <2>1, <2>3 DEF m
<1> HIDE DEF l
<1>6. l \in Bytes /\ \A b \in 0..7 : b \in Bits(l) <=> x[b] = 1
  BY <1>4, <1>5, EightBits
<1> QED BY <1>1, <1>6 DEF l, n

\* The two bytes that are sent for a checksum are read as that checksum.
LEMMA ReadBack ==
  ASSUME NEW c \in SUBSET (0..15)
  PROVE  /\ LowFirst(c)[1] \in Bytes /\ LowFirst(c)[2] \in Bytes
         /\ Bits(BigEndian(LowFirst(c)[2], LowFirst(c)[1])) = c
<1> DEFINE lo == LowFirst(c)[1]
           hi == LowFirst(c)[2]
           w == Bits(BigEndian(hi, lo))
<1>1. lo \in Bytes /\ \A b \in 0..7 : b \in Bits(lo) <=> b \in c
  <2> DEFINE s == {b \in c : b < 8}
             a == Number(s)
             z == Number({b \in c : b >= 8}) \div 256
  <2>1. s \in SUBSET (0..7) /\ \A b \in 0..7 : b \in s <=> b \in c
    <3>1. \A b \in c : b \in 0..15
      OBVIOUS
    <3>2. \A b \in s : b \in 0..15 /\ b \in c /\ b < 8
      BY <3>1
    <3>3. \A b \in 0..15 : b \in c /\ b < 8 => b \in s
      OBVIOUS
    <3> HIDE DEF s
    <3> QED BY <3>2, <3>3
  <2>2. LowFirst(c) = <<a, z>>
    BY DEF LowFirst
  <2> HIDE DEF s, a, z
  <2>3. lo = a
    BY <2>2
  <2> HIDE DEF lo
  <2> QED BY <2>1, <2>3, LowByte DEF a
<1>2. hi \in Bytes /\ \A b \in 0..7 : b \in Bits(hi) <=> b + 8 \in c
  <2> DEFINE s == {b \in c : b >= 8}
             a == Number({b \in c : b < 8})
             z == Number(s) \div 256
  <2>1. s \in SUBSET (8..15) /\ \A b \in 0..7 : b + 8 \in s <=> b + 8 \in c
    <3>1. \A b \in c : b \in 0..15
      OBVIOUS
    <3>2. \A b \in s : b \in 0..15 /\ b \in c /\ b >= 8
      BY <3>1
    <3>3. \A b \in 0..15 : b \in c /\ b >= 8 => b \in s
      OBVIOUS
    <3> HIDE DEF s
    <3> QED BY <3>2, <3>3
  <2>2. LowFirst(c) = <<a, z>>
    BY DEF LowFirst
  <2> HIDE DEF s, a, z
  <2>3. hi = z
    BY <2>2
  <2> HIDE DEF hi
  <2> QED BY <2>1, <2>3, HighByte DEF z
<1> HIDE DEF lo, hi
<1>3. \A b \in 0..7 : (b \in w <=> b \in c) /\ (b + 8 \in w <=> b + 8 \in c)
  BY <1>1, <1>2, WordBits
<1>4. w \in SUBSET (0..15)
  BY DEF Bits
<1> HIDE DEF w
<1>5. \A b \in 0..15 : b \in 0..7 \/ (b - 8 \in 0..7 /\ (b - 8) + 8 = b)
  OBVIOUS
<1>6. \A b \in 0..15 : b \in w <=> b \in c
  BY <1>3, <1>5
<1>7. w = c
  BY <1>4, <1>6
<1> QED BY <1>1, <1>2, <1>7 DEF w, lo, hi

LEMMA Joined ==
  ASSUME NEW a \in Seq(Nat), NEW b \in Seq(Nat)
  PROVE  /\ a \o b \in Seq(Nat) /\ Len(a \o b) = Len(a) + Len(b)
         /\ \A j \in 1..(Len(a) + Len(b)) :
              (a \o b)[j] = IF j <= Len(a) THEN a[j] ELSE b[j - Len(a)]
OBVIOUS

\* What a device sends has the length it tells and passes the checksum, and all
\* of it is bytes if the length is one.
LEMMA SentIs ==
  ASSUME NEW bytes \in Seq(Bytes)
  PROVE  LET raw == Sent(bytes)
             size == Len(bytes)
         IN  /\ raw \in Seq(Nat) /\ Len(raw) = size + 5
             /\ raw[1] = BmsAddress /\ raw[2] = ReadHolding /\ raw[3] = size
             /\ \A i \in 1..size : raw[i + 3] = bytes[i]
             /\ Bits(BigEndian(raw[size + 5], raw[size + 4])) = crc16(SubSeq(raw, 1, size + 3))
             /\ size < 256 => raw \in Seq(Bytes)
<1> DEFINE size == Len(bytes)
           head == <<BmsAddress, ReadHolding, size>>
           body == head \o bytes
           c == crc16(body)
           lo == LowFirst(c)[1]
           hi == LowFirst(c)[2]
           raw == body \o <<lo, hi>>
<1>1. size \in Nat /\ bytes \in Seq(Nat) /\ \A i \in 1..size : bytes[i] \in Bytes
  BY DEF Bytes
<1>2. /\ head \in Seq(Nat) /\ Len(head) = 3
      /\ head[1] = BmsAddress /\ head[2] = ReadHolding /\ head[3] = size
  BY <1>1 DEF BmsAddress, ReadHolding
<1> HIDE DEF size, head
<1>3. /\ body \in Seq(Nat) /\ Len(body) = size + 3
      /\ body[1] = BmsAddress /\ body[2] = ReadHolding /\ body[3] = size
      /\ \A i \in 1..size : body[i + 3] = bytes[i]
  <2>1. body \in Seq(Nat) /\ Len(body) = size + 3
    <3>1. body \in Seq(Nat) /\ Len(body) = Len(head) + Len(bytes)
      BY <1>1, <1>2, Joined
    <3>2. Len(head) + Len(bytes) = size + 3
      BY <1>1, <1>2 DEF size
    <3> HIDE DEF body
    <3> QED BY <3>1, <3>2
  <2>2. \A j \in 1..(size + 3) : body[j] = IF j <= 3 THEN head[j] ELSE bytes[j - 3]
    <3>1. Len(bytes) = size /\ Len(head) + Len(bytes) = size + 3
      BY <1>1, <1>2 DEF size
    <3>2. \A j \in 1..(Len(head) + Len(bytes)) :
            body[j] = IF j <= Len(head) THEN head[j] ELSE bytes[j - Len(head)]
      BY <1>1, <1>2, Joined
    <3> HIDE DEF body
    <3> QED BY <1>2, <3>1, <3>2
  <2> HIDE DEF body
  <2>3. body[1] = head[1] /\ body[2] = head[2] /\ body[3] = head[3]
    BY <1>1, <2>2
  <2>4. \A i \in 1..size : body[i + 3] = bytes[i]
    <3> TAKE i \in 1..size
    <3> DEFINE j == i + 3
    <3>1. j \in 1..(size + 3) /\ ~(j <= 3) /\ j - 3 = i
      BY <1>1
    <3> HIDE DEF j
    <3>2. body[j] = bytes[i]
      BY <2>2, <3>1
    <3> QED BY <3>2 DEF j
  <2> QED BY <1>2, <2>1, <2>3, <2>4
<1> HIDE DEF body
<1>4. c \in SUBSET (0..15)
  <2>1. Len(body) \in Nat
    BY <1>1, <1>3
  <2>2. PICK f : Running(f, body) /\ c = f[Len(body)]
    BY <2>1, CrcIs
  <2> QED BY <2>1, <2>2 DEF Running
<1> HIDE DEF c
<1>5. lo \in Bytes /\ hi \in Bytes /\ Bits(BigEndian(hi, lo)) = c
  BY <1>4, ReadBack
<1>6. LowFirst(c) = <<lo, hi>>
  BY DEF LowFirst
<1> HIDE DEF lo, hi
<1>7. Sent(bytes) = raw
  BY <1>6 DEF Sent, c, body, head, size
<1>8. lo \in Nat /\ hi \in Nat
  BY <1>5 DEF Bytes
<1>9. /\ raw \in Seq(Nat) /\ Len(raw) = size + 5
      /\ raw[size + 4] = lo /\ raw[size + 5] = hi
      /\ \A i \in 1..(size + 3) : raw[i] = body[i]
  BY <1>1, <1>3, <1>8
<1> HIDE DEF raw
<1>10. SubSeq(raw, 1, size + 3) = body
  <2> DEFINE sub == SubSeq(raw, 1, size + 3)
  <2>1. sub \in Seq(Nat) /\ Len(sub) = size + 3 /\ \A i \in 1..(size + 3) : sub[i] = raw[i]
    BY <1>1, <1>9
  <2> HIDE DEF sub
  <2>2. \A i \in 1..(size + 3) : sub[i] = body[i]
    BY <1>9, <2>1
  <2>3. sub = body
    BY <1>3, <2>1, <2>2
  <2> QED BY <2>3 DEF sub
<1>11. raw[1] = BmsAddress /\ raw[2] = ReadHolding /\ raw[3] = size
  BY <1>1, <1>3, <1>9
<1>12. \A i \in 1..size : raw[i + 3] = bytes[i]
  <2> TAKE i \in 1..size
  <2>1. i + 3 \in 1..(size + 3)
    BY <1>1
  <2> QED BY <1>3, <1>9, <2>1
<1>13. Bits(BigEndian(raw[size + 5], raw[size + 4])) = crc16(SubSeq(raw, 1, size + 3))
  BY <1>5, <1>9, <1>10 DEF c
<1>14. ASSUME size < 256 PROVE raw \in Seq(Bytes)
  <2>1. size \in Bytes /\ BmsAddress \in Bytes /\ ReadHolding \in Bytes
    BY <1>1, <1>14 DEF Bytes, BmsAddress, ReadHolding
  <2>2. \A i \in 1..(size + 5) : \/ i = 1 \/ i = 2 \/ i = 3 \/ (i - 3 \in 1..size /\ i = (i - 3) + 3)
                                \/ i = size + 4 \/ i = size + 5
    BY <1>1
  <2>3. \A i \in 1..(size + 5) : raw[i] \in Bytes
    <3> TAKE i \in 1..(size + 5)
    <3>1. CASE i = 1 \/ i = 2 \/ i = 3
      BY <1>11, <2>1, <3>1
    <3>2. CASE i - 3 \in 1..size /\ i = (i - 3) + 3
      <4> DEFINE k == i - 3
      <4>1. k \in 1..size /\ i = k + 3
        BY <3>2
      <4> HIDE DEF k
      <4> QED BY <1>1, <1>12, <4>1
    <3>3. CASE i = size + 4 \/ i = size + 5
      BY <1>5, <1>9, <3>3
    <3> QED BY <2>2, <3>1, <3>2, <3>3
  <2> QED BY <1>1, <1>9, <2>3
<1> QED BY <1>7, <1>9, <1>11, <1>12, <1>13, <1>14 DEF size

\* Whatever registers a device sends, its answer arrives: parse_response takes
\* the length, the two bytes it reads low byte first are the checksum, and each
\* register has its high byte first.  The block of the request is decoded from
\* those registers, the realtime one unless the gate finds it implausible.  So
\* what the other theorems say of accepted answers is said of real ones.
THEOREM IntactTheorem ==
  \A bytes \in Seq(Bytes) :
    LET raw == Sent(bytes)
        regs == [i \in 1..(Len(bytes) \div 2) |-> BigEndian(bytes[2 * i - 1], bytes[2 * i])]
    IN  /\ Len(bytes) < 256 => raw \in Seq(Bytes)
        /\ parse_response(raw) = [reason |-> Absent, regs |-> regs]
        /\ handle_entry(ConfigRequest, raw) = Decoded("config", ConfigData(regs))
        /\ implausibility(RealtimeData(regs)) = Absent =>
             handle_entry(RealtimeRequest, raw) = Decoded("realtime", RealtimeData(regs))
<1> SUFFICES ASSUME NEW bytes \in Seq(Bytes)
             PROVE  LET raw == Sent(bytes)
                        regs == [i \in 1..(Len(bytes) \div 2) |->
                                   BigEndian(bytes[2 * i - 1], bytes[2 * i])]
                    IN  /\ Len(bytes) < 256 => raw \in Seq(Bytes)
                        /\ parse_response(raw) = [reason |-> Absent, regs |-> regs]
                        /\ handle_entry(ConfigRequest, raw) = Decoded("config", ConfigData(regs))
                        /\ implausibility(RealtimeData(regs)) = Absent =>
                             handle_entry(RealtimeRequest, raw)
                               = Decoded("realtime", RealtimeData(regs))
  OBVIOUS
<1> DEFINE size == Len(bytes)
           raw == Sent(bytes)
           regs == [i \in 1..(size \div 2) |-> BigEndian(bytes[2 * i - 1], bytes[2 * i])]
           read == [i \in 1..(size \div 2) |-> BigEndian(raw[2 * i + 2], raw[2 * i + 3])]
           sum == Bits(BigEndian(raw[size + 5], raw[size + 4]))
           body == crc16(SubSeq(raw, 1, size + 3))
<1>1. /\ raw \in Seq(Nat) /\ Len(raw) = size + 5
      /\ raw[1] = BmsAddress /\ raw[2] = ReadHolding /\ raw[3] = size
      /\ \A i \in 1..size : raw[i + 3] = bytes[i]
      /\ sum = body
      /\ size < 256 => raw \in Seq(Bytes)
  BY SentIs
<1>2. size \in Nat
  OBVIOUS
<1> HIDE DEF size, raw
<1>3. read = regs
  <2>1. ASSUME NEW i \in 1..(size \div 2)
        PROVE  raw[2 * i + 2] = bytes[2 * i - 1] /\ raw[2 * i + 3] = bytes[2 * i]
    <3> DEFINE j == 2 * i - 1
               k == 2 * i
    <3>1. j \in 1..size /\ k \in 1..size /\ 2 * i + 2 = j + 3 /\ 2 * i + 3 = k + 3
      BY <1>2
    <3> HIDE DEF j, k
    <3>2. raw[j + 3] = bytes[j] /\ raw[k + 3] = bytes[k]
      BY <1>1, <3>1
    <3> QED BY <3>1, <3>2 DEF j, k
  <2> QED BY <2>1
<1>4. raw # NotHex /\ ~(Len(raw) < 5)
  BY <1>1, <1>2, NotHexAssumption
<1>5. parse_response(raw) = [reason |-> Absent, regs |-> regs]
  <2>1. 3 + size + 2 = size + 5 /\ 3 + size + 1 = size + 4 /\ 3 + size = size + 3
    BY <1>2
  <2>2. parse_response(raw) = IF sum # body THEN Rejected("crc")
                              ELSE [reason |-> Absent, regs |-> read]
    BY <1>1, <1>4, <2>1 DEF parse_response
  <2> HIDE DEF sum, body, read, regs
  <2> QED BY <1>1, <1>3, <2>2
<1> HIDE DEF regs
<1>6. Block(ConfigRequest) = "config" /\ Block(RealtimeRequest) = "realtime"
  <2>1. /\ ConfigRequest \in Seq(Nat) /\ Len(ConfigRequest) = 8
        /\ ConfigRequest[3] = 0 /\ ConfigRequest[4] = 128
    BY DEF ConfigRequest
  <2>2. /\ RealtimeRequest \in Seq(Nat) /\ Len(RealtimeRequest) = 8
        /\ RealtimeRequest[3] = 0 /\ RealtimeRequest[4] = 0
    BY DEF RealtimeRequest
  <2> QED BY <2>1, <2>2, NotHexAssumption DEF Block, BigEndian
<1> DEFINE answer == parse_response(raw)
<1>7. answer.reason = Absent /\ answer.regs = regs
  BY <1>5
<1> HIDE DEF answer
<1>8. handle_entry(ConfigRequest, raw) = Decoded("config", ConfigData(regs))
  <2> DEFINE block == Block(ConfigRequest)
             d == RealtimeData(answer.regs)
  <2>1. handle_entry(ConfigRequest, raw) =
        CASE block \in {"bad_command", "unknown_block"} -> Dropped_for(block)
          [] block \in {"realtime", "config"} /\ answer.reason # Absent ->
               Dropped_for(answer.reason)
          [] block = "realtime" /\ answer.reason = Absent ->
               IF implausibility(d) # Absent THEN Dropped_for(implausibility(d))
               ELSE Decoded("realtime", d)
          [] block = "config" /\ answer.reason = Absent ->
               Decoded("config", ConfigData(answer.regs))
    BY DEF handle_entry, answer
  <2> HIDE DEF d, block
  <2>2. block = "config"
    BY <1>6 DEF block
  <2>3. handle_entry(ConfigRequest, raw) = Decoded("config", ConfigData(answer.regs))
    BY <1>7, <2>1, <2>2
  <2> QED BY <1>7, <2>3
<1>9. ASSUME implausibility(RealtimeData(regs)) = Absent
      PROVE  handle_entry(RealtimeRequest, raw) = Decoded("realtime", RealtimeData(regs))
  <2> DEFINE block == Block(RealtimeRequest)
             d == RealtimeData(answer.regs)
  <2>1. handle_entry(RealtimeRequest, raw) =
        CASE block \in {"bad_command", "unknown_block"} -> Dropped_for(block)
          [] block \in {"realtime", "config"} /\ answer.reason # Absent ->
               Dropped_for(answer.reason)
          [] block = "realtime" /\ answer.reason = Absent ->
               IF implausibility(d) # Absent THEN Dropped_for(implausibility(d))
               ELSE Decoded("realtime", d)
          [] block = "config" /\ answer.reason = Absent ->
               Decoded("config", ConfigData(answer.regs))
    BY DEF handle_entry, answer
  <2>2. implausibility(d) = Absent /\ d = RealtimeData(regs)
    BY <1>7, <1>9
  <2> HIDE DEF d, block
  <2>3. block = "realtime"
    BY <1>6 DEF block
  <2>4. handle_entry(RealtimeRequest, raw) = Decoded("realtime", d)
    BY <1>7, <2>1, <2>2, <2>3
  <2> QED BY <2>2, <2>4
<1> QED BY <1>1, <1>5, <1>8, <1>9 DEF raw, regs, size

-----------------------------------------------------------------------------
(***************************************************************************)
(* The registry.  Ingest leaves open what cells a realtime frame carries;  *)
(* here they are those of some answer, of a device that sends what it      *)
(* likes.                                                                  *)
(***************************************************************************)

LEMMA CellsInSlots ==
  ASSUME NEW sets, CellsOfAnswers(sets)
  PROVE  \A cells \in sets : cells \subseteq 1..MaxCells
<1> TAKE cells \in sets
<1>1. PICK command \in Seq(Nat), raw \in Seq(Nat) :
        /\ handle_entry(command, raw).outcome = "realtime"
        /\ cells = DOMAIN handle_entry(command, raw).data.cells_v
  BY DEF CellsOfAnswers
<1> DEFINE entry == handle_entry(command, raw)
           regs == parse_response(raw).regs
<1>2. "realtime" \notin DROP_REASONS
  BY DEF DROP_REASONS
<1>3. parse_response(raw).reason = Absent
  BY <1>1, <1>2, OutcomeTheorem
<1>4. entry = Decoded("realtime", RealtimeData(regs)) \/ entry = Decoded("config", ConfigData(regs))
  BY <1>1, <1>2, OutcomeTheorem
<1>5. entry.data = RealtimeData(regs)
  <2> HIDE DEF entry, regs
  <2> QED BY <1>1, <1>4 DEF Decoded, entry
<1>6. regs \in Seq(Nat)
  BY <1>3, Accepted
<1> HIDE DEF entry, regs
<1>7. \A i \in DOMAIN RealtimeData(regs).cells_v : i \in 1..MaxCells
  BY <1>6, SlotsAreReal
<1> QED BY <1>1, <1>5, <1>7 DEF entry

\* The cap on devices and the bound on the count register bound the cell series
\* of the registry, whatever devices put into their answers.
THEOREM SlotSeriesTheorem ==
  ASSUME CellsOfAnswers(CellSets)
  PROVE  Spec => []SeriesInSlots
<1>1. SeriesInv /\ CapInv => SeriesInSlots
  <2> SUFFICES ASSUME SeriesInv, CapInv PROVE SeriesInSlots
    OBVIOUS
  <2> DEFINE D == DOMAIN devices
             M == 1..MaxCells
             cells == registry.cells
  <2>1. AllCells \subseteq M
    <3>1. \A c \in CellSets : c \subseteq M
      BY CellsInSlots
    <3> HIDE DEF M
    <3> QED BY <3>1 DEF AllCells
  <2>2. cells \subseteq Serials \X AllCells
    BY DEF SeriesInv, Shape
  <2>3. \A s \in Serials, i \in AllCells : <<s, i>> \in cells => s \in D
    BY DEF SeriesInv, CellsAgree
  <2>4. IsFiniteSet(M) /\ Cardinality(M) = 32 /\ MaxCells = 32
    <3>1. IsFiniteSet(1..32) /\ Cardinality(1..32) = 32
      <4>1. 1 \in Int /\ 32 \in Int /\ ~(1 > 32) /\ 32 - 1 + 1 = 32
        OBVIOUS
      <4> QED BY <4>1, FS_Interval
    <3> QED BY <3>1 DEF MaxCells
  <2>5. ~Unlimited => IsFiniteSet(D) /\ cap \in Nat /\ Cardinality(D) <= cap
    <3>1. D \subseteq Serials /\ IsFiniteSet(Serials)
      BY IngestAssumption DEF SeriesInv, Shape
    <3>2. ~Unlimited => cap \in Nat /\ Cardinality(D) <= cap
      BY IngestAssumption DEF CapInv
    <3> HIDE DEF D
    <3>3. IsFiniteSet(D)
      BY <3>1, FS_Subset
    <3> QED BY <3>2, <3>3
  <2> HIDE DEF D, M, cells
  <2>6. cells \subseteq D \X M
    BY <2>1, <2>2, <2>3
  <2>7. ASSUME ~Unlimited PROVE Cardinality(cells) <= cap * MaxCells
    <3>1. IsFiniteSet(D) /\ cap \in Nat /\ Cardinality(D) <= cap
      BY <2>5, <2>7
    <3> DEFINE P == D \X M
    <3>2. IsFiniteSet(P) /\ Cardinality(P) = Cardinality(D) * 32
      BY <2>4, <3>1, FS_Product
    <3>3. cells \in SUBSET P
      BY <2>6
    <3> HIDE DEF P
    <3>4. IsFiniteSet(cells) /\ Cardinality(cells) <= Cardinality(P)
      BY <3>2, <3>3, FS_Subset
    <3>5. Cardinality(D) \in Nat /\ Cardinality(cells) \in Nat
      BY <3>1, <3>4, FS_CardinalityType
    <3> QED BY <2>4, <3>1, <3>2, <3>4, <3>5
  <2> QED BY <2>6, <2>7 DEF SeriesInSlots, D, M, cells
<1> QED
  BY <1>1, CapAlways, PTL

=============================================================================
