-------------------------- MODULE LtcEmulator_proofs --------------------------
(***************************************************************************)
(* What the AMS reads is what it asked for, of the cells and sensors as    *)
(* they are set and of the channel it has selected, for every chain, set   *)
(* of channels and number of transactions, console commands and losses of  *)
(* power, and however long the loop stays in the USB stack.                *)
(***************************************************************************)
EXTENDS LtcEmulator, SequenceTheorems, TLAPS

\* ltc6811_emu.c:435-464, 724-732 and the setters of usb_cmd.c: what the
\* transmitter is fed from is what the console set and the channel selected.
PoolIsFresh == pool = AllResponses(cells, temps, mux)

\* A group of cell voltages does not depend on the channel, so that rebuilding
\* RDAUXA alone is enough when the channel changes.
LEMMA OnlyRdauxaDependsOnMux ==
  ASSUME NEW c, NEW t, NEW m, NEW n
  PROVE  [AllResponses(c, t, m) EXCEPT !["RDAUXA"] = Response("RDAUXA", c, t, n)]
           = AllResponses(c, t, n)
<1>1. \A r \in Reads : r # "RDAUXA" => Response(r, c, t, m) = Response(r, c, t, n)
  BY DEF Response
<1> QED
  BY <1>1 DEF AllResponses

\* No step leaves an answer behind: every setter rebuilds, and so does the
\* reception of a selector.
LEMMA StepKeepsPoolFresh ==
  ASSUME PoolIsFresh, [Next]_vars
  PROVE  PoolIsFresh'
<1>1. CASE Service
  <2>1. CASE Rise
    BY <2>1 DEF Rise, PoolIsFresh, setting
  <2>2. CASE Serve
    <3>1. CASE Selected = mux
      <4>1. pool' = pool
        BY <2>2, <3>1 DEF Serve, PoolIsFresh, AllResponses
      <4>2. mux' = mux /\ cells' = cells /\ temps' = temps
        BY <2>2, <3>1 DEF Serve
      <4> QED
        BY <4>1, <4>2 DEF PoolIsFresh
    <3>2. CASE Selected # mux
      <4>1. pool' = [AllResponses(cells, temps, mux) EXCEPT
                       !["RDAUXA"] = Response("RDAUXA", cells, temps, Selected)]
        BY <2>2, <3>2 DEF Serve, PoolIsFresh
      <4>2. pool' = AllResponses(cells, temps, Selected)
        BY <4>1, OnlyRdauxaDependsOnMux
      <4>3. mux' = Selected /\ cells' = cells /\ temps' = temps
        BY <2>2 DEF Serve
      <4> QED
        BY <4>2, <4>3 DEF PoolIsFresh
    <3> QED
      BY <3>1, <3>2
  <2> QED
    BY <1>1, <2>1, <2>2 DEF Service
<1>2. CASE EnterUsb \/ LeaveUsb
  BY <1>2 DEF EnterUsb, LeaveUsb, PoolIsFresh, setting, framing
<1>3. ASSUME NEW chip \in Chips, NEW level \in Levels, NEW r \in Groups,
             SetCell(chip, r, level)
      PROVE  PoolIsFresh'
  BY <1>3 DEF SetCell, PoolIsFresh, framing, AllResponses, Response
<1>4. ASSUME NEW chip \in Chips, NEW level \in Levels, NEW ch \in Channels,
             SetTemp(chip, ch, level)
      PROVE  PoolIsFresh'
  BY <1>4 DEF SetTemp, PoolIsFresh, framing, AllResponses, Response
<1>5. ASSUME NEW mask \in SUBSET Modules, StopReply(mask)
      PROVE  PoolIsFresh'
  BY <1>5 DEF StopReply, PoolIsFresh, framing
<1>6. CASE ResetState
  BY <1>6 DEF ResetState, PoolIsFresh, framing, AllResponses, Response
<1>7. ASSUME NEW c, NEW s, CsFall(c, s)
      PROVE  PoolIsFresh'
  BY <1>7 DEF CsFall, PoolIsFresh, setting, framing
<1>8. CASE Clock \/ CsRise
  BY <1>8 DEF Clock, CsRise, PoolIsFresh, setting, framing
<1>9. CASE UNCHANGED vars
  BY <1>9 DEF vars, PoolIsFresh
<1> QED
  BY <1>1, <1>2, <1>3, <1>4, <1>5, <1>6, <1>7, <1>8, <1>9 DEF Next

-----------------------------------------------------------------------------
(* Types.                                                                  *)

LEMMA Sizes ==
  /\ DataWords \in Nat /\ DataWords = 4 * NChips /\ DataWords >= 4
  /\ CommandWords = 2 /\ ChunkWords = 4 /\ FifoWords = 4
BY LtcBounds DEF DataWords, CommandWords, ChunkWords, FifoWords

LEMMA WordCount ==
  /\ \A c : Words(c) \in Nat
  /\ \A c \in Reads : Words(c) = DataWords + 2
BY Sizes, LtcWords DEF Words, Reads

\* Four words of the data are a chip's.
LEMMA WordOfChip ==
  ASSUME NEW i \in 0..(DataWords - 1)
  PROVE  /\ i \div ChunkWords \in Chips /\ i % ChunkWords \in 0..3
         /\ i = 4 * (i \div ChunkWords) + (i % ChunkWords)
<1>1. i \in Nat /\ i < 4 * NChips /\ NChips \in Nat
  BY Sizes, LtcBounds
<1>2. /\ i \div 4 \in Nat /\ i % 4 \in 0..3
      /\ i = 4 * (i \div 4) + (i % 4)
  BY <1>1
<1> QED
  BY <1>1, <1>2 DEF ChunkWords, Chips

\* The filler and what is pushed are answers.
LEMMA DataIsAnswer ==
  ASSUME TypeOK
  PROVE  /\ Filler \in Answers
         /\ \A i \in 0..(DataWords - 1) : Data(i) \in Answers
<1>1. Filler \in Answers
  <2>1. 0 \in Chips /\ Seed \in Levels /\ 0 \in 0..ChunkWords
    BY LtcBounds, Sizes DEF Chips
  <2> QED
    BY <2>1 DEF Filler, Word, Answers
<1>2. ASSUME NEW i \in 0..(DataWords - 1) PROVE Data(i) \in Answers
  <2> DEFINE chip == i \div ChunkWords
             part == i % ChunkWords
  <2>1. chip \in Chips /\ part + 1 \in 0..ChunkWords
    BY WordOfChip, Sizes
  <2>2. current \in Reads /\ pool[current][chip] \in Levels
    BY <2>1 DEF TypeOK
  <2>3. Data(i) = Filler \/ Data(i) = <<current, chip, pool[current][chip], part + 1>>
    BY DEF Data, Word
  <2> QED
    BY <1>1, <2>1, <2>2, <2>3 DEF Answers
<1> QED
  BY <1>1, <1>2

LEMMA RoomIs ==
  ASSUME TypeOK
  PROVE  /\ Room \in Nat /\ Room <= FifoWords - Len(tx) /\ Room <= DataWords - txIdx
         /\ Room > 0 => parsed /\ cs = "low"
         /\ Room = 0 /\ cs = "low" /\ parsed => Len(tx) = FifoWords \/ txIdx = DataWords
<1>1. Len(tx) \in Nat /\ Len(tx) <= 4 /\ txIdx \in 0..DataWords /\ DataWords \in Nat
  BY Sizes DEF TypeOK, FifoWords
<1> QED
  BY <1>1, Sizes DEF Room, Least

\* What Serve does to the FIFOs.
LEMMA ServeFeeds ==
  ASSUME TypeOK, Serve
  PROVE  /\ tx' \in Seq(Answers) /\ Len(tx') = Len(tx) + Room
         /\ \A k \in 1..Len(tx) : tx'[k] = tx[k]
         /\ \A k \in 1..Len(tx') : k > Len(tx) => tx'[k] = Data(txIdx + k - Len(tx) - 1)
         /\ txIdx' = txIdx + Room
<1> DEFINE fed == [k \in 1..Room |-> Data(txIdx + k - 1)]
<1>1. Room \in Nat /\ Room <= DataWords - txIdx /\ txIdx \in Nat
  BY RoomIs, Sizes DEF TypeOK
<1>2. fed \in Seq(Answers) /\ Len(fed) = Room
  <2>1. \A k \in 1..Room : txIdx + k - 1 \in 0..(DataWords - 1)
    BY <1>1, Sizes
  <2>2. fed \in [1..Room -> Answers]
    BY <2>1, DataIsAnswer
  <2> QED
    BY <1>1, <2>2
<1>3. tx' = tx \o fed /\ txIdx' = txIdx + Room /\ tx \in Seq(Answers)
  BY DEF Serve, TypeOK
<1>4. \A k \in 1..Room : fed[k] = Data(txIdx + k - 1)
  OBVIOUS
<1> HIDE DEF fed
<1>5. /\ tx' \in Seq(Answers) /\ Len(tx') = Len(tx) + Len(fed)
      /\ \A k \in 1..Len(tx) : tx'[k] = tx[k]
      /\ \A k \in 1..Len(tx') : k > Len(tx) => tx'[k] = fed[k - Len(tx)]
  <2>1. /\ Len(tx \o fed) = Len(tx) + Len(fed) /\ tx \o fed \in Seq(Answers)
        /\ \A k \in 1..(Len(tx) + Len(fed)) :
             (tx \o fed)[k] = IF k <= Len(tx) THEN tx[k] ELSE fed[k - Len(tx)]
    BY <1>2, <1>3, ConcatProperties
  <2>2. Len(tx) \in Nat /\ Len(fed) \in Nat
    BY <1>2, <1>3
  <2> QED
    BY <1>3, <2>1, <2>2
<1>6. \A k \in 1..Len(tx') : k > Len(tx) => tx'[k] = Data(txIdx + k - Len(tx) - 1)
  <2> SUFFICES ASSUME NEW k \in 1..Len(tx'), k > Len(tx)
               PROVE  tx'[k] = Data(txIdx + k - Len(tx) - 1)
    OBVIOUS
  <2>1. Len(tx) \in Nat /\ k - Len(tx) \in 1..Room
    BY <1>1, <1>2, <1>3, <1>5
  <2>2. txIdx + (k - Len(tx)) - 1 = txIdx + k - Len(tx) - 1
    BY <1>1, <2>1
  <2> QED
    BY <1>4, <1>5, <2>1, <2>2
<1> QED
  BY <1>2, <1>3, <1>5, <1>6

\* The parts of TypeOK, by who writes them.
SettingTyped ==
  /\ cells \in [Chips -> [Groups -> Levels]] /\ temps \in [Chips -> [Channels -> Levels]]
  /\ pool \in [Reads -> [Chips -> Levels]] /\ stopMask \subseteq Modules
FramingTyped ==
  /\ current \in Reads /\ mux \in Channels
  /\ txIdx \in 0..DataWords /\ rxCount \in 0..(CommandWords + DataWords)
  /\ parsed \in BOOLEAN /\ snooping \in BOOLEAN /\ wasLow \in BOOLEAN
UsbTyped ==
  cpu \in {"loop", "usb", "replying"} /\ console \in 0..MaxConsole /\ busy \in 0..UsbWords
WiresTyped ==
  /\ tx \in Seq(Answers) /\ Len(tx) <= FifoWords
  /\ rx \in Seq(Orders) /\ Len(rx) <= FifoWords /\ skewed \in BOOLEAN
AmsTyped ==
  /\ cs \in {"high", "low"} /\ cmd \in Commands /\ sel \in Channels \cup {"none"}
  /\ clocked \in 0..Words(cmd) /\ line \in Seq(Answers) /\ Len(line) <= ChunkWords
  /\ xacts \in 0..MaxXacts /\ aborts \in 0..MaxAborts
  /\ usbNow \in BOOLEAN /\ usbBefore \in BOOLEAN /\ before \in [Chips -> Levels]
  /\ chosen \in Channels /\ heard \in BOOLEAN

LEMMA TypeParts ==
  TypeOK <=> SettingTyped /\ FramingTyped /\ UsbTyped /\ WiresTyped /\ AmsTyped
BY DEF TypeOK, SettingTyped, FramingTyped, UsbTyped, WiresTyped, AmsTyped

LEMMA Nothing == <<>> \in Seq(Answers) /\ <<>> \in Seq(Orders) /\ Len(<<>>) = 0
BY EmptySeq

LEMMA TypingInit == Init => TypeOK
<1> SUFFICES ASSUME Init PROVE TypeOK
  OBVIOUS
<1> USE LtcBounds, Sizes
<1>1. /\ cells \in [Chips -> [Groups -> Levels]] /\ temps \in [Chips -> [Channels -> Levels]]
      /\ before \in [Chips -> Levels]
  BY DEF Init, Default
<1>2. pool \in [Reads -> [Chips -> Levels]]
  BY <1>1 DEF Init, AllResponses, Response, Reads
<1>3. tx \in Seq(Answers) /\ Len(tx) = 2
  <2>1. Filler \in Answers
    <3>1. 0 \in Chips /\ Seed \in Levels /\ 0 \in 0..ChunkWords
      BY DEF Chips
    <3> QED
      BY <3>1 DEF Filler, Word, Answers
  <2> QED
    BY <2>1 DEF Init, Pads
<1>b. {parsed, snooping, wasLow, skewed, usbNow, usbBefore, heard} \subseteq BOOLEAN
  BY Zenon DEF Init
<1>4. SettingTyped
  BY <1>1, <1>2 DEF Init, SettingTyped
<1>5. FramingTyped
  <2>1. /\ current \in Reads /\ mux \in Channels
        /\ txIdx \in 0..DataWords /\ rxCount \in 0..(CommandWords + DataWords)
    BY DEF Init, Reads
  <2> QED
    BY <1>b, <2>1 DEF FramingTyped
<1>6. UsbTyped
  BY DEF Init, UsbTyped
<1>7. WiresTyped
  <2>1. rx \in Seq(Orders) /\ Len(rx) <= FifoWords
    BY DEF Init
  <2> QED
    BY <1>b, <1>3, <2>1 DEF WiresTyped
<1>8. AmsTyped
  <2>1. /\ cs \in {"high", "low"} /\ cmd \in Commands /\ sel \in Channels \cup {"none"}
        /\ clocked \in 0..Words(cmd) /\ line \in Seq(Answers) /\ Len(line) <= ChunkWords
        /\ xacts \in 0..MaxXacts /\ aborts \in 0..MaxAborts /\ chosen \in Channels
    BY WordCount DEF Init, Commands
  <2> QED
    BY <1>b, <1>1, <2>1 DEF AmsTyped
<1> QED
  BY <1>4, <1>5, <1>6, <1>7, <1>8 DEF TypeOK, SettingTyped, FramingTyped, UsbTyped, WiresTyped, AmsTyped

\* The setters keep what is served within its type.
LEMMA AnswersTyped ==
  ASSUME NEW c \in [Chips -> [Groups -> Levels]], NEW t \in [Chips -> [Channels -> Levels]],
         NEW ch \in Channels
  PROVE  /\ AllResponses(c, t, ch) \in [Reads -> [Chips -> Levels]]
         /\ \A r \in Reads : Response(r, c, t, ch) \in [Chips -> Levels]
BY DEF AllResponses, Response, Reads

LEMMA WordsHeard ==
  ASSUME TypeOK
  PROVE  /\ Decoded \in Reads /\ Snooped \in BOOLEAN /\ Selected \in Channels
         /\ \A n : Sent(n) \in Orders
BY DEF TypeOK, Decoded, Snooped, Selected, Sent, Orders

LEMMA TypingKept == TypeOK /\ [Next]_vars => TypeOK'
<1> SUFFICES ASSUME TypeOK, [Next]_vars PROVE TypeOK'
  OBVIOUS
<1> USE LtcBounds, Sizes
<1> DEFINE Parts == SettingTyped /\ FramingTyped /\ UsbTyped /\ WiresTyped /\ AmsTyped
<1> SUFFICES Parts'
  BY DEF TypeOK, SettingTyped, FramingTyped, UsbTyped, WiresTyped, AmsTyped
<1>p. Parts
  BY TypeParts
<1>s. UNCHANGED setting => SettingTyped'
  BY <1>p DEF setting, SettingTyped
<1>f. UNCHANGED framing => FramingTyped'
  BY <1>p DEF framing, FramingTyped
<1>u. UNCHANGED usb => UsbTyped'
  BY <1>p DEF usb, UsbTyped
<1>w. UNCHANGED wires => WiresTyped'
  BY <1>p DEF wires, WiresTyped
<1>a. UNCHANGED ams => AmsTyped'
  BY <1>p DEF ams, AmsTyped
<1>0. Filler \in Answers /\ Pads \in Seq(Answers) /\ Len(Pads) <= FifoWords
  BY DataIsAnswer DEF Pads
<1>1. CASE Rise
  <2>1. {parsed', snooping', wasLow', skewed'} \subseteq BOOLEAN
    BY <1>1, Zenon DEF Rise
  <2>2. /\ current' \in Reads /\ mux' \in Channels
        /\ txIdx' \in 0..DataWords /\ rxCount' \in 0..(CommandWords + DataWords)
    BY <1>1, <1>p DEF Rise, FramingTyped
  <2>3. /\ tx' \in Seq(Answers) /\ Len(tx') <= FifoWords
        /\ rx' \in Seq(Orders) /\ Len(rx') <= FifoWords
    <3>1. tx' = Pads /\ rx' = <<>>
      BY <1>1, Zenon DEF Rise
    <3>2. tx' \in Seq(Answers) /\ Len(tx') <= FifoWords
      BY <1>0, <3>1
    <3>3. rx' \in Seq(Orders) /\ Len(rx') <= FifoWords
      BY <3>1
    <3> QED
      BY <3>2, <3>3
  <2>4. FramingTyped' /\ WiresTyped'
    BY <2>1, <2>2, <2>3 DEF FramingTyped, WiresTyped
  <2> QED
    BY <1>1, <1>s, <1>u, <1>a, <2>4 DEF Rise
<1>2. CASE Serve
  <2>1. /\ tx' \in Seq(Answers) /\ Len(tx') <= FifoWords /\ txIdx' \in 0..DataWords
    <3>1. Len(tx) \in Nat /\ Len(tx) <= FifoWords /\ txIdx \in Nat /\ txIdx <= DataWords
      BY DEF TypeOK
    <3>2. /\ tx' \in Seq(Answers) /\ Len(tx') = Len(tx) + Room /\ txIdx' = txIdx + Room
          /\ Room \in Nat /\ Room <= FifoWords - Len(tx) /\ Room <= DataWords - txIdx
      BY <1>2, ServeFeeds, RoomIs
    <3> QED
      BY <3>1, <3>2
  <2>2. pool' \in [Reads -> [Chips -> Levels]]
    <3>1. Response("RDAUXA", cells, temps, Selected) \in [Chips -> Levels]
      BY WordsHeard, AnswersTyped DEF TypeOK, Reads
    <3> QED
      BY <1>2, <3>1 DEF Serve, TypeOK
  <2>3. rxCount' \in 0..(CommandWords + DataWords) /\ rx' = <<>>
    BY <1>2, Sizes DEF Serve, TypeOK, Least
  <2>4. parsed' \in BOOLEAN /\ snooping' \in BOOLEAN /\ wasLow' \in BOOLEAN
    <3>1. parsed' \in BOOLEAN
      BY <1>2, Zenon DEF Serve, TypeOK
    <3>2. snooping' \in BOOLEAN
      BY <1>2, Zenon DEF Serve, TypeOK, Snooped
    <3>3. wasLow' \in BOOLEAN
      BY <1>2, Zenon DEF Serve
    <3> QED
      BY <3>1, <3>2, <3>3
  <2> QED
    <3>1. SettingTyped'
      BY <1>2, <1>p, <2>2 DEF Serve, SettingTyped
    <3>2. FramingTyped'
      BY <1>2, <2>1, <2>3, <2>4, WordsHeard DEF Serve, FramingTyped
    <3>3. WiresTyped'
      <4>1. rx' \in Seq(Orders) /\ Len(rx') <= FifoWords
        BY <2>3
      <4>2. skewed' \in BOOLEAN
        BY <1>2, <1>p, Zenon DEF Serve, WiresTyped
      <4> QED
        BY <2>1, <4>1, <4>2 DEF WiresTyped
    <3> QED
      BY <1>2, <1>u, <1>a, <3>1, <3>2, <3>3 DEF Serve
<1>3. CASE EnterUsb \/ LeaveUsb
  <2>1. UsbTyped'
    BY <1>3, <1>p DEF EnterUsb, LeaveUsb, UsbTyped
  <2> QED
    BY <1>3, <1>s, <1>f, <1>w, <1>a, <2>1 DEF EnterUsb, LeaveUsb
<1>c. Console => UsbTyped'
  BY <1>p DEF Console, UsbTyped
<1>4. ASSUME NEW chip \in Chips, NEW level \in Levels, NEW r \in Groups,
             SetCell(chip, r, level)
      PROVE  Parts'
  <2>1. cells' \in [Chips -> [Groups -> Levels]]
    BY <1>4 DEF SetCell, TypeOK
  <2>2. pool' \in [Reads -> [Chips -> Levels]]
    BY <1>4, <2>1, AnswersTyped DEF SetCell, TypeOK
  <2> QED
    <3>1. SettingTyped'
      BY <1>4, <1>p, <2>1, <2>2 DEF SetCell, SettingTyped
    <3> QED
      BY <1>4, <1>f, <1>w, <1>a, <1>c, <3>1 DEF SetCell
<1>5. ASSUME NEW chip \in Chips, NEW level \in Levels, NEW ch \in Channels,
             SetTemp(chip, ch, level)
      PROVE  Parts'
  <2>1. temps' \in [Chips -> [Channels -> Levels]]
    BY <1>5 DEF SetTemp, TypeOK
  <2>2. pool' \in [Reads -> [Chips -> Levels]]
    BY <1>5, <2>1, AnswersTyped DEF SetTemp, TypeOK
  <2> QED
    <3>1. SettingTyped'
      BY <1>5, <1>p, <2>1, <2>2 DEF SetTemp, SettingTyped
    <3> QED
      BY <1>5, <1>f, <1>w, <1>a, <1>c, <3>1 DEF SetTemp
<1>6. ASSUME NEW mask \in SUBSET Modules, StopReply(mask)
      PROVE  Parts'
  <2>1. SettingTyped'
    BY <1>6, <1>p DEF StopReply, SettingTyped
  <2> QED
    BY <1>6, <1>f, <1>w, <1>a, <1>c, <2>1 DEF StopReply
<1>7. CASE ResetState
  <2>1. cells' \in [Chips -> [Groups -> Levels]] /\ temps' \in [Chips -> [Channels -> Levels]]
    BY <1>7 DEF ResetState, Default
  <2>2. pool' \in [Reads -> [Chips -> Levels]]
    BY <1>7, <2>1, AnswersTyped DEF ResetState, TypeOK
  <2> QED
    <3>1. SettingTyped'
      BY <1>7, <1>p, <2>1, <2>2 DEF ResetState, SettingTyped
    <3> QED
      BY <1>7, <1>f, <1>w, <1>a, <1>c, <3>1 DEF ResetState
<1>8. ASSUME NEW c \in Commands, NEW s \in Channels \cup {"none"}, CsFall(c, s)
      PROVE  Parts'
  <2>1. before' \in [Chips -> Levels]
    BY <1>8, AnswersTyped DEF CsFall, TypeOK
  <2>2. xacts' \in 0..MaxXacts
    BY <1>8 DEF CsFall, TypeOK
  <2>3. /\ cmd' = c /\ sel' = s /\ clocked' = 0 /\ line' = <<>> /\ cs' = "low"
        /\ usbBefore' = usbNow /\ usbNow' \in BOOLEAN /\ 0 \in 0..Words(c)
    <3>1. usbNow' \in BOOLEAN
      BY <1>8, Zenon DEF CsFall
    <3> QED
      BY <1>8, <3>1, WordCount DEF CsFall
  <2> QED
    <3>1. AmsTyped'
      BY <1>8, <1>p, <2>1, <2>2, <2>3 DEF CsFall, AmsTyped
    <3> QED
      BY <1>8, <1>s, <1>f, <1>u, <1>w, <3>1 DEF CsFall
<1>9. CASE Clock
  <2>1. clocked' \in 0..Words(cmd) /\ clocked' = clocked + 1
    BY <1>9, WordCount DEF Clock, TypeOK
  <2>2. busy' \in 0..UsbWords
    BY <1>9 DEF Clock, TypeOK
  <2>3. tx' \in Seq(Answers) /\ Len(tx') <= FifoWords
    <3>1. CASE tx = <<>>
      BY <1>9, <3>1 DEF Clock, TypeOK
    <3>2. CASE tx # <<>>
      <4>1. Tail(tx) \in Seq(Answers) /\ Len(Tail(tx)) = Len(tx) - 1 /\ Len(tx) \in Nat
        BY <3>2, HeadTailProperties, LenProperties DEF TypeOK
      <4>2. tx' = Tail(tx)
        BY <1>9, <3>2 DEF Clock
      <4> QED
        BY <4>1, <4>2, Sizes DEF TypeOK
    <3> QED
      BY <3>1, <3>2
  <2>4. rx' \in Seq(Orders) /\ Len(rx') <= FifoWords
    <3>1. Sent(clocked') \in Orders
      BY WordsHeard
    <3> QED
      BY <1>9, <3>1, Sizes DEF Clock, TypeOK
  <2>5. line' \in Seq(Answers) /\ Len(line') <= ChunkWords
    <3> DEFINE kept == IF Len(line) = ChunkWords THEN <<>> ELSE line
               word == IF tx = <<>> \/ skewed THEN Filler ELSE Head(tx)
    <3>1. word \in Answers
      BY <1>0 DEF TypeOK
    <3>2. kept \in Seq(Answers) /\ Len(kept) < ChunkWords
      <4>1. line \in Seq(Answers) /\ Len(line) \in Nat /\ Len(line) <= 4
        BY DEF TypeOK
      <4>2. CASE Len(line) = ChunkWords
        BY <4>2
      <4>3. CASE Len(line) # ChunkWords
        <5>1. kept = line
          BY <4>3, Zenon
        <5>2. Len(line) < ChunkWords
          <6>1. PICK n \in Nat : n = Len(line)
            BY <4>1
          <6> QED
            BY <4>1, <4>3, <6>1
        <5> QED
          BY <4>1, <5>1, <5>2
      <4> QED
        BY <4>2, <4>3
    <3>3. line' = line \/ line' = Append(kept, word)
      BY <1>9 DEF Clock
    <3> HIDE DEF kept, word
    <3>4. Append(kept, word) \in Seq(Answers) /\ Len(Append(kept, word)) <= ChunkWords
      <4>1. Len(kept) \in Nat
        BY <3>2
      <4> QED
        BY <3>1, <3>2, <4>1, AppendProperties, Sizes
    <3> QED
      BY <3>3, <3>4 DEF TypeOK
  <2>6. skewed' \in BOOLEAN
    BY <1>9 DEF Clock, TypeOK
  <2>7. chosen' \in Channels /\ heard' \in BOOLEAN
    <3>1. CASE Sent(clocked') \in Channels
      <4>1. sel \in Channels
        BY <3>1, LtcWords DEF Sent, TypeOK
      <4>2. heard' \in BOOLEAN
        BY <1>9, <3>1, Zenon DEF Clock
      <4> QED
        BY <1>9, <3>1, <4>1, <4>2 DEF Clock
    <3>2. CASE Sent(clocked') \notin Channels
      BY <1>9, <3>2 DEF Clock, TypeOK
    <3> QED
      BY <3>1, <3>2
  <2> QED
    <3>1. UsbTyped'
      BY <1>9, <1>p, <2>2 DEF Clock, UsbTyped
    <3>2. WiresTyped'
      BY <2>3, <2>4, <2>6 DEF WiresTyped
    <3>3. AmsTyped'
      BY <1>9, <1>p, <2>1, <2>5, <2>7 DEF Clock, AmsTyped
    <3> QED
      BY <1>9, <1>s, <1>f, <3>1, <3>2, <3>3 DEF Clock
<1>10. CASE CsRise
  <2>1. aborts' \in 0..MaxAborts
    BY <1>10 DEF CsRise, TypeOK
  <2> QED
    <3>1. before' \in [Chips -> Levels] /\ cmd' \in Commands
      BY <1>10 DEF CsRise, Commands
    <3>2. AmsTyped'
      BY <1>10, <1>p, <2>1, <3>1, WordCount DEF CsRise, AmsTyped
    <3> QED
      BY <1>10, <1>s, <1>f, <1>u, <1>w, <3>2 DEF CsRise
<1>11. CASE UNCHANGED vars
  BY <1>11, <1>s, <1>f, <1>u, <1>w, <1>a DEF vars, setting, framing, usb, wires, ams
<1>12. "WRCOMM" \in Commands /\ "none" \in Channels \cup {"none"}
  BY DEF Commands
<1> QED
  BY <1>1, <1>2, <1>3, <1>4, <1>5, <1>6, <1>7, <1>8, <1>9, <1>10, <1>11, <1>12
  DEF Next, Service

-----------------------------------------------------------------------------
(* What can happen.                                                        *)

\* A call of usb_cmd_service begins, obeys a command or ends.
AtUsb ==
  /\ UNCHANGED <<framing, wires, ams>>
  /\ \/ cpu = "loop" /\ cpu' = "usb" /\ cs = "high" /\ ~wasLow
     \/ cpu # "loop" /\ cpu' \in {"loop", "replying"}

LEMMA SettledIs ==
  ASSUME Settled
  PROVE  (wasLow <=> cs = "low") /\ rx = <<>> /\ Room = 0
<1>1. (wasLow <=> cs = "low") /\ rx = <<>>
  BY Zenon DEF Settled
<1>2. Room = 0
  BY DEF Settled
<1> QED
  BY <1>1, <1>2

LEMMA WhatHappens ==
  ASSUME TypeOK, [Next]_vars
  PROVE  \/ ~Settled /\ Rise
         \/ ~Settled /\ Serve
         \/ AtUsb
         \/ \E c \in Commands, s \in Channels \cup {"none"} : CsFall(c, s)
         \/ Clock \/ CsRise \/ UNCHANGED vars
<1> DEFINE Happens == \/ ~Settled /\ Rise
                      \/ ~Settled /\ Serve
                      \/ AtUsb
                      \/ \E c \in Commands, s \in Channels \cup {"none"} : CsFall(c, s)
                      \/ Clock \/ CsRise \/ UNCHANGED vars
<1> SUFFICES Happens
  OBVIOUS
<1>1. CASE Service
  BY <1>1, Zenon DEF Service
<1>2. CASE EnterUsb
  <2>1. /\ UNCHANGED <<framing, wires, ams>> /\ cpu = "loop" /\ cpu' = "usb" /\ cs = "high"
        /\ Settled
    BY <1>2, Zenon DEF EnterUsb
  <2>2. ~wasLow
    BY <2>1, SettledIs
  <2> QED
    BY <2>1, <2>2, Zenon DEF AtUsb
<1>3. CASE LeaveUsb
  BY <1>3, Zenon DEF LeaveUsb, AtUsb
<1>4. ASSUME NEW chip \in Chips, NEW level \in Levels, NEW r \in Groups,
             SetCell(chip, r, level)
      PROVE  AtUsb
  BY <1>4 DEF SetCell, Console, AtUsb
<1>5. ASSUME NEW chip \in Chips, NEW level \in Levels, NEW ch \in Channels,
             SetTemp(chip, ch, level)
      PROVE  AtUsb
  BY <1>5 DEF SetTemp, Console, AtUsb
<1>6. ASSUME NEW mask \in SUBSET Modules, StopReply(mask)
      PROVE  AtUsb
  BY <1>6 DEF StopReply, Console, AtUsb
<1>7. CASE ResetState
  BY <1>7 DEF ResetState, Console, AtUsb
<1>8. ASSUME NEW c \in Commands \ {"WRCOMM"}, CsFall(c, "none") PROVE Happens
  BY <1>8
<1>9. ASSUME NEW s \in Channels \cup {"none"}, CsFall("WRCOMM", s) PROVE Happens
  <2>1. "WRCOMM" \in Commands
    BY DEF Commands
  <2> QED
    BY <1>9, <2>1
<1> HIDE DEF Happens
<1>10. Next => Happens
  <2> SUFFICES ASSUME Next PROVE Happens
    OBVIOUS
  <2>1. \/ Service \/ EnterUsb \/ LeaveUsb
        \/ \E chip \in Chips, level \in Levels :
             \/ \E r \in Groups : SetCell(chip, r, level)
             \/ \E ch \in Channels : SetTemp(chip, ch, level)
        \/ \E mask \in SUBSET Modules : StopReply(mask)
        \/ ResetState
        \/ \E c \in Commands \ {"WRCOMM"} : CsFall(c, "none")
        \/ \E s \in Channels \cup {"none"} : CsFall("WRCOMM", s)
        \/ Clock \/ CsRise
    BY Zenon DEF Next
  <2>2. AtUsb => Happens
    BY Zenon DEF Happens
  <2>5. ASSUME NEW chip \in Chips, NEW level \in Levels,
               \/ \E r \in Groups : SetCell(chip, r, level)
               \/ \E ch \in Channels : SetTemp(chip, ch, level)
        PROVE  Happens
    BY <2>2, <2>5, <1>4, <1>5, Zenon
  <2>6. ASSUME NEW mask \in SUBSET Modules, StopReply(mask) PROVE Happens
    BY <2>2, <2>6, <1>6, Zenon
  <2>3. Clock \/ CsRise => Happens
    BY Zenon DEF Happens
  <2>4. Service => Happens
    BY <1>1, Zenon DEF Happens
  <2> QED
    BY <2>1, <2>3, <2>4, <2>5, <2>6, <1>2, <1>3, <1>7, <1>8, <1>9, Zenon
<1>11. UNCHANGED vars => Happens
  BY Zenon DEF Happens
<1> QED
  BY <1>10, <1>11, Zenon DEF Happens

-----------------------------------------------------------------------------
(* The invariant.                                                          *)

\* After an edge has been looked at: nothing received, the pad loaded.
Fresh ==
  /\ tx = Pads /\ rx = <<>> /\ txIdx = 0 /\ rxCount = 0
  /\ ~skewed /\ ~parsed /\ ~snooping /\ ~wasLow

\* A rise of CS is missed only by a loop that was in the USB stack when the
\* transaction began.
Edges ==
  /\ cpu # "loop" => ~wasLow
  /\ wasLow /\ cs = "high" => rx = <<>>
  /\ cs = "high" /\ ~usbNow => wasLow \/ Fresh
  /\ cs = "low" /\ ~usbNow => cpu = "loop"

\* What a transaction behind one without the console has sent, and what has
\* been made of it.
Received ==
  cs = "low" /\ ~usbBefore =>
    /\ clocked <= CommandWords => /\ rxCount + Len(rx) = clocked
                                  /\ \A k \in DOMAIN rx : rx[k] \notin Channels
    /\ clocked > 0 => parsed \/ rx # <<>>
    /\ clocked > 1 /\ ~usbNow => parsed
    /\ ~parsed /\ rx # <<>> => rx[1] = cmd
    /\ parsed => cpu = "loop" /\ (cmd \in Reads => current = cmd)
                              /\ (cmd = "WRCOMM" => snooping)
    /\ cmd \in Reads => ~snooping

\* The selector that counts has been taken, or is where it will be looked for.
Selecting ==
  heard =>
    /\ \A k \in DOMAIN rx : rx[k] \in Channels => rx[k] = chosen
    /\ \/ mux = chosen
       \/ LET i == CommandWords + 1 - rxCount
          IN  i \in DOMAIN rx /\ Snooped /\ rx[i] = chosen

\* The n-th word of the data, or a pad.
Stream(n) == IF n >= 1 THEN Data(n - 1) ELSE Filler

\* The transmitter sends the data in order, and behind the AMS only after a
\* stall.
Answering ==
  cs = "low" /\ ~usbBefore /\ cmd \in Reads =>
    /\ ~parsed => txIdx = 0
    /\ txIdx + CommandWords <= clocked + Len(tx)
    /\ ~usbNow => txIdx + CommandWords = clocked + Len(tx) /\ ~skewed
    /\ \A k \in DOMAIN tx : tx[k] = Stream(txIdx + k - Len(tx))

\* and what the AMS has of an answer is that, word by word.
Reading ==
  /\ cmd \notin Reads => line = <<>>
  /\ clocked <= CommandWords => line = <<>>
  /\ clocked > CommandWords /\ cmd \in Reads =>
       Len(line) = ((clocked - CommandWords - 1) % ChunkWords) + 1
  /\ cs = "low" /\ ~usbBefore =>
       \A k \in DOMAIN line :
         LET n == clocked - CommandWords + k - Len(line)
         IN  /\ line[k] = Filler \/ (parsed /\ \E j \in 1..n : line[k] = Data(j - 1))
             /\ ~usbNow => line[k] = Data(n - 1)

Framed == TypeOK /\ Edges /\ Received

\* The AMS begins behind a transaction in which the loop has seen its rise.
LEMMA BeginsFresh ==
  ASSUME Edges, NEW c, NEW s, CsFall(c, s), ~usbNow
  PROVE  Fresh
<1>1. cs = "high" /\ Tick
  BY DEF CsFall
<1>2. wasLow => cpu = "loop"
  BY DEF Edges
<1>3. cpu = "loop" => ~wasLow
  BY <1>1, SettledIs DEF Tick
<1> QED
  BY <1>1, <1>2, <1>3 DEF Edges

LEMMA EdgesKept == TypeOK /\ Edges /\ [Next]_vars => Edges'
<1> SUFFICES ASSUME TypeOK, Edges, [Next]_vars PROVE Edges'
  OBVIOUS
<1> USE DEF Edges
<1>1. CASE Rise
  <2>1. Fresh' /\ cpu' = "loop" /\ cs' = "high"
    BY <1>1, Zenon DEF Rise, Fresh, usb, ams
  <2> QED
    BY <2>1 DEF Fresh
<1>2. CASE ~Settled /\ Serve
  <2>1. /\ cpu = "loop" /\ cpu' = "loop" /\ cs' = cs /\ usbNow' = usbNow
        /\ wasLow' <=> cs = "low"
        /\ ~(wasLow /\ cs = "high")
    BY <1>2, Zenon DEF Serve, usb, ams
  <2>2. ~(cs = "high" /\ Fresh)
    <3> SUFFICES ASSUME cs = "high", Fresh PROVE Settled
      BY <1>2
    <3>1. Room = 0
      BY DEF Room
    <3>2. wasLow = (cs = "low")
      <4>1. wasLow = FALSE /\ cs # "low"
        BY DEF Fresh, TypeOK
      <4> QED
        BY <4>1, Zenon
    <3> QED
      BY <3>1, <3>2 DEF Settled, Fresh
  <2>3. cs \in {"high", "low"}
    BY DEF TypeOK
  <2>4. ~(cs = "high" /\ ~usbNow)
    BY <2>1, <2>2
  <2> QED
    BY <2>1, <2>3, <2>4
<1>3. CASE AtUsb
  <2>1. /\ UNCHANGED <<wasLow, rx, tx, txIdx, rxCount, skewed, parsed, snooping, cs, usbNow>>
    BY <1>3 DEF AtUsb, framing, wires, ams
  <2>2. Fresh' <=> Fresh
    BY <2>1 DEF Fresh
  <2> QED
    BY <1>3, <2>1, <2>2 DEF AtUsb
<1>4. ASSUME NEW c, NEW s, CsFall(c, s) PROVE Edges'
  <2>1. /\ cs' = "low" /\ UNCHANGED <<cpu, wasLow>> /\ (usbNow' <=> cpu # "loop")
    BY <1>4, Zenon DEF CsFall, usb, framing
  <2> QED
    BY <2>1
<1>5. CASE Clock
  <2>1. cs = "low" /\ UNCHANGED <<cpu, wasLow, cs, usbNow>>
    BY <1>5, Zenon DEF Clock, framing
  <2> QED
    BY <2>1
<1>6. CASE CsRise
  <2>1. /\ cs = "low" /\ cs' = "high" /\ UNCHANGED <<cpu, wasLow, rx, usbNow>> /\ Tick
    BY <1>6, Zenon DEF CsRise, usb, framing, wires
  <2>2. cpu = "loop" => wasLow /\ rx = <<>>
    BY <2>1, SettledIs DEF Tick
  <2> QED
    BY <2>1, <2>2
<1>7. CASE UNCHANGED vars
  BY <1>7 DEF vars, Fresh
<1> QED
  BY <1>1, <1>2, <1>3, <1>4, <1>5, <1>6, <1>7, WhatHappens

LEMMA ReceivedKept == TypeOK /\ Edges /\ Received /\ [Next]_vars => Received'
<1> SUFFICES ASSUME TypeOK, Edges, Received, [Next]_vars, cs' = "low", ~usbBefore'
             PROVE  Received'
  BY DEF Received
<1> DEFINE Whole == /\ clocked <= CommandWords => /\ rxCount + Len(rx) = clocked
                                                  /\ \A k \in DOMAIN rx : rx[k] \notin Channels
                    /\ clocked > 0 => parsed \/ rx # <<>>
                    /\ clocked > 1 /\ ~usbNow => parsed
                    /\ ~parsed /\ rx # <<>> => rx[1] = cmd
                    /\ parsed => cpu = "loop" /\ (cmd \in Reads => current = cmd)
                                              /\ (cmd = "WRCOMM" => snooping)
                    /\ cmd \in Reads => ~snooping
<1>w. cs = "low" /\ ~usbBefore => Whole
  BY DEF Received
<1> SUFFICES Whole'
  BY DEF Received
<1>r. rx \in Seq(Orders) /\ clocked \in Nat /\ rxCount \in Nat /\ Len(rx) \in Nat
  BY WordCount DEF TypeOK
<1>1. CASE Rise
  BY <1>1, Zenon DEF Rise, ams
<1>2. CASE ~Settled /\ Serve
  <2>1. /\ cpu = "loop" /\ cpu' = "loop" /\ cs = "low" /\ ~usbBefore /\ usbNow' = usbNow
        /\ cmd' = cmd /\ clocked' = clocked /\ rx' = <<>> /\ (parsed' <=> parsed \/ rx # <<>>)
        /\ (snooping' <=> Snooped) /\ current' = Decoded
        /\ rxCount' = Least(rxCount + Len(rx), CommandWords + DataWords)
    BY <1>2, Zenon DEF Serve, usb, ams
  <2>2. Whole
    BY <1>w, <2>1
  <2>3. clocked <= CommandWords => /\ rxCount' + Len(rx') = clocked
                                   /\ \A k \in DOMAIN rx' : rx'[k] \notin Channels
    <3>1. clocked <= CommandWords => rxCount' = clocked
      BY <2>1, <2>2, <1>r, Sizes DEF Least
    <3>2. Len(rx') = 0 /\ DOMAIN rx' = {}
      BY <2>1
    <3> QED
      BY <3>1, <3>2, <1>r
  <2>4. cmd \in Reads => ~Snooped /\ ((parsed \/ rx # <<>>) => Decoded = cmd)
    BY <2>2, LtcWords DEF Snooped, Decoded, Reads
  <2>5. cmd = "WRCOMM" /\ (parsed \/ rx # <<>>) => Snooped
    BY <2>2 DEF Snooped
  <2> QED
    BY <2>1, <2>2, <2>3, <2>4, <2>5
<1>3. CASE AtUsb
  <2>1. UNCHANGED <<cs, usbBefore, usbNow, clocked, rxCount, rx, parsed, snooping, current, cmd>>
    BY <1>3 DEF AtUsb, framing, wires, ams
  <2>2. Whole /\ cpu # "loop"
    BY <1>3, <1>w, <2>1 DEF AtUsb
  <2> QED
    BY <2>1, <2>2
<1>4. ASSUME NEW c, NEW s, CsFall(c, s) PROVE Whole'
  <2>1. ~usbNow /\ clocked' = 0 /\ UNCHANGED <<rx, rxCount, parsed, snooping>>
    BY <1>4, Zenon DEF CsFall, framing, wires
  <2>2. Fresh
    BY <1>4, <2>1, BeginsFresh
  <2>3. rx' = <<>> /\ rxCount' = 0 /\ ~parsed' /\ ~snooping'
    BY <2>1, <2>2 DEF Fresh
  <2>4. Len(rx') = 0 /\ DOMAIN rx' = {}
    BY <2>3
  <2> QED
    BY <2>1, <2>3, <2>4
<1>5. CASE Clock
  <2>1. /\ cs = "low" /\ ~usbBefore /\ Tick /\ clocked' = clocked + 1 /\ usbNow' = usbNow
        /\ UNCHANGED <<cpu, cmd, current, rxCount, parsed, snooping>>
        /\ rx' = IF Len(rx) < FifoWords THEN Append(rx, Sent(clocked')) ELSE rx
    BY <1>5, Zenon DEF Clock, framing
  <2>2. Whole
    BY <1>w, <2>1
  <2>3. Sent(clocked') \in Orders
    BY WordsHeard
  <2>4. rx' # <<>> /\ rx' \in Seq(Orders) /\ (rx # <<>> => rx'[1] = rx[1])
    <3>1. CASE Len(rx) < FifoWords
      <4>1. /\ rx' = Append(rx, Sent(clocked')) /\ rx' # <<>> /\ rx' \in Seq(Orders)
            /\ \A k \in 1..Len(rx) : rx'[k] = rx[k]
        BY <2>1, <2>3, <3>1, <1>r, AppendProperties
      <4>2. rx # <<>> => 1 \in 1..Len(rx)
        BY <1>r, EmptySeq
      <4> QED
        BY <4>1, <4>2
    <3>2. CASE ~(Len(rx) < FifoWords)
      <4>1. rx # <<>>
        BY <3>2, Sizes
      <4> QED
        BY <2>1, <3>2, <4>1, <1>r
    <3> QED
      BY <3>1, <3>2
  <2>5. cpu = "loop" => rx = <<>>
    BY <2>1, SettledIs DEF Tick
  <2>6. clocked' > 1 /\ ~usbNow => parsed
    <3>1. ~usbNow => cpu = "loop"
      BY <2>1 DEF Edges
    <3>2. clocked' > 1 => clocked > 0
      BY <2>1, <1>r
    <3> QED
      BY <2>2, <2>5, <3>1, <3>2
  <2>7. clocked' <= CommandWords => /\ rxCount + Len(rx') = clocked'
                                    /\ \A k \in DOMAIN rx' : rx'[k] \notin Channels
    <3> SUFFICES ASSUME clocked' <= CommandWords
                 PROVE  /\ rxCount + Len(rx') = clocked'
                        /\ \A k \in DOMAIN rx' : rx'[k] \notin Channels
      OBVIOUS
    <3>1. clocked <= CommandWords /\ clocked <= 1 /\ rxCount + Len(rx) = clocked
      BY <2>1, <2>2, <1>r, Sizes
    <3>2. Len(rx) < FifoWords
      BY <3>1, <1>r, Sizes
    <3>3. /\ rx' = Append(rx, Sent(clocked')) /\ Len(rx') = Len(rx) + 1
          /\ rx'[Len(rx) + 1] = Sent(clocked')
          /\ \A k \in 1..Len(rx) : rx'[k] = rx[k]
      BY <2>1, <2>3, <3>2, <1>r, AppendProperties
    <3>4. DOMAIN rx = 1..Len(rx) /\ DOMAIN rx' = 1..Len(rx')
      BY <2>4, <1>r
    <3>5. Sent(clocked') \notin Channels
      <4>1. clocked' \in {1, 2} /\ clocked' # CommandWords + 1
        BY <2>1, <3>1, <1>r, Sizes
      <4>2. cmd \in Commands
        BY DEF TypeOK
      <4> QED
        BY <4>1, <4>2, LtcWords DEF Sent
    <3>6. \A k \in DOMAIN rx' : rx'[k] \notin Channels
      <4> SUFFICES ASSUME NEW k \in DOMAIN rx' PROVE rx'[k] \notin Channels
        OBVIOUS
      <4>1. k \in 1..Len(rx) \/ k = Len(rx) + 1
        BY <3>3, <3>4, <1>r
      <4> QED
        BY <2>2, <3>1, <3>3, <3>4, <3>5, <4>1
    <3>7. rxCount + Len(rx') = clocked'
      BY <2>1, <3>1, <3>3, <1>r
    <3> QED
      BY <3>6, <3>7
  <2>8. ~parsed => rx'[1] = cmd
    <3> SUFFICES ASSUME ~parsed PROVE rx'[1] = cmd
      OBVIOUS
    <3>1. CASE rx # <<>>
      BY <2>2, <2>4, <3>1
    <3>2. CASE rx = <<>>
      <4>1. clocked = 0 /\ Len(rx) = 0
        BY <2>2, <3>2, <1>r
      <4>2. clocked' = 1 /\ Len(rx) < FifoWords
        BY <2>1, <4>1, Sizes
      <4>3. rx' = Append(rx, cmd)
        BY <2>1, <4>2, Zenon DEF Sent
      <4> QED
        BY <3>2, <4>3
    <3> QED
      BY <3>1, <3>2
  <2> QED
    BY <2>1, <2>2, <2>4, <2>6, <2>7, <2>8
<1>6. CASE CsRise
  BY <1>6 DEF CsRise
<1>7. CASE UNCHANGED vars
  BY <1>7, <1>w DEF vars
<1> HIDE DEF Whole
<1> QED
  BY <1>1, <1>2, <1>3, <1>4, <1>5, <1>6, <1>7, WhatHappens

\* A step that does not look for a selector leaves it where it is.
LEMMA SelectingSame ==
  ASSUME Selecting, UNCHANGED <<heard, chosen, mux, rx, rxCount, parsed, snooping>>
  PROVE  Selecting'
BY DEF Selecting, Snooped

LEMMA SelectingKept == TypeOK /\ Edges /\ Received /\ Selecting /\ [Next]_vars => Selecting'
<1> SUFFICES ASSUME TypeOK, Edges, Received, Selecting, [Next]_vars PROVE Selecting'
  OBVIOUS
<1>r. rx \in Seq(Orders) /\ clocked \in Nat /\ rxCount \in Nat /\ Len(rx) \in Nat
      /\ DOMAIN rx = 1..Len(rx)
  BY WordCount, LenProperties DEF TypeOK
<1>c. chosen \in Channels /\ mux \in Channels
  BY DEF TypeOK
<1>1. CASE Rise
  <2>1. /\ wasLow /\ cs = "high" /\ rx' = <<>> /\ UNCHANGED <<heard, chosen, mux>>
    BY <1>1, Zenon DEF Rise, ams
  <2>2. rx = <<>>
    BY <2>1 DEF Edges
  <2>3. DOMAIN rx = {} /\ DOMAIN rx' = {}
    BY <2>1, <2>2
  <2> QED
    BY <2>1, <2>3 DEF Selecting
<1>2. CASE ~Settled /\ Serve
  <2>1. rx' = <<>> /\ UNCHANGED <<heard, chosen>> /\ mux' = Selected
    BY <1>2, Zenon DEF Serve, ams
  <2>2. DOMAIN rx' = {}
    BY <2>1
  <2>3. heard => Selected = chosen
    BY <1>c DEF Selecting, Selected
  <2> QED
    BY <2>1, <2>2, <2>3 DEF Selecting
<1>3. CASE AtUsb
  BY <1>3, SelectingSame DEF AtUsb, framing, wires, ams
<1>4. ASSUME NEW c, NEW s, CsFall(c, s) PROVE Selecting'
  BY <1>4, SelectingSame DEF CsFall, framing, wires
<1>5. CASE Clock
  <2> DEFINE w == Sent(clocked')
  <2>1. /\ cs = "low" /\ clocked' = clocked + 1
        /\ UNCHANGED <<mux, rxCount, parsed, snooping, usbBefore, cmd>>
        /\ rx' = IF Len(rx) < FifoWords THEN Append(rx, w) ELSE rx
        /\ IF w \in Channels THEN chosen' = sel /\ (heard' <=> ~usbBefore)
                             ELSE UNCHANGED <<chosen, heard>>
    BY <1>5, Zenon DEF Clock, framing
  <2>2. w \in Orders
    BY WordsHeard
  <2>3. /\ w \in Channels => w = sel /\ cmd = "WRCOMM" /\ clocked' = CommandWords + 1
    BY LtcWords DEF Sent, TypeOK
  <2> HIDE DEF w
  <2>4. ASSUME Len(rx) < FifoWords
        PROVE  /\ DOMAIN rx' = 1..(Len(rx) + 1) /\ rx'[Len(rx) + 1] = w
               /\ \A k \in 1..Len(rx) : rx'[k] = rx[k]
    <3>1. /\ rx' = Append(rx, w) /\ rx' \in Seq(Orders) /\ Len(rx') = Len(rx) + 1
          /\ rx'[Len(rx) + 1] = w /\ \A k \in 1..Len(rx) : rx'[k] = rx[k]
      BY <2>1, <2>2, <2>4, <1>r, AppendProperties
    <3>2. DOMAIN rx' = 1..Len(rx')
      BY <3>1, LenProperties
    <3> QED
      BY <3>1, <3>2
  <2>5. CASE w \notin Channels
    <3>1. UNCHANGED <<chosen, heard>>
      BY <2>1, <2>5
    <3>2. CASE Len(rx) < FifoWords
      <4>1. Snooped /\ DOMAIN rx # {} => Snooped'
        <5>1. DOMAIN rx # {} => rx # <<>> /\ rx' # <<>> /\ rx'[1] = rx[1]
          <6> SUFFICES ASSUME DOMAIN rx # {} PROVE rx # <<>> /\ rx' # <<>> /\ rx'[1] = rx[1]
            OBVIOUS
          <6>1. 1 \in 1..Len(rx) /\ 1 \in DOMAIN rx'
            BY <2>4, <3>2, <1>r
          <6> QED
            BY <2>4, <3>2, <6>1, <1>r
        <5> QED
          BY <2>1, <5>1 DEF Snooped
      <4>2. \A k \in DOMAIN rx' : k \in DOMAIN rx \/ rx'[k] = w
        BY <2>4, <3>2, <1>r
      <4>3. \A k \in DOMAIN rx : k \in DOMAIN rx' /\ rx'[k] = rx[k]
        BY <2>4, <3>2, <1>r
      <4> QED
        BY <2>1, <2>5, <3>1, <4>1, <4>2, <4>3 DEF Selecting
    <3>3. CASE ~(Len(rx) < FifoWords)
      <4>1. rx' = rx
        BY <2>1, <3>3
      <4> QED
        BY <2>1, <3>1, <4>1, SelectingSame
    <3> QED
      BY <3>2, <3>3
  <2>6. CASE w \in Channels
    <3> SUFFICES ASSUME heard' PROVE Selecting'
      BY DEF Selecting
    <3>1. ~usbBefore /\ chosen' = w /\ cmd = "WRCOMM" /\ clocked = CommandWords
      BY <2>1, <2>3, <2>6, <1>r, Sizes
    <3>2. /\ rxCount + Len(rx) = 2 /\ \A k \in DOMAIN rx : rx[k] \notin Channels
          /\ parsed \/ rx # <<>>
          /\ ~parsed /\ rx # <<>> => rx[1] = cmd
          /\ parsed => snooping
      BY <2>1, <3>1, Sizes DEF Received
    <3>3. Len(rx) < FifoWords /\ CommandWords + 1 - rxCount = Len(rx) + 1
      BY <3>2, <1>r, Sizes
    <3>4. Len(rx) + 1 \in DOMAIN rx'
      BY <2>4, <3>3, <1>r
    <3>5. Snooped'
      <4>1. CASE parsed
        BY <2>1, <3>2, <4>1 DEF Snooped
      <4>2. CASE ~parsed
        <5>1. rx # <<>> /\ rx[1] = "WRCOMM" /\ 1 \in 1..Len(rx)
          BY <3>1, <3>2, <4>2, <1>r, EmptySeq
        <5>2. rx'[1] = "WRCOMM" /\ rx' # <<>>
          BY <2>4, <3>3, <3>4, <5>1
        <5> QED
          BY <2>1, <4>2, <5>2 DEF Snooped
      <4> QED
        BY <4>1, <4>2
    <3>6. \A k \in DOMAIN rx' : rx'[k] \in Channels => rx'[k] = w
      <4> SUFFICES ASSUME NEW k \in DOMAIN rx' PROVE rx'[k] \in Channels => rx'[k] = w
        OBVIOUS
      <4>1. k \in 1..Len(rx) \/ k = Len(rx) + 1
        BY <2>4, <3>3, <1>r
      <4> QED
        BY <2>4, <3>2, <3>3, <4>1, <1>r
    <3> QED
      BY <2>1, <2>4, <3>1, <3>3, <3>4, <3>5, <3>6 DEF Selecting
  <2> QED
    BY <2>5, <2>6
<1>6. CASE CsRise
  BY <1>6, SelectingSame DEF CsRise, framing, wires
<1>7. CASE UNCHANGED vars
  BY <1>7, SelectingSame DEF vars
<1> QED
  BY <1>1, <1>2, <1>3, <1>4, <1>5, <1>6, <1>7, WhatHappens

\* Within a read, nothing of what is served changes.
LEMMA ServeWithin ==
  ASSUME TypeOK, Received, Serve, cs = "low", ~usbBefore, cmd \in Reads
  PROVE  /\ UNCHANGED <<pool, stopMask, mux>> /\ (parsed => current' = current)
         /\ parsed => parsed'
<1>1. ~Snooped
  BY LtcWords DEF Received, Snooped, Reads
<1>2. Selected = mux
  BY <1>1 DEF Selected
<1>3. pool' = pool
  <2>1. pool' = [pool EXCEPT !["RDAUXA"] = pool["RDAUXA"]]
    BY <1>2, Zenon DEF Serve
  <2> QED
    BY <2>1 DEF TypeOK
<1>4. mux' = mux /\ stopMask' = stopMask
  BY <1>2, Zenon DEF Serve
<1>5. parsed => current' = current /\ parsed'
  <2>1. current' = Decoded /\ (parsed' <=> parsed \/ rx # <<>>)
    BY Zenon DEF Serve
  <2> QED
    BY <2>1 DEF Decoded
<1> QED
  BY <1>3, <1>4, <1>5

\* What the emulator does not touch is the same stream of data.
LEMMA SameData ==
  ASSUME UNCHANGED <<pool, stopMask, current>>
  PROVE  \A i : Data(i)' = Data(i)
BY DEF Data

LEMMA StreamIs ==
  \A n : /\ n >= 1 => Stream(n) = Data(n - 1)
         /\ ~(n >= 1) => Stream(n) = Filler
BY DEF Stream

\* A read that keeps the console out never finds the transmitter empty.
LEMMA NeverDry ==
  ASSUME TypeOK, Edges, Received, Answering, Clock, cmd \in Reads, ~usbBefore, ~usbNow
  PROVE  tx # <<>>
<1>1. cs = "low" /\ Tick /\ clocked < Words(cmd)
  BY DEF Clock
<1>2. cpu = "loop" /\ Room = 0 /\ rx = <<>>
  BY <1>1, SettledIs DEF Edges, Tick
<1>3. PICK n \in Nat : n = Len(tx)
  BY DEF TypeOK
<1>4. txIdx + 2 = clocked + n /\ txIdx \in Nat /\ clocked \in Nat
  BY <1>1, <1>3, Sizes, WordCount DEF Answering, TypeOK
<1>5. clocked < DataWords + 2
  BY <1>1, WordCount
<1>6. CASE parsed
  <2>1. n = 4 \/ txIdx = DataWords
    BY <1>1, <1>2, <1>3, <1>6, RoomIs, Sizes
  <2>2. n > 0
    BY <1>4, <1>5, <2>1, Sizes
  <2> QED
    BY <1>3, <2>2
<1>7. CASE ~parsed
  <2>1. txIdx = 0 /\ clocked = 0
    BY <1>1, <1>2, <1>4, <1>7 DEF Answering, Received
  <2>2. n > 0
    BY <1>4, <2>1
  <2> QED
    BY <1>3, <2>2
<1> QED
  BY <1>6, <1>7

LEMMA AnsweringKept == Framed /\ Answering /\ [Next]_vars => Answering'
<1> SUFFICES ASSUME TypeOK, Edges, Received, Answering, [Next]_vars,
                    cs' = "low", ~usbBefore', cmd' \in Reads
             PROVE  Answering'
  BY DEF Framed, Answering
<1> DEFINE Told == /\ ~parsed => txIdx = 0
                   /\ txIdx + CommandWords <= clocked + Len(tx)
                   /\ ~usbNow => txIdx + CommandWords = clocked + Len(tx) /\ ~skewed
                   /\ \A k \in DOMAIN tx : tx[k] = Stream(txIdx + k - Len(tx))
<1>t. cs = "low" /\ ~usbBefore /\ cmd \in Reads => Told
  BY DEF Answering
<1> SUFFICES Told'
  BY DEF Answering
<1>r. /\ tx \in Seq(Answers) /\ DOMAIN tx = 1..Len(tx) /\ Len(tx) \in Nat
      /\ clocked \in Nat /\ txIdx \in Nat
  BY WordCount, Sizes, LenProperties DEF TypeOK
<1>1. CASE Rise
  BY <1>1, Zenon DEF Rise, ams
<1>2. CASE ~Settled /\ Serve
  <2>1. cs = "low" /\ ~usbBefore /\ cmd \in Reads /\ UNCHANGED <<clocked, skewed, usbNow>>
    BY <1>2, Zenon DEF Serve, ams
  <2>2. Told
    BY <1>t, <2>1
  <2>3. UNCHANGED <<pool, stopMask>> /\ (parsed => current' = current /\ parsed')
    BY <1>2, <2>1, ServeWithin
  <2>4. /\ tx' \in Seq(Answers) /\ Len(tx') = Len(tx) + Room /\ DOMAIN tx' = 1..Len(tx')
        /\ \A k \in 1..Len(tx) : tx'[k] = tx[k]
        /\ \A k \in 1..Len(tx') : k > Len(tx) => tx'[k] = Data(txIdx + k - Len(tx) - 1)
        /\ txIdx' = txIdx + Room
    BY <1>2, ServeFeeds, LenProperties
  <2>5. Room \in Nat /\ (Room > 0 => parsed)
    BY RoomIs
  <2>6. \A n \in Int : n <= txIdx' => Stream(n)' = Stream(n)
    <3>1. CASE parsed
      BY <2>3, <3>1, SameData DEF Stream
    <3>2. CASE ~parsed
      <4>1. txIdx' = 0
        BY <2>2, <2>4, <2>5, <3>2
      <4> QED
        BY <4>1 DEF Stream
    <3> QED
      BY <3>1, <3>2
  <2>7. ASSUME NEW k \in DOMAIN tx' PROVE (tx[k] = Stream(txIdx + k - Len(tx)))'
    <3>1. k \in Nat /\ k >= 1 /\ k <= Len(tx) + Room /\ k \in 1..Len(tx')
      BY <2>4, <2>5, <1>r
    <3>2. txIdx' + k - Len(tx') = txIdx + k - Len(tx) /\ txIdx + k - Len(tx) <= txIdx'
      BY <2>4, <2>5, <3>1, <1>r
    <3>3. tx'[k] = Stream(txIdx + k - Len(tx))
      <4>1. CASE k <= Len(tx)
        <5>1. k \in 1..Len(tx)
          BY <3>1, <4>1, <1>r
        <5> QED
          BY <2>2, <2>4, <5>1, <1>r
      <4>2. CASE k > Len(tx)
        <5>1. PICK p : p = txIdx + k - Len(tx)
          OBVIOUS
        <5>2. p >= 1
          BY <3>1, <4>2, <5>1, <1>r
        <5>3. tx'[k] = Data(p - 1)
          <6>1. tx'[k] = Data(txIdx + k - Len(tx) - 1)
            BY <2>4, <3>1, <4>2, Zenon
          <6>2. txIdx + k - Len(tx) - 1 = p - 1
            BY <3>1, <5>1, <1>r
          <6> QED
            BY <6>1, <6>2, Zenon
        <5>4. Stream(p) = Data(p - 1)
          BY <5>2, StreamIs
        <5> QED
          BY <5>1, <5>3, <5>4
      <4> QED
        BY <4>1, <4>2, <3>1, <1>r
    <3>4. PICK p \in Int : /\ p = txIdx + k - Len(tx) /\ p = txIdx' + k - Len(tx')
                           /\ p <= txIdx'
      BY <3>1, <3>2, <1>r
    <3>5. Stream(p)' = Stream(p) /\ tx'[k] = Stream(p)
      BY <2>6, <3>3, <3>4
    <3> QED
      BY <3>4, <3>5 DEF Stream, Data
  <2>8. ~parsed' => txIdx' = 0
    BY <2>2, <2>3, <2>4, <2>5
  <2>9. /\ txIdx' + CommandWords <= clocked' + Len(tx')
        /\ ~usbNow' => txIdx' + CommandWords = clocked' + Len(tx') /\ ~skewed'
    <3>1. /\ txIdx + CommandWords <= clocked + Len(tx)
          /\ ~usbNow => txIdx + CommandWords = clocked + Len(tx)
      BY <2>2
    <3>2. /\ txIdx' + CommandWords <= clocked + Len(tx')
          /\ ~usbNow => txIdx' + CommandWords = clocked + Len(tx')
      <4>1. PICK n \in Nat : n = Len(tx)
        BY <1>r
      <4>3. PICK m \in Nat : m = Len(tx')
        BY <2>4
      <4>2. m = n + Room /\ txIdx' = txIdx + Room
        BY <2>4, <4>1, <4>3
      <4> QED
        BY <2>5, <3>1, <4>1, <4>2, <4>3, <1>r, Sizes
    <3> QED
      BY <2>1, <2>2, <3>2
  <2> QED
    BY <2>7, <2>8, <2>9
<1>3. CASE AtUsb
  <2>1. UNCHANGED <<cs, usbBefore, usbNow, clocked, tx, txIdx, parsed, skewed, cmd>>
    BY <1>3 DEF AtUsb, framing, wires, ams
  <2>2. Told /\ cpu # "loop" /\ ~parsed
    BY <1>3, <1>t, <2>1 DEF AtUsb, Received
  <2>3. \A k \in DOMAIN tx : Stream(txIdx + k - Len(tx)) = Filler /\ Stream(txIdx + k - Len(tx))' = Filler
    <3> SUFFICES ASSUME NEW k \in DOMAIN tx
                 PROVE  /\ Stream(txIdx + k - Len(tx)) = Filler
                        /\ Stream(txIdx + k - Len(tx))' = Filler
      OBVIOUS
    <3>1. ~(txIdx + k - Len(tx) >= 1) /\ txIdx' = txIdx /\ tx' = tx
      BY <2>1, <2>2, <1>r
    <3> QED
      BY <3>1 DEF Stream
  <2> QED
    BY <2>1, <2>2, <2>3
<1>4. ASSUME NEW c, NEW s, CsFall(c, s) PROVE Told'
  <2>1. ~usbNow /\ clocked' = 0 /\ UNCHANGED <<tx, txIdx, skewed, parsed>>
    BY <1>4, Zenon DEF CsFall, framing, wires
  <2>2. Fresh
    BY <1>4, <2>1, BeginsFresh
  <2>3. tx' = <<Filler, Filler>> /\ txIdx' = 0 /\ ~skewed' /\ ~parsed'
    BY <2>1, <2>2 DEF Fresh, Pads
  <2>4. Len(tx') = 2 /\ DOMAIN tx' = 1..2 /\ tx'[1] = Filler /\ tx'[2] = Filler
    BY <2>3
  <2>5. ASSUME NEW k \in DOMAIN tx' PROVE (tx[k] = Stream(txIdx + k - Len(tx)))'
    <3>1. k \in {1, 2}
      BY <2>4
    <3>2. ~(txIdx' + k - Len(tx') >= 1)
      BY <2>3, <2>4, <3>1
    <3> QED
      BY <2>4, <3>1, <3>2 DEF Stream
  <2> QED
    BY <2>1, <2>3, <2>4, <2>5, Sizes
<1>5. CASE Clock
  <2>1. /\ cs = "low" /\ ~usbBefore /\ cmd \in Reads /\ clocked' = clocked + 1
        /\ UNCHANGED <<usbNow, txIdx, parsed, pool, stopMask, current>>
        /\ tx' = IF tx = <<>> THEN tx ELSE Tail(tx)
        /\ tx # <<>> => skewed' = skewed
    BY <1>5, Zenon DEF Clock, framing, setting
  <2>2. Told
    BY <1>t, <2>1
  <2>3. \A i : Stream(i)' = Stream(i)
    BY <2>1, SameData DEF Stream
  <2>4. CASE tx = <<>>
    <3>1. usbNow
      BY <1>5, <2>1, <2>4, NeverDry
    <3>2. tx' = tx
      BY <2>1, <2>4
    <3>3. txIdx + CommandWords <= clocked' + Len(tx)
      BY <2>1, <2>2, <1>r, Sizes
    <3>4. \A k \in DOMAIN tx' : (tx[k] = Stream(txIdx + k - Len(tx)))'
      BY <2>1, <2>2, <3>2 DEF Stream, Data
    <3> QED
      BY <2>1, <2>2, <3>1, <3>2, <3>3, <3>4
  <2>5. CASE tx # <<>>
    <3>1. /\ tx' = Tail(tx) /\ Tail(tx) \in Seq(Answers) /\ Len(Tail(tx)) = Len(tx) - 1
          /\ \A k \in 1..Len(Tail(tx)) : Tail(tx)[k] = tx[k + 1]
      BY <2>1, <2>5, <1>r, HeadTailProperties
    <3>2. DOMAIN tx' = 1..Len(tx') /\ Len(tx') = Len(tx) - 1
      BY <3>1, LenProperties
    <3>3. ASSUME NEW k \in DOMAIN tx' PROVE (tx[k] = Stream(txIdx + k - Len(tx)))'
      <4>1. k \in Nat /\ k + 1 \in DOMAIN tx
        BY <3>2, <1>r
      <4>2. txIdx' + k - Len(tx') = txIdx + (k + 1) - Len(tx)
        <5>1. PICK n \in Nat : n = Len(tx)
          BY <1>r
        <5>3. PICK m \in Nat : m = Len(tx')
          BY <3>1, LenProperties
        <5>2. n = m + 1 /\ txIdx' = txIdx
          BY <2>1, <3>2, <5>1, <5>3
        <5> QED
          BY <4>1, <5>1, <5>2, <5>3, <1>r
      <4>3. tx'[k] = Stream(txIdx + (k + 1) - Len(tx))
        BY <2>2, <3>1, <3>2, <4>1
      <4> QED
        BY <2>1, <4>2, <4>3 DEF Stream, Data
    <3>4. /\ txIdx' + CommandWords <= clocked' + Len(tx')
          /\ ~usbNow => txIdx' + CommandWords = clocked' + Len(tx')
      <4>1. PICK n \in Nat : n = Len(tx)
        BY <1>r
      <4>3. PICK m \in Nat : m = Len(tx')
        BY <3>1, LenProperties
      <4>2. n = m + 1 /\ txIdx' = txIdx /\ clocked' = clocked + 1
        BY <2>1, <3>2, <4>1, <4>3
      <4> QED
        BY <2>2, <4>1, <4>2, <4>3, <1>r, Sizes
    <3> QED
      BY <2>1, <2>2, <2>5, <3>3, <3>4
  <2> QED
    BY <2>4, <2>5
<1>6. CASE CsRise
  BY <1>6 DEF CsRise
<1>7. CASE UNCHANGED vars
  <2>1. \A i : Stream(i)' = Stream(i)
    BY <1>7, SameData DEF vars, Stream
  <2> QED
    BY <1>7, <1>t, <2>1 DEF vars
<1> HIDE DEF Told
<1> QED
  BY <1>1, <1>2, <1>3, <1>4, <1>5, <1>6, <1>7, WhatHappens

\* What comes next is the first word of the transmitter, if it has one.
LEMMA NextWord ==
  ASSUME TypeOK, Edges, Received, Answering, Clock, cmd \in Reads, ~usbBefore,
         clocked >= CommandWords,
         NEW word, word = IF tx = <<>> \/ skewed THEN Filler ELSE Head(tx)
  PROVE  /\ word = Filler \/ (parsed /\ \E j \in 1..(clocked - 1) : word = Data(j - 1))
         /\ ~usbNow => word = Data(clocked - 2)
<1>1. cs = "low"
  BY DEF Clock
<1>2. /\ ~parsed => txIdx = 0
      /\ txIdx + 2 <= clocked + Len(tx)
      /\ ~usbNow => txIdx + 2 = clocked + Len(tx) /\ ~skewed
      /\ \A k \in DOMAIN tx : tx[k] = Stream(txIdx + k - Len(tx))
  BY <1>1, Sizes DEF Answering
<1>3. clocked \in Nat /\ txIdx \in Nat /\ tx \in Seq(Answers) /\ clocked >= 2
  BY WordCount, Sizes DEF TypeOK
<1>4. CASE tx = <<>>
  <2>1. usbNow
    BY <1>4, NeverDry
  <2> QED
    BY <1>4, <2>1
<1>5. CASE tx # <<>>
  <2>1. PICK n \in Nat : n = Len(tx)
    BY <1>3
  <2>2. n >= 1 /\ DOMAIN tx = 1..n /\ Head(tx) = tx[1]
    BY <1>3, <1>5, <2>1, EmptySeq, LenProperties
  <2>3. PICK m \in Int : m = txIdx + 1 - Len(tx)
    BY <1>3, <2>1
  <2>4. Head(tx) = Stream(m)
    BY <1>2, <2>2, <2>3
  <2>5. m <= clocked - 1 /\ (~usbNow => m = clocked - 1) /\ (m >= 1 => txIdx > 0)
    BY <1>2, <1>3, <2>1, <2>2, <2>3
  <2>6. CASE m >= 1
    <3>1. Head(tx) = Data(m - 1) /\ parsed /\ m \in 1..(clocked - 1)
      BY <1>2, <1>3, <2>4, <2>5, <2>6, StreamIs
    <3>2. ~usbNow => m - 1 = clocked - 2 /\ ~skewed
      BY <1>2, <1>3, <2>5
    <3> QED
      BY <1>5, <3>1, <3>2
  <2>7. CASE ~(m >= 1)
    <3>1. Head(tx) = Filler /\ usbNow
      BY <1>3, <2>4, <2>5, <2>7, StreamIs
    <3> QED
      BY <3>1
  <2> QED
    BY <2>6, <2>7
<1> QED
  BY <1>4, <1>5

\* How much of an answer the AMS has.
LEMMA LineGrows ==
  ASSUME NEW c \in Nat, c > 2
  PROVE  /\ (c - 3) % 4 = 3 => (c - 2) % 4 = 0
         /\ (c - 3) % 4 # 3 => (c - 2) % 4 = ((c - 3) % 4) + 1
         /\ (c - 3) % 4 \in 0..3
<1>1. PICK d \in Nat : d = c - 3
  OBVIOUS
<1>2. /\ d % 4 = 3 => (d + 1) % 4 = 0
      /\ d % 4 # 3 => (d + 1) % 4 = (d % 4) + 1
      /\ d % 4 \in 0..3
  BY <1>1
<1>3. c - 2 = d + 1
  BY <1>1
<1> QED
  BY <1>1, <1>2, <1>3

LEMMA ReadingKept == Framed /\ Answering /\ Reading /\ [Next]_vars => Reading'
<1> SUFFICES ASSUME TypeOK, Edges, Received, Answering, Reading, [Next]_vars PROVE Reading'
  BY DEF Framed
<1> DEFINE Amount == /\ cmd \notin Reads => line = <<>>
                     /\ clocked <= CommandWords => line = <<>>
                     /\ clocked > CommandWords /\ cmd \in Reads =>
                          Len(line) = ((clocked - CommandWords - 1) % ChunkWords) + 1
           Shown(k, n) == /\ line[k] = Filler \/ (parsed /\ \E j \in 1..n : line[k] = Data(j - 1))
                          /\ ~usbNow => line[k] = Data(n - 1)
           Content == cs = "low" /\ ~usbBefore =>
                        \A k \in DOMAIN line : Shown(k, clocked - CommandWords + k - Len(line))
<1>a. Amount /\ Content
  BY DEF Reading
<1> SUFFICES Amount' /\ Content'
  BY DEF Reading
<1>r. clocked \in Nat /\ line \in Seq(Answers) /\ Len(line) \in Nat /\ DOMAIN line = 1..Len(line)
  BY WordCount, LenProperties DEF TypeOK
<1>e. ASSUME line' = <<>>, clocked' = 0 PROVE Amount' /\ Content'
  <2>1. DOMAIN line' = {}
    BY <1>e
  <2> QED
    BY <1>e, <2>1, Sizes
<1>s. UNCHANGED <<cmd, clocked, line>> => Amount'
  BY <1>a
<1>1. CASE Rise
  BY <1>1, <1>s DEF Rise, ams
<1>2. CASE ~Settled /\ Serve
  <2>1. UNCHANGED <<cmd, clocked, line, cs, usbBefore, usbNow>>
    BY <1>2, Zenon DEF Serve, ams
  <2>2. ASSUME cs = "low", ~usbBefore, NEW k \in DOMAIN line,
               NEW n, n = clocked - CommandWords + k - Len(line)
        PROVE  Shown(k, n)'
    <3>1. cmd \in Reads /\ clocked > 1
      <4>1. line # <<>>
        BY <2>2
      <4>2. cmd \in Reads /\ ~(clocked <= CommandWords)
        BY <1>a, <4>1, Zenon
      <4> QED
        BY <1>r, <4>2, Sizes
    <3>2. UNCHANGED <<pool, stopMask>> /\ (parsed => current' = current /\ parsed')
      BY <1>2, <2>2, <3>1, ServeWithin
    <3>3. Shown(k, n)
      BY <1>a, <2>2
    <3>4. CASE parsed
      <4>1. \A i : Data(i)' = Data(i)
        BY <3>2, <3>4, SameData
      <4> QED
        BY <2>1, <3>2, <3>3, <3>4, <4>1
    <3>5. CASE ~parsed
      <4>1. usbNow
        BY <2>2, <3>1, <3>5 DEF Received
      <4> QED
        BY <2>1, <3>3, <3>5, <4>1
    <3> QED
      BY <3>4, <3>5
  <2>3. Content'
    BY <2>1, <2>2
  <2> QED
    BY <1>s, <2>1, <2>3
<1>3. CASE AtUsb
  <2>1. UNCHANGED <<cmd, clocked, line, cs, usbBefore, usbNow, parsed>>
    BY <1>3 DEF AtUsb, framing, ams
  <2>2. cs = "low" => cpu # "loop"
    BY <1>3 DEF AtUsb
  <2>3. cs = "low" /\ ~usbBefore => ~parsed /\ usbNow
    BY <2>2 DEF Received, Edges
  <2> QED
    BY <1>a, <1>s, <2>1, <2>3
<1>4. ASSUME NEW c, NEW s, CsFall(c, s) PROVE Amount' /\ Content'
  BY <1>4, <1>e DEF CsFall
<1>5. CASE Clock
  <2> DEFINE kept == IF Len(line) = ChunkWords THEN <<>> ELSE line
             word == IF tx = <<>> \/ skewed THEN Filler ELSE Head(tx)
  <2>1. /\ cs = "low" /\ clocked' = clocked + 1
        /\ UNCHANGED <<cs, cmd, usbBefore, usbNow, parsed, pool, stopMask, current>>
        /\ line' = IF cmd \in Reads /\ clocked >= CommandWords THEN Append(kept, word) ELSE line
    BY <1>5, Zenon DEF Clock, framing, setting
  <2>2. CASE ~(cmd \in Reads /\ clocked >= CommandWords)
    <3>1. line' = <<>>
      <4>1. line' = line
        BY <2>1, <2>2, Zenon
      <4>2. cmd \notin Reads \/ clocked <= CommandWords
        BY <1>r, <2>2, Sizes
      <4> QED
        BY <1>a, <4>1, <4>2, Zenon
    <3>2. DOMAIN line' = {} /\ ~(clocked' > CommandWords /\ cmd' \in Reads)
      BY <2>1, <2>2, <3>1, <1>r, Sizes
    <3> QED
      BY <3>1, <3>2
  <2>3. CASE cmd \in Reads /\ clocked >= CommandWords
    <3>1. word \in Answers
      <4>1. tx # <<>> => Head(tx) \in Answers
        BY HeadTailProperties DEF TypeOK
      <4> QED
        BY <4>1, DataIsAnswer
    <3>2. /\ line' = Append(kept, word)
          /\ ~usbBefore =>
               /\ word = Filler \/ (parsed /\ \E j \in 1..(clocked - 1) : word = Data(j - 1))
               /\ ~usbNow => word = Data(clocked - 2)
      BY <1>5, <2>1, <2>3, NextWord
    <3>3. \A i : Data(i)' = Data(i)
      BY <2>1, SameData
    <3> HIDE DEF word
    <3>4. PICK l \in Nat : l = Len(line)
      BY <1>r
    <3>5. /\ clocked = 2 => l = 0
          /\ clocked > 2 => l = ((clocked - 3) % 4) + 1
      <4>1. clocked = 2 => line = <<>>
        BY <1>a, <1>r, Sizes
      <4>2. clocked > 2 => Len(line) = ((clocked - 2 - 1) % 4) + 1
        BY <1>a, <2>3, Sizes
      <4>3. clocked - 2 - 1 = clocked - 3
        BY <1>r
      <4> QED
        BY <3>4, <4>1, <4>2, <4>3
    <3>6. clocked >= 2 /\ clocked' = clocked + 1
      BY <2>1, <2>3, Sizes
    <3>7. CASE l = 4
      <4>1. kept = <<>>
        BY <3>4, <3>7, Sizes
      <4>2. line' = Append(<<>>, word)
        BY <3>2, <4>1, Zenon
      <4>3. Len(line') = 1 /\ DOMAIN line' = {1} /\ line'[1] = word /\ line' # <<>>
        <5>1. <<>> \in Seq(Answers) /\ Len(<<>>) = 0
          BY EmptySeq
        <5>2. /\ line' \in Seq(Answers) /\ line' # <<>> /\ Len(line') = 1
              /\ line'[1] = word
          BY <3>1, <4>2, <5>1, AppendProperties
        <5> QED
          BY <5>2, LenProperties
      <4>4. clocked > 2 /\ (clocked - 2) % 4 = 0
        BY <3>5, <3>6, <3>7, <1>r, LineGrows
      <4>5. clocked' - 2 - 1 = clocked - 2
        BY <3>6, <1>r
      <4>6. Amount'
        BY <2>1, <2>3, <3>6, <4>3, <4>4, <4>5, <1>r, Sizes
      <4>7. clocked' - CommandWords + 1 - Len(line') = clocked - 1
        BY <3>6, <4>3, <1>r, Sizes
      <4>8. Content'
        <5> SUFFICES ASSUME ~usbBefore, NEW n, n = clocked - 1
                     PROVE  Shown(1, n)'
          BY <2>1, <4>3, <4>7
        <5>1. n - 1 = clocked - 2
          BY <1>r
        <5> QED
          BY <2>1, <3>2, <3>3, <4>3, <5>1
      <4> QED
        BY <4>6, <4>8
    <3>8. CASE l # 4
      <4>1. kept = line
        BY <3>4, <3>8, Sizes
      <4>2. /\ line' \in Seq(Answers) /\ line' # <<>> /\ Len(line') = Len(line) + 1
            /\ \A k \in 1..Len(line) : line'[k] = line[k]
            /\ line'[Len(line) + 1] = word
        BY <3>1, <3>2, <4>1, <1>r, AppendProperties
      <4>3. DOMAIN line' = 1..Len(line') /\ Len(line') = l + 1
        BY <3>4, <4>2, LenProperties
      <4>4. l + 1 = ((clocked - 2) % 4) + 1
        <5>1. CASE clocked = 2
          <6>1. clocked - 2 = 0 /\ 0 % 4 = 0
            BY <5>1
          <6> QED
            BY <3>5, <5>1, <6>1
        <5>2. CASE clocked > 2
          <6>1. (clocked - 3) % 4 # 3 /\ (clocked - 3) % 4 \in 0..3
            BY <3>5, <3>8, <5>2, <1>r, LineGrows
          <6> QED
            BY <3>5, <5>2, <6>1, <1>r, LineGrows
        <5> QED
          BY <3>6, <5>1, <5>2, <1>r
      <4>5. clocked' - 2 - 1 = clocked - 2
        BY <3>6, <1>r
      <4>6. Amount'
        BY <2>1, <2>3, <3>6, <4>2, <4>3, <4>4, <4>5, <1>r, Sizes
      <4>7. ASSUME ~usbBefore, NEW k \in DOMAIN line',
                   NEW n, n = clocked' - CommandWords + k - Len(line')
            PROVE  Shown(k, n)'
        <5>1. k \in Nat /\ (k \in 1..l \/ k = l + 1)
          BY <4>3
        <5>2. CASE k \in 1..l
          <6>1. line'[k] = line[k] /\ k \in DOMAIN line
            BY <3>4, <4>2, <5>2, <1>r
          <6>2. n = clocked - CommandWords + k - Len(line)
            BY <3>4, <3>6, <4>3, <4>7, <5>1, <1>r, Sizes
          <6>3. Shown(k, n)
            BY <1>a, <2>1, <4>7, <6>1, <6>2
          <6> QED
            BY <2>1, <3>3, <6>1, <6>3
        <5>3. CASE k = l + 1
          <6>1. line'[k] = word
            BY <3>4, <4>2, <5>3
          <6>2. n = clocked - 1 /\ n - 1 = clocked - 2
            BY <3>6, <4>3, <4>7, <5>3, <1>r, Sizes
          <6> QED
            BY <2>1, <3>2, <3>3, <4>7, <6>1, <6>2
        <5> QED
          BY <5>1, <5>2, <5>3
      <4>8. Content'
        BY <2>1, <4>7
      <4> QED
        BY <4>6, <4>8
    <3> QED
      BY <3>7, <3>8
  <2> QED
    BY <2>2, <2>3
<1>6. CASE CsRise
  BY <1>6, <1>e DEF CsRise
<1>7. CASE UNCHANGED vars
  <2>1. /\ UNCHANGED <<cmd, clocked, line, cs, usbBefore, usbNow, parsed, pool, stopMask, current>>
    BY <1>7 DEF vars
  <2>2. \A i : Data(i)' = Data(i)
    BY <2>1, SameData
  <2> QED
    BY <1>a, <2>1, <2>2
<1> HIDE DEF Amount, Content
<1> QED
  BY <1>1, <1>2, <1>3, <1>4, <1>5, <1>6, <1>7, WhatHappens

\* What the AMS is served is never older than the last console command and the
\* last selector the emulator took notice of.
THEOREM PoolStaysFresh == Spec => []PoolIsFresh
<1>1. Init => PoolIsFresh
  BY DEF Init, PoolIsFresh
<1>2. PoolIsFresh /\ [Next]_vars => PoolIsFresh'
  BY StepKeepsPoolFresh
<1> QED
  BY <1>1, <1>2, PTL DEF Spec

-----------------------------------------------------------------------------
(* The theorems.                                                           *)

AnswerInv == Framed /\ Selecting /\ Answering /\ Reading

\* After boot the pad is loaded, and nothing has been sent.
LEMMA AnswerInit == Init => AnswerInv
<1> SUFFICES ASSUME Init PROVE AnswerInv
  OBVIOUS
<1>1. TypeOK
  BY TypingInit
<1>2. Fresh /\ cpu = "loop" /\ cs = "high"
  BY Zenon DEF Init, Fresh
<1>3. Edges
  BY <1>2 DEF Edges, Fresh
<1>4. Received /\ Answering
  BY <1>2 DEF Received, Answering
<1>5. Selecting
  <2>1. rx = <<>> /\ mux = chosen
    BY Zenon DEF Init
  <2>2. DOMAIN rx = {}
    BY <2>1
  <2> QED
    BY <2>1, <2>2 DEF Selecting
<1>6. Reading
  <2>1. line = <<>> /\ clocked = 0
    BY Zenon DEF Init
  <2>2. DOMAIN line = {}
    BY <2>1
  <2> QED
    BY <1>2, <2>1, <2>2, Sizes DEF Reading
<1> QED
  BY <1>1, <1>3, <1>4, <1>5, <1>6 DEF AnswerInv, Framed

LEMMA AnswerKept == AnswerInv /\ [Next]_vars => AnswerInv'
BY TypingKept, EdgesKept, ReceivedKept, SelectingKept, AnsweringKept, ReadingKept
DEF AnswerInv, Framed

\* What is on the bus, in the FIFOs and in the flags of the emulator fits
\* together whenever the transaction follows one the loop has seen the end of.
THEOREM Framing == Spec => []AnswerInv
BY AnswerInit, AnswerKept, PTL DEF Spec

\* ltc6811_emu.c and usb_cmd.c: every index stays within its answer and every
\* FIFO within its eight bytes, however the loop and the AMS take turns.
THEOREM Typing == Spec => []TypeOK
<1>1. AnswerInv => TypeOK
  BY DEF AnswerInv, Framed
<1> QED
  BY <1>1, Framing, PTL

\* ltc6811_emu.c:504-545: a selector behind a transaction without the console
\* is followed, and the channel stays until the next one.
THEOREM SelectorsHold == Spec => []SelectorIsKept
<1>1. AnswerInv => SelectorIsKept
  <2> SUFFICES ASSUME AnswerInv, Settled, heard PROVE mux = chosen
    BY DEF SelectorIsKept
  <2>1. rx = <<>>
    BY SettledIs
  <2>2. DOMAIN rx = {}
    BY <2>1
  <2> QED
    BY <2>2 DEF AnswerInv, Selecting
<1> QED
  BY <1>1, Framing, PTL

\* The data of a chip, as the AMS is to have it.
LEMMA ServedData ==
  ASSUME PoolIsFresh, NEW i \in 0..(DataWords - 1), current \in Reads
  PROVE  Data(i) = IF Module(i \div ChunkWords) \in stopMask THEN Filler
                   ELSE Word(current, i \div ChunkWords,
                             Response(current, cells, temps, mux)[i \div ChunkWords],
                             (i % ChunkWords) + 1)
BY DEF Data, PoolIsFresh, AllResponses

\* Filler never passes for a word of an answer.
LEMMA FillerNeverFits ==
  ASSUME NEW ws, Fits(ws), NEW i \in 1..ChunkWords
  PROVE  ws[i] # Filler
<1>1. ws[i][4] = i /\ i # 0
  BY Sizes DEF Fits, Word
<1>2. Filler[4] = 0
  BY DEF Filler, Word
<1> QED
  BY <1>1, <1>2

\* ltc6811_emu.c:68-75, issue 116: an answer whose PEC fits is of the register
\* asked for and as set, at most shifted down the chain.
THEOREM RightRegister == Spec => []AnswersItsCommand
<1>1. AnswerInv /\ PoolIsFresh => AnswersItsCommand
  <2> SUFFICES ASSUME AnswerInv, PoolIsFresh, Complete, Fits(line), ~usbBefore
               PROVE  LET chip == line[1][2]
                      IN  /\ line[1][1] = cmd /\ chip <= Position
                          /\ line[1][3] \in {before[chip], Response(cmd, cells, temps, mux)[chip]}
    BY DEF AnswersItsCommand
  <2>0. TypeOK /\ Received /\ Reading
    BY DEF AnswerInv, Framed
  <2>1. /\ cs = "low" /\ line \in Seq(Answers) /\ clocked \in Nat /\ 1 \in DOMAIN line
        /\ line # <<>> /\ 1 \in 1..ChunkWords
    <3>1. Len(line) = 4 /\ cs = "low" /\ line \in Seq(Answers)
      BY <2>0, Sizes DEF Complete, TypeOK
    <3>2. 1 \in DOMAIN line
      BY <3>1, LenProperties
    <3>3. clocked \in Nat
      BY <2>0, WordCount DEF TypeOK
    <3>4. line # <<>>
      BY <3>2
    <3> QED
      BY <3>1, <3>2, <3>3, <3>4, Sizes
  <2>2. cmd \in Reads /\ clocked > 2 /\ clocked < DataWords + 3
    <3>1. cmd \in Reads /\ ~(clocked <= CommandWords)
      BY <2>0, <2>1, Zenon DEF Reading
    <3>2. clocked <= Words(cmd)
      BY <2>0, WordCount DEF TypeOK
    <3> QED
      BY <2>1, <3>1, <3>2, WordCount, Sizes
  <2>3. /\ clocked - 2 + 1 - Len(line) = clocked - 5
        /\ (clocked - 3) % 4 = 3
    <3>1. PICK n \in Nat : n = Len(line)
      BY <2>1
    <3>2. n = 4 /\ n = ((clocked - 2 - 1) % 4) + 1
      BY <2>0, <2>1, <2>2, <3>1, Sizes DEF Reading, Complete
    <3>3. clocked - 2 - 1 = clocked - 3
      BY <2>1
    <3> QED
      BY <2>1, <3>1, <3>2, <3>3
  <2>4. /\ parsed /\ current = cmd
        /\ \E j \in 1..(clocked - 5) : line[1] = Data(j - 1)
    <3>1. line[1] # Filler
      BY <2>1, FillerNeverFits
    <3>2. \/ line[1] = Filler
          \/ parsed /\ \E j \in 1..(clocked - 2 + 1 - Len(line)) : line[1] = Data(j - 1)
      BY <2>0, <2>1, Sizes DEF Reading
    <3> QED
      BY <2>0, <2>1, <2>2, <2>3, <3>1, <3>2 DEF Received
  <2>5. PICK j \in 1..(clocked - 5) : line[1] = Data(j - 1)
    BY <2>4
  <2>6. PICK i \in 0..(DataWords - 1) : i = j - 1 /\ i <= clocked - 6
    BY <2>1, <2>2, <2>5, Sizes
  <2>7. PICK chip \in Chips : chip = i \div ChunkWords
    BY WordOfChip
  <2>8. line[1] = Word(cmd, chip, Response(cmd, cells, temps, mux)[chip], (i % ChunkWords) + 1)
    <3>1. line[1] # Filler /\ line[1] = Data(i)
      BY <2>1, <2>5, <2>6, FillerNeverFits
    <3> QED
      BY <2>2, <2>4, <2>7, <3>1, ServedData
  <2>9. chip <= Position
    <3>1. PICK d \in Nat : d = clocked - 3 /\ d % 4 = 3 /\ i <= d - 3
      BY <2>1, <2>2, <2>3, <2>6
    <3>2. i \div 4 <= d \div 4
      BY <3>1
    <3>3. Position = d \div 4
      <4>1. clocked - 2 - 1 = d
        BY <2>1, <3>1
      <4> QED
        BY <4>1, Sizes DEF Position
    <3> QED
      BY <2>7, <3>2, <3>3, Sizes
  <2> QED
    BY <2>8, <2>9 DEF Word
<1> QED
  BY <1>1, Framing, PoolStaysFresh, PTL

\* ltc6811_emu.c:371-433 and 470-545: behind one transaction without the
\* console, a transaction without it gets from every chip what has been set.
THEOREM AllRightAgain == Spec => []NextOneIsRight
<1>1. AnswerInv /\ PoolIsFresh => NextOneIsRight
  <2> SUFFICES ASSUME AnswerInv, PoolIsFresh, Complete, ~usbBefore, ~usbNow
               PROVE  IF Module(Position) \in stopMask THEN ~Fits(line)
                      ELSE /\ Fits(line)
                           /\ line[1] = Word(cmd, Position, Response(cmd, cells, temps, mux)[Position], 1)
    BY DEF NextOneIsRight
  <2>0. TypeOK /\ Received /\ Reading
    BY DEF AnswerInv, Framed
  <2>1. /\ cs = "low" /\ line \in Seq(Answers) /\ clocked \in Nat /\ Len(line) = 4
        /\ DOMAIN line = 1..4 /\ line # <<>>
    <3>1. Len(line) = 4 /\ cs = "low" /\ line \in Seq(Answers)
      BY <2>0, Sizes DEF Complete, TypeOK
    <3>2. DOMAIN line = 1..4
      BY <3>1, LenProperties
    <3>3. clocked \in Nat
      BY <2>0, WordCount DEF TypeOK
    <3>4. line # <<>>
      BY <3>2
    <3> QED
      BY <3>1, <3>2, <3>3, <3>4, Sizes
  <2>2. cmd \in Reads /\ clocked > 2 /\ clocked < DataWords + 3
    <3>1. cmd \in Reads /\ ~(clocked <= CommandWords)
      BY <2>0, <2>1, Zenon DEF Reading
    <3>2. clocked <= Words(cmd)
      BY <2>0, WordCount DEF TypeOK
    <3> QED
      BY <2>1, <3>1, <3>2, WordCount, Sizes
  <2>3. PICK d \in Nat : d = clocked - 3 /\ d % 4 = 3 /\ d < DataWords
    <3>1. PICK n \in Nat : n = Len(line)
      BY <2>1
    <3>2. n = 4 /\ n = ((clocked - 2 - 1) % 4) + 1
      BY <2>0, <2>1, <2>2, <3>1, Sizes DEF Reading
    <3>3. clocked - 2 - 1 = clocked - 3
      BY <2>1
    <3> QED
      BY <2>1, <2>2, <3>2, <3>3, Sizes
  <2>4. parsed /\ current = cmd
    BY <2>0, <2>1, <2>2 DEF Received
  <2>5. PICK chip \in Nat : /\ chip = d \div 4 /\ d = 4 * chip + 3 /\ Position = chip
    <3>1. d \div 4 \in Nat /\ d = 4 * (d \div 4) + 3
      BY <2>3
    <3>2. clocked - 2 - 1 = d
      BY <2>1, <2>3
    <3> QED
      BY <3>1, <3>2, Sizes DEF Position
  <2>6. ASSUME NEW k \in 1..4
        PROVE  line[k] = IF Module(chip) \in stopMask THEN Filler
                         ELSE Word(cmd, chip, Response(cmd, cells, temps, mux)[chip], k)
    <3>1. PICK i \in 0..(DataWords - 1) : i = 4 * chip + k - 1
      BY <2>3, <2>5, Sizes
    <3>2. clocked - CommandWords + k - Len(line) - 1 = i
      BY <2>1, <2>3, <2>5, <3>1, Sizes
    <3>3. line[k] = Data(i)
      <4>1. line[k] = Data((clocked - CommandWords + k - Len(line)) - 1)
        BY <2>0, <2>1 DEF Reading
      <4>2. (clocked - CommandWords + k - Len(line)) - 1 = i
        BY <2>1, <2>3, <2>5, <3>1, Sizes
      <4> QED
        BY <4>1, <4>2
    <3>4. i \div 4 = chip /\ i % 4 = k - 1
      BY <2>5, <3>1
    <3>5. (i % 4) + 1 = k
      BY <3>4
    <3> QED
      BY <2>2, <2>4, <3>3, <3>4, <3>5, ServedData, Sizes
  <2>7. CASE Module(Position) \in stopMask
    <3>1. line[1] = Filler
      BY <2>5, <2>6, <2>7
    <3> QED
      BY <2>7, <3>1, FillerNeverFits, Sizes
  <2>8. CASE Module(Position) \notin stopMask
    <3>1. \A k \in 1..4 : line[k] = Word(cmd, chip, Response(cmd, cells, temps, mux)[chip], k)
      BY <2>5, <2>6, <2>8
    <3>2. /\ line[1][1] = cmd /\ line[1][2] = chip
          /\ line[1][3] = Response(cmd, cells, temps, mux)[chip]
      BY <3>1 DEF Word
    <3>3. Fits(line)
      BY <2>1, <3>1, <3>2, Sizes DEF Fits
    <3> QED
      BY <2>5, <2>8, <3>1, <3>3
  <2> QED
    BY <2>7, <2>8
<1> QED
  BY <1>1, Framing, PoolStaysFresh, PTL
=============================================================================
