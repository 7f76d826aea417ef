------------------------- MODULE FolderSectionProofs -------------------------
(***************************************************************************)
(* Proofs about the folder section, for any number of launchers and        *)
(* readers, any capacity and any retry limit.                              *)
(*                                                                         *)
(* The inductive invariant says what a write in progress still has to do:  *)
(* there is an image of the cells that represents the register to be       *)
(* published, every cell that differs from it has a store pending, and     *)
(* every pending store stores the image's value.  A dead writer needs no   *)
(* such image: the generation stays odd, so no reader succeeds, until      *)
(* rebuild starts a write whose stores cover all that it publishes.        *)
(***************************************************************************)
EXTENDS FolderSection, FiniteSetTheorems, TLAPS

(* The cells m represent the register p: Says, spelled out cell by cell. *)
Represents(m, p) ==
    /\ m[BrokerPid] = p.broker /\ m[BrokerCreateTime] = p.broker
    /\ m[PipeNameHead] = p.pipe /\ m[PipeNameTail] = p.pipe
    /\ \A i \in 1 .. m[LaunchersLen] :
          /\ m[SlotPid(i)] \in p.members
          /\ m[SlotCreateTime(i)] = m[SlotPid(i)]
    /\ \A l \in p.members : \E i \in 1 .. m[LaunchersLen] : m[SlotPid(i)] = l
    /\ \A i, j \in 1 .. m[LaunchersLen] : m[SlotPid(i)] = m[SlotPid(j)] => i = j

(* The pending stores t turn the cells m into the image. *)
Pending(t, m, image) ==
    /\ \A i \in 1 .. Len(t) : t[i][2] = image[t[i][1]]
    /\ \A c \in Cell : m[c] = image[c] \/ \E i \in 1 .. Len(t) : t[i][1] = c

Image == {m \in [Cell -> CellValue] : m[LaunchersLen] \in 0 .. MaxLaunchers}

GenerationInv == pub.gen = IF gen % 2 = 0 THEN gen ELSE gen - 1

WriterInv ==
    /\ todo # <<>> => gen % 2 = 1 /\ broker # NoBroker
    /\ serving => broker # NoBroker
    /\ broker # NoBroker /\ ~serving => gen % 2 = 1

WriteInv ==
    gen % 2 = 1 /\ broker # NoBroker =>
        /\ next.gen = pub.gen + 2
        /\ \E image \in Image : Pending(todo, mem, image) /\ Represents(image, next)

QuiescentInv == gen % 2 = 0 => Represents(mem, pub)

ReaderInv ==
    \A r \in Reader :
        /\ rd[r].pc = "g1" => rd[r].k = 1
        /\ rd[r].pc = "read" => rd[r].k \in Cell
        /\ rd[r].pc = "g2" => rd[r].k = NCells + 1
        /\ rd[r].pc \in {"read", "g2"} =>
              /\ rd[r].g1 % 2 = 0
              /\ rd[r].g1 <= gen
              /\ rd[r].g1 = gen => \A c \in Cell : c < rd[r].k => rd[r].buf[c] = mem[c]
              /\ rd[r].pc = "g2" /\ rd[r].g1 = gen => rd[r].buf = mem
        /\ \A s \in result[r] : s.generation <= gen

Inv == /\ TypeOK
       /\ GenerationInv
       /\ WriterInv
       /\ WriteInv
       /\ QuiescentInv
       /\ ReaderInv

-----------------------------------------------------------------------------

(* The cells of the broker, the length and the slots do not overlap. *)
LEMMA CellNumbers ==
    /\ NCells \in Nat /\ Cell = 1 .. NCells
    /\ {1, 2, 3, 4, 5} \subseteq Cell
    /\ \A i \in 1 .. MaxLaunchers : SlotPid(i) \in Cell /\ SlotCreateTime(i) \in Cell
    /\ \A i \in 1 .. MaxLaunchers : SlotPid(i) > 5 /\ SlotCreateTime(i) > 5
    /\ \A i, j \in 1 .. MaxLaunchers :
          /\ SlotPid(i) = SlotPid(j) => i = j
          /\ SlotCreateTime(i) = SlotCreateTime(j) => i = j
          /\ SlotPid(i) # SlotCreateTime(j)
BY ConstantsAssumption DEF NCells, Cell, SlotPid, SlotCreateTime

(* What begin_write and rebuild store in the generation is odd and not less. *)
LEMMA Parity ==
    ASSUME NEW g \in Nat
    PROVE  /\ g % 2 \in {0, 1}
           /\ g % 2 = 0 <=> (g + 1) % 2 = 1
           /\ WriteMarker(g) \in Nat /\ WriteMarker(g) % 2 = 1 /\ WriteMarker(g) >= g
           /\ g % 2 = 0 => WriteMarker(g) = g + 1
           /\ g % 2 # 0 => WriteMarker(g) = g
BY DEF WriteMarker

(* A snapshot of cells that represent a register says what the register says. *)
LEMMA RepresentsSays ==
    ASSUME NEW m, NEW p, NEW g, g = p.gen, Represents(m, p)
    PROVE  Says(FolderSectionSnapshot(g, m), p)
<1> DEFINE s == FolderSectionSnapshot(g, m)
<1>1. /\ s.generation = p.gen
      /\ s.broker = Identity(p.broker)
      /\ s.pipe_name = Identity(p.pipe)
  BY DEF FolderSectionSnapshot, Represents, Identity
<1>2. /\ DOMAIN s.launchers = 1 .. m[LaunchersLen]
      /\ \A i \in 1 .. m[LaunchersLen] : s.launchers[i] = <<m[SlotPid(i)], m[SlotCreateTime(i)]>>
  BY DEF FolderSectionSnapshot, LauncherSlot
<1>3. {s.launchers[i] : i \in DOMAIN s.launchers} = {Identity(l) : l \in p.members}
  <2> HIDE DEF s
  <2> DEFINE S == {s.launchers[i] : i \in DOMAIN s.launchers}
             T == {Identity(l) : l \in p.members}
  <2>1. ASSUME NEW x \in S PROVE x \in T
    <3>1. PICK i \in 1 .. m[LaunchersLen] : x = <<m[SlotPid(i)], m[SlotCreateTime(i)]>>
      BY <1>2, <2>1
    <3>2. m[SlotPid(i)] \in p.members /\ x = Identity(m[SlotPid(i)])
      BY <3>1 DEF Represents, Identity
    <3> QED BY <3>2
  <2>2. ASSUME NEW x \in T PROVE x \in S
    <3>1. PICK l \in p.members : x = Identity(l)
      BY <2>2
    <3>2. PICK i \in 1 .. m[LaunchersLen] : m[SlotPid(i)] = l
      BY DEF Represents
    <3>3. x = s.launchers[i] /\ i \in DOMAIN s.launchers
      BY <1>2, <3>1, <3>2 DEF Represents, Identity
    <3> QED BY <3>3
  <2> QED BY <2>1, <2>2
<1>4. \A i, j \in DOMAIN s.launchers : s.launchers[i] = s.launchers[j] => i = j
  <2> HIDE DEF s
  <2> QED BY <1>2 DEF Represents
<1> QED BY <1>1, <1>3, <1>4 DEF Says

-----------------------------------------------------------------------------

(* A section just initialised: no launchers, no reader in the middle. *)
LEMMA InitInv == Init => Inv
<1> SUFFICES ASSUME Init PROVE Inv
  OBVIOUS
<1> USE CellNumbers
<1>1. PICK b \in Launcher :
        /\ gen = 0
        /\ mem = [c \in Cell |-> IF c \in BrokerPid .. PipeNameTail THEN b ELSE 0]
        /\ broker = b
        /\ dead = {}
        /\ serving = TRUE
        /\ todo = <<>>
        /\ rd = [r \in Reader |-> Attempt("idle", 0)]
        /\ result = [r \in Reader |-> {}]
        /\ pub = [gen |-> 0, broker |-> b, pipe |-> b, members |-> {}]
        /\ next = pub
  BY DEF Init
<1>2. mem \in [Cell -> CellValue] /\ mem[5] = 0 /\ \A c \in 1 .. 4 : mem[c] = b
  BY <1>1 DEF BrokerPid, PipeNameTail, CellValue
<1>3. Attempt("idle", 0) \in ReaderState
  BY ConstantsAssumption DEF Attempt, ReaderState, CellValue, NCells
<1>4. TypeOK
  BY <1>1, <1>2, <1>3, ConstantsAssumption DEF TypeOK, Register, LaunchersLen
<1>5. GenerationInv /\ WriterInv /\ WriteInv
  BY <1>1, ConstantsAssumption DEF GenerationInv, WriterInv, WriteInv
<1>6. QuiescentInv
  BY <1>1, <1>2 DEF QuiescentInv, Represents, BrokerPid, BrokerCreateTime, PipeNameHead,
                    PipeNameTail, LaunchersLen
<1>7. ReaderInv
  BY <1>1 DEF ReaderInv, Attempt
<1> QED BY <1>4, <1>5, <1>6, <1>7 DEF Inv

(* How a write starts: what add_launcher, remove_launcher and rebuild have   *)
(* in common.                                                              *)
LEMMA StartWrite ==
    ASSUME Inv,
           gen' = WriteMarker(gen),
           UNCHANGED <<mem, dead, serving, rd, result, pub>>,
           broker' \in Launcher,
           todo' \in Seq(Cell \X CellValue),
           next' \in Register, next'.gen = pub.gen + 2,
           \E image \in Image : Pending(todo', mem', image) /\ Represents(image, next')
    PROVE  Inv'
<1> USE DEF Inv
<1>0. gen \in Nat /\ gen' \in Nat /\ gen' % 2 = 1 /\ gen' >= gen
      /\ (gen % 2 = 0 => gen' = gen + 1) /\ (gen % 2 # 0 => gen' = gen)
      /\ gen % 2 \in {0, 1}
  <2>1. gen \in Nat
    BY DEF TypeOK
  <2> QED BY <2>1, Parity
<1>1. TypeOK'
  BY <1>0 DEF TypeOK
<1>2. GenerationInv'
  BY <1>0 DEF GenerationInv
<1>3. WriterInv'
  BY <1>0, ConstantsAssumption DEF WriterInv
<1>4. WriteInv'
  BY DEF WriteInv
<1>5. QuiescentInv'
  BY <1>0 DEF QuiescentInv
<1>6. ReaderInv'
  <2> SUFFICES ASSUME NEW r \in Reader
               PROVE  /\ rd'[r].pc = "g1" => rd'[r].k = 1
                      /\ rd'[r].pc = "read" => rd'[r].k \in Cell
                      /\ rd'[r].pc = "g2" => rd'[r].k = NCells + 1
                      /\ rd'[r].pc \in {"read", "g2"} =>
                            /\ rd'[r].g1 % 2 = 0
                            /\ rd'[r].g1 <= gen'
                            /\ rd'[r].g1 # gen'
                      /\ \A s \in result'[r] : s.generation <= gen'
    BY DEF ReaderInv
  <2>1. rd' = rd /\ result' = result
    OBVIOUS
  <2>2. rd[r] \in ReaderState /\ result[r] \subseteq Snapshot
    BY DEF TypeOK
  <2> QED BY <1>0, <2>1, <2>2 DEF ReaderInv, ReaderState, Snapshot
<1> QED BY <1>1, <1>2, <1>3, <1>4, <1>5, <1>6

(* add_launcher prepares stores whose end result lists one launcher more. *)
LEMMA AddLauncherInv ==
    ASSUME Inv, NEW l \in Launcher, add_launcher(l)
    PROVE  Inv'
<1> DEFINE len == mem[LaunchersLen]
           stores == << <<SlotPid(len + 1), l>>, <<SlotCreateTime(len + 1), l>>,
                        <<LaunchersLen, len + 1>> >>
           image == [c \in Cell |-> IF c \in {SlotPid(len + 1), SlotCreateTime(len + 1)} THEN l
                                   ELSE IF c = LaunchersLen THEN len + 1 ELSE mem[c]]
<1>1. /\ gen % 2 = 0 /\ gen' = gen + 1 /\ todo' = stores
      /\ next' = [pub EXCEPT !.gen = @ + 2, !.members = @ \cup {l}]
      /\ UNCHANGED <<mem, broker, dead, serving, rd, result, pub>>
      /\ len < MaxLaunchers /\ serving /\ ~Listed(l)
  BY DEF add_launcher, Idle, begin_write
<1>2. /\ gen \in Nat /\ mem \in [Cell -> CellValue] /\ len \in 0 .. MaxLaunchers
      /\ pub \in Register /\ broker \in Launcher \cup {NoBroker}
  BY DEF Inv, TypeOK
<1>3. gen' = WriteMarker(gen)
  BY <1>1, <1>2, Parity
<1>4. broker' \in Launcher
  BY <1>1, <1>2 DEF Inv, WriterInv
<1>5. next' = [gen |-> pub.gen + 2, broker |-> pub.broker, pipe |-> pub.pipe,
                members |-> pub.members \cup {l}]
      /\ next' \in Register
  <2>1. pub.gen \in Nat /\ pub.broker \in Launcher /\ pub.pipe \in Launcher
        /\ pub.members \subseteq Launcher
    BY <1>2 DEF Register
  <2>2. next' = [gen |-> pub.gen + 2, broker |-> pub.broker, pipe |-> pub.pipe,
                 members |-> pub.members \cup {l}]
    BY <1>1, <1>2 DEF Register
  <2>3. pub.members \cup {l} \in SUBSET Launcher
    BY <2>1
  <2> QED BY <2>1, <2>2, <2>3 DEF Register
<1>6. len + 1 \in 1 .. MaxLaunchers /\ len \in Nat
  BY <1>1, <1>2, ConstantsAssumption
<1>7. SlotPid(len + 1) \in Cell /\ SlotCreateTime(len + 1) \in Cell /\ LaunchersLen \in Cell
  BY <1>6, CellNumbers DEF LaunchersLen
<1>8. todo' \in Seq(Cell \X CellValue)
  BY <1>1, <1>6, <1>7 DEF CellValue
<1>9. image \in Image
  BY <1>2, <1>6, <1>7, CellNumbers DEF Image, CellValue, LaunchersLen
<1>10. Pending(todo', mem', image)
  <2>1. \A c \in Cell : \/ image[c] = mem[c]
                        \/ c \in {SlotPid(len + 1), SlotCreateTime(len + 1), LaunchersLen}
    BY <1>2
  <2>2. /\ image[SlotPid(len + 1)] = l
        /\ image[SlotCreateTime(len + 1)] = l
        /\ image[LaunchersLen] = len + 1
    BY <1>2, <1>6, <1>7, CellNumbers DEF LaunchersLen
  <2>3. /\ Len(stores) = 3
        /\ stores[1] = <<SlotPid(len + 1), l>>
        /\ stores[2] = <<SlotCreateTime(len + 1), l>>
        /\ stores[3] = <<LaunchersLen, len + 1>>
    OBVIOUS
  <2> HIDE DEF image, stores
  <2> QED BY <1>1, <2>1, <2>2, <2>3 DEF Pending
<1>11. Represents(image, next')
  <2>1. /\ image[LaunchersLen] = len + 1
        /\ image[SlotPid(len + 1)] = l /\ image[SlotCreateTime(len + 1)] = l
        /\ \A c \in 1 .. 4 : image[c] = mem[c]
        /\ \A i \in 1 .. len : /\ image[SlotPid(i)] = mem[SlotPid(i)]
                              /\ image[SlotCreateTime(i)] = mem[SlotCreateTime(i)]
    <3>1. /\ image[LaunchersLen] = len + 1
          /\ image[SlotPid(len + 1)] = l /\ image[SlotCreateTime(len + 1)] = l
      BY <1>6, <1>7, CellNumbers DEF LaunchersLen
    <3>2. \A c \in 1 .. 4 : image[c] = mem[c]
      BY <1>6, <1>7, CellNumbers DEF LaunchersLen
    <3>3. ASSUME NEW i \in 1 .. len
          PROVE  /\ image[SlotPid(i)] = mem[SlotPid(i)]
                 /\ image[SlotCreateTime(i)] = mem[SlotCreateTime(i)]
      <4>1. i \in 1 .. MaxLaunchers /\ i # len + 1
        BY <1>2, ConstantsAssumption
      <4> QED BY <4>1, <1>6, CellNumbers DEF LaunchersLen
    <3> QED BY <3>1, <3>2, <3>3
  <2>2. Represents(mem, pub)
    BY <1>1 DEF Inv, QuiescentInv
  <2>3. /\ next'.broker = pub.broker /\ next'.pipe = pub.pipe
        /\ next'.members = pub.members \cup {l}
    BY <1>5
  <2>4. l \notin pub.members
    BY <1>1, <2>2 DEF Represents, Listed, LauncherSlot, Identity
  <2>5. \A i \in 1 .. len + 1 : i \in 1 .. len \/ i = len + 1
    BY <1>6
  <2>6. 1 .. len \subseteq 1 .. len + 1 /\ len + 1 \in 1 .. len + 1
    BY <1>6
  <2> HIDE DEF image
  <2>7. /\ image[BrokerPid] = next'.broker /\ image[BrokerCreateTime] = next'.broker
        /\ image[PipeNameHead] = next'.pipe /\ image[PipeNameTail] = next'.pipe
    BY <2>1, <2>2, <2>3 DEF Represents, BrokerPid, BrokerCreateTime, PipeNameHead, PipeNameTail
  <2>8. \A i \in 1 .. len + 1 : /\ image[SlotPid(i)] \in next'.members
                               /\ image[SlotCreateTime(i)] = image[SlotPid(i)]
    BY <2>1, <2>2, <2>3, <2>5 DEF Represents
  <2>9. \A k \in next'.members : \E i \in 1 .. len + 1 : image[SlotPid(i)] = k
    BY <2>1, <2>2, <2>3, <2>6 DEF Represents
  <2>10. \A i, j \in 1 .. len + 1 : image[SlotPid(i)] = image[SlotPid(j)] => i = j
    BY <2>1, <2>2, <2>4, <2>5 DEF Represents
  <2> QED BY <2>1, <2>7, <2>8, <2>9, <2>10 DEF Represents
<1> QED
  <2> HIDE DEF image, stores
  <2> QED BY <1>1, <1>3, <1>4, <1>5, <1>8, <1>9, <1>10, <1>11, StartWrite

(* rebuild starts from any cells, half-written ones included. *)
LEMMA RebuildInv ==
    ASSUME Inv, NEW l \in Launcher, rebuild(l)
    PROVE  Inv'
<1> DEFINE image == [c \in Cell |-> IF c = 5 THEN 1 ELSE IF c < 8 THEN l ELSE mem[c]]
<1> USE DEF BrokerPid, BrokerCreateTime, PipeNameHead, PipeNameTail, LaunchersLen,
            SlotPid, SlotCreateTime
<1>1. /\ gen' = WriteMarker(gen) /\ todo' = RebuildStores(l) /\ broker' = l
      /\ next' = [gen |-> pub.gen + 2, broker |-> l, pipe |-> l, members |-> {l}]
      /\ UNCHANGED <<mem, dead, serving, rd, result, pub>>
  BY DEF rebuild
<1>2. /\ mem \in [Cell -> CellValue] /\ pub \in Register
  BY DEF Inv, TypeOK
<1>3. next' \in Register /\ next'.gen = pub.gen + 2
  BY <1>1, <1>2 DEF Register
<1>4. 1 .. 7 \subseteq Cell
  BY ConstantsAssumption DEF Cell, NCells
<1>5. RebuildStores(l) =
        << <<1, l>>, <<2, l>>, <<3, l>>, <<4, l>>, <<6, l>>, <<7, l>>, <<5, 1>> >>
  BY DEF RebuildStores
<1>6. todo' \in Seq(Cell \X CellValue)
  BY <1>1, <1>4, <1>5 DEF CellValue
<1>7. image \in Image
  BY <1>2, <1>4, ConstantsAssumption DEF Image, CellValue
<1>8. Pending(todo', mem', image)
  <2>1. \A c \in Cell : image[c] = mem[c] \/ c \in 1 .. 7
    BY CellNumbers
  <2>2. image[5] = 1 /\ \A c \in {1, 2, 3, 4, 6, 7} : image[c] = l
    BY <1>2, <1>4
  <2> HIDE DEF image
  <2> QED BY <1>1, <1>5, <2>1, <2>2 DEF Pending
<1>9. Represents(image, next')
  BY <1>1, <1>2, <1>4 DEF Represents
<1> QED
  <2> HIDE DEF image
  <2> QED BY <1>1, <1>3, <1>6, <1>7, <1>8, <1>9, StartWrite

(* remove_launcher moves the last slot into the one it frees. *)
LEMMA RemoveLauncherInv ==
    ASSUME Inv, NEW l \in Launcher, remove_launcher(l)
    PROVE  Inv'
<1> DEFINE len == mem[LaunchersLen]
           idx == Position(l)
           stores == SwapRemoveStores(idx, len)
           image == [c \in Cell |-> IF c = SlotPid(idx) THEN mem[SlotPid(len)]
                                   ELSE IF c = SlotCreateTime(idx) THEN mem[SlotCreateTime(len)]
                                   ELSE IF c = LaunchersLen THEN len - 1 ELSE mem[c]]
<1>1. /\ gen % 2 = 0 /\ gen' = gen + 1 /\ todo' = stores
      /\ next' = [pub EXCEPT !.gen = @ + 2, !.members = @ \ {l}]
      /\ UNCHANGED <<mem, broker, dead, serving, rd, result, pub>>
      /\ serving /\ Listed(l)
  BY DEF remove_launcher, Idle, begin_write
<1>2. /\ gen \in Nat /\ mem \in [Cell -> CellValue] /\ len \in 0 .. MaxLaunchers
      /\ pub \in Register /\ broker \in Launcher \cup {NoBroker}
  BY DEF Inv, TypeOK
<1>3. gen' = WriteMarker(gen)
  BY <1>1, <1>2, Parity
<1>4. broker' \in Launcher
  BY <1>1, <1>2 DEF Inv, WriterInv
<1>5. next' = [gen |-> pub.gen + 2, broker |-> pub.broker, pipe |-> pub.pipe,
               members |-> pub.members \ {l}]
      /\ next' \in Register
  <2>1. pub.gen \in Nat /\ pub.broker \in Launcher /\ pub.pipe \in Launcher
        /\ pub.members \subseteq Launcher
    BY <1>2 DEF Register
  <2>2. next' = [gen |-> pub.gen + 2, broker |-> pub.broker, pipe |-> pub.pipe,
                 members |-> pub.members \ {l}]
    BY <1>1, <1>2 DEF Register
  <2>3. pub.members \ {l} \in SUBSET Launcher
    BY <2>1
  <2> QED BY <2>1, <2>2, <2>3 DEF Register
<1>6. idx \in 1 .. len /\ LauncherSlot(mem, idx) = Identity(l)
  BY <1>1 DEF Listed, Position
<1>7. /\ mem[SlotPid(idx)] = l
      /\ idx \in 1 .. MaxLaunchers /\ len \in 1 .. MaxLaunchers
  BY <1>2, <1>6, ConstantsAssumption DEF LauncherSlot, Identity
<1> HIDE DEF idx
<1>8. /\ SlotPid(idx) \in Cell /\ SlotCreateTime(idx) \in Cell /\ LaunchersLen \in Cell
      /\ SlotPid(len) \in Cell /\ SlotCreateTime(len) \in Cell
      /\ len - 1 \in CellValue /\ len - 1 \in 0 .. MaxLaunchers
      /\ mem[SlotPid(len)] \in CellValue /\ mem[SlotCreateTime(len)] \in CellValue
      /\ SlotPid(idx) # SlotCreateTime(idx)
      /\ SlotPid(idx) # LaunchersLen /\ SlotCreateTime(idx) # LaunchersLen
  <2>1. /\ SlotPid(idx) \in Cell /\ SlotCreateTime(idx) \in Cell /\ LaunchersLen \in Cell
        /\ SlotPid(len) \in Cell /\ SlotCreateTime(len) \in Cell
        /\ SlotPid(idx) # SlotCreateTime(idx)
        /\ SlotPid(idx) # LaunchersLen /\ SlotCreateTime(idx) # LaunchersLen
    BY <1>7, CellNumbers DEF LaunchersLen
  <2>2. len - 1 \in Nat /\ len - 1 \in 0 .. MaxLaunchers
    BY <1>7, ConstantsAssumption
  <2> QED BY <1>2, <2>1, <2>2 DEF CellValue
<1>9. todo' \in Seq(Cell \X CellValue)
  <2>1. CASE idx = len
    BY <1>1, <1>8, <2>1 DEF SwapRemoveStores
  <2>2. CASE idx # len
    <3>1. todo' = << <<SlotPid(idx), mem[SlotPid(len)]>>,
                     <<SlotCreateTime(idx), mem[SlotCreateTime(len)]>>,
                     <<LaunchersLen, len - 1>> >>
      BY <1>1, <2>2 DEF SwapRemoveStores
    <3>2. /\ <<SlotPid(idx), mem[SlotPid(len)]>> \in Cell \X CellValue
          /\ <<SlotCreateTime(idx), mem[SlotCreateTime(len)]>> \in Cell \X CellValue
          /\ <<LaunchersLen, len - 1>> \in Cell \X CellValue
      BY <1>8
    <3> QED BY <3>1, <3>2
  <2> QED BY <2>1, <2>2
<1>10. image \in Image
  <2>1. \A c \in Cell : image[c] \in CellValue
    BY <1>2, <1>8
  <2>2. image[LaunchersLen] = len - 1
    BY <1>8
  <2> QED BY <1>8, <2>1, <2>2 DEF Image
<1>11. Pending(todo', mem', image)
  <2>1. \A c \in Cell : \/ image[c] = mem[c]
                        \/ c \in {SlotPid(idx), SlotCreateTime(idx), LaunchersLen}
    BY <1>2
  <2>2. /\ image[SlotPid(idx)] = mem[SlotPid(len)]
        /\ image[SlotCreateTime(idx)] = mem[SlotCreateTime(len)]
        /\ image[LaunchersLen] = len - 1
    BY <1>8
  <2> HIDE DEF image
  <2>3. CASE idx = len
    BY <1>1, <2>1, <2>2, <2>3 DEF Pending, SwapRemoveStores
  <2>4. CASE idx # len
    BY <1>1, <2>1, <2>2, <2>4 DEF Pending, SwapRemoveStores
  <2> QED BY <2>3, <2>4
<1>12. Represents(image, next')
  <2>1. Represents(mem, pub)
    BY <1>1 DEF Inv, QuiescentInv
  <2>2. image[LaunchersLen] = len - 1
    BY <1>8
  <2>3. \A c \in 1 .. 4 : image[c] = mem[c]
    BY <1>7, CellNumbers DEF LaunchersLen
  <2>4. ASSUME NEW i \in 1 .. len
        PROVE  /\ image[SlotPid(i)] = IF i = idx THEN mem[SlotPid(len)] ELSE mem[SlotPid(i)]
               /\ image[SlotCreateTime(i)] =
                     IF i = idx THEN mem[SlotCreateTime(len)] ELSE mem[SlotCreateTime(i)]
    <3>1. i \in 1 .. MaxLaunchers
      BY <1>2, ConstantsAssumption
    <3> QED BY <3>1, <1>7, CellNumbers DEF LaunchersLen
  <2>5. /\ next'.broker = pub.broker /\ next'.pipe = pub.pipe
        /\ next'.members = pub.members \ {l}
    BY <1>5
  <2>6. /\ \A i \in 1 .. len - 1 : i \in 1 .. len /\ i # len
        /\ \A i \in 1 .. len : i # len => i \in 1 .. len - 1
        /\ len \in 1 .. len
    BY <1>7
  <2> HIDE DEF image
  <2>7. /\ image[BrokerPid] = next'.broker /\ image[BrokerCreateTime] = next'.broker
        /\ image[PipeNameHead] = next'.pipe /\ image[PipeNameTail] = next'.pipe
    BY <2>1, <2>3, <2>5 DEF Represents, BrokerPid, BrokerCreateTime, PipeNameHead, PipeNameTail
  <2> DEFINE P(i) == mem[SlotPid(i)]
  <2>8. /\ \A i \in 1 .. len : P(i) \in pub.members /\ mem[SlotCreateTime(i)] = P(i)
        /\ \A k \in pub.members : \E i \in 1 .. len : P(i) = k
        /\ \A i, j \in 1 .. len : P(i) = P(j) => i = j
        /\ P(idx) = l
    BY <1>7, <2>1 DEF Represents
  <2>9. \A i \in 1 .. len - 1 : /\ image[SlotPid(i)] \in next'.members
                               /\ image[SlotCreateTime(i)] = image[SlotPid(i)]
    BY <1>6, <2>4, <2>5, <2>6, <2>8
  <2>10. ASSUME NEW k \in next'.members PROVE \E i \in 1 .. len - 1 : image[SlotPid(i)] = k
    <3>1. PICK i \in 1 .. len : P(i) = k
      BY <2>5, <2>8
    <3>2. i # idx
      BY <2>5, <2>8, <3>1
    <3>3. CASE i = len
      BY <1>6, <2>4, <2>6, <3>1, <3>2, <3>3
    <3>4. CASE i # len
      BY <2>4, <2>6, <3>1, <3>2, <3>4
    <3> QED BY <3>3, <3>4
  <2>11. \A i, j \in 1 .. len - 1 : image[SlotPid(i)] = image[SlotPid(j)] => i = j
    BY <2>4, <2>6, <2>8
  <2> QED BY <2>2, <2>7, <2>9, <2>10, <2>11 DEF Represents
<1> QED
  <2> HIDE DEF image, stores
  <2> QED BY <1>1, <1>3, <1>4, <1>5, <1>9, <1>10, <1>11, <1>12, StartWrite

(* One store of a write: readers that pass it will see the generation differ. *)
LEMMA StoreCellInv == Inv /\ StoreCell => Inv'
<1> SUFFICES ASSUME Inv, StoreCell PROVE Inv'
  OBVIOUS
<1> DEFINE c0 == todo[1][1]
           v0 == todo[1][2]
<1>1. /\ todo # <<>> /\ mem' = [mem EXCEPT ![Head(todo)[1]] = Head(todo)[2]]
      /\ todo' = Tail(todo)
      /\ UNCHANGED <<gen, broker, dead, serving, rd, result, pub, next>>
  BY DEF StoreCell
<1>2. /\ todo \in Seq(Cell \X CellValue) /\ mem \in [Cell -> CellValue]
      /\ gen \in Nat
  BY DEF Inv, TypeOK
<1>3. /\ Head(todo) = todo[1] /\ Len(todo) \in Nat \ {0}
      /\ todo[1] \in Cell \X CellValue
      /\ todo' \in Seq(Cell \X CellValue) /\ Len(todo') = Len(todo) - 1
      /\ \A i \in 1 .. Len(todo') : todo'[i] = todo[i + 1]
  BY <1>1, <1>2
<1>4. gen % 2 = 1 /\ broker # NoBroker
  BY <1>1 DEF Inv, WriterInv
<1>5. PICK image \in Image : Pending(todo, mem, image) /\ Represents(image, next)
  BY <1>4 DEF Inv, WriteInv
<1>6. c0 \in Cell /\ v0 \in CellValue /\ image[c0] = v0
  BY <1>3, <1>5 DEF Pending
<1>7. mem' \in [Cell -> CellValue] /\ \A c \in Cell : mem'[c] = IF c = c0 THEN v0 ELSE mem[c]
  BY <1>1, <1>2, <1>3, <1>6
<1> HIDE DEF c0, v0
<1>8. Pending(todo', mem', image)
  <2>1. ASSUME NEW i \in 1 .. Len(todo') PROVE todo'[i][2] = image[todo'[i][1]]
    <3>1. i + 1 \in 1 .. Len(todo)
      BY <1>3
    <3> QED BY <1>3, <1>5, <3>1 DEF Pending
  <2>2. ASSUME NEW c \in Cell, mem'[c] # image[c]
        PROVE  \E i \in 1 .. Len(todo') : todo'[i][1] = c
    <3>1. c # c0 /\ mem[c] # image[c]
      BY <1>6, <1>7, <2>2
    <3>2. PICK i \in 1 .. Len(todo) : todo[i][1] = c
      BY <1>5, <3>1 DEF Pending
    <3>3. i # 1
      BY <3>1, <3>2 DEF c0
    <3>4. i - 1 \in 1 .. Len(todo') /\ todo'[i - 1] = todo[(i - 1) + 1] /\ (i - 1) + 1 = i
      BY <1>3, <3>3
    <3> QED BY <3>2, <3>4
  <2> QED BY <2>1, <2>2 DEF Pending
<1>9. mem'[LaunchersLen] \in 0 .. MaxLaunchers
  BY <1>5, <1>6, <1>7, CellNumbers DEF Inv, TypeOK, Image, LaunchersLen
<1>10. TypeOK'
  BY <1>1, <1>3, <1>7, <1>9 DEF Inv, TypeOK
<1>11. GenerationInv' /\ WriterInv' /\ WriteInv'
  BY <1>1, <1>4, <1>5, <1>8 DEF Inv, GenerationInv, WriterInv, WriteInv
<1>12. QuiescentInv'
  BY <1>1, <1>4 DEF QuiescentInv
<1>13. ReaderInv'
  <2>1. \A r \in Reader : rd[r].pc \in {"read", "g2"} => rd[r].g1 # gen
    BY <1>4 DEF Inv, ReaderInv
  <2> QED BY <1>1, <2>1 DEF Inv, ReaderInv
<1> QED BY <1>10, <1>11, <1>12, <1>13 DEF Inv

(* A finished write has produced the contents it was meant to. *)
LEMMA EndWriteInv == Inv /\ end_write => Inv'
<1> SUFFICES ASSUME Inv, end_write PROVE Inv'
  OBVIOUS
<1>1. /\ gen % 2 = 1 /\ todo = <<>> /\ broker # NoBroker
      /\ gen' = gen + 1 /\ serving' = TRUE /\ pub' = next
      /\ UNCHANGED <<mem, broker, dead, todo, rd, result, next>>
  BY DEF end_write
<1>2. gen \in Nat /\ gen' \in Nat /\ gen' % 2 = 0 /\ gen' > gen
  <2>1. gen \in Nat
    BY DEF Inv, TypeOK
  <2> QED BY <1>1, <2>1
<1>3. TypeOK'
  BY <1>1, <1>2 DEF Inv, TypeOK
<1>4. PICK image \in Image : Pending(todo, mem, image) /\ Represents(image, next)
  BY <1>1 DEF Inv, WriteInv
<1>5. mem = image
  <2>1. Len(todo) = 0
    BY <1>1
  <2>2. mem \in [Cell -> CellValue] /\ image \in [Cell -> CellValue]
    BY DEF Inv, TypeOK, Image
  <2>3. \A c \in Cell : mem[c] = image[c]
    BY <1>4, <2>1 DEF Pending
  <2> QED BY <2>2, <2>3
<1>6. GenerationInv'
  <2>1. next.gen = pub.gen + 2 /\ pub.gen = gen - 1
    BY <1>1 DEF Inv, WriteInv, GenerationInv
  <2> QED BY <1>1, <1>2, <2>1 DEF GenerationInv
<1>7. WriterInv' /\ WriteInv'
  BY <1>1, <1>2 DEF WriterInv, WriteInv
<1>8. QuiescentInv'
  BY <1>1, <1>4, <1>5 DEF QuiescentInv
<1>9. ReaderInv'
  <2> SUFFICES ASSUME NEW r \in Reader
               PROVE  /\ rd'[r].pc = "g1" => rd'[r].k = 1
                      /\ rd'[r].pc = "read" => rd'[r].k \in Cell
                      /\ rd'[r].pc = "g2" => rd'[r].k = NCells + 1
                      /\ rd'[r].pc \in {"read", "g2"} =>
                            /\ rd'[r].g1 % 2 = 0
                            /\ rd'[r].g1 <= gen'
                            /\ rd'[r].g1 # gen'
                      /\ \A s \in result'[r] : s.generation <= gen'
    BY DEF ReaderInv
  <2>1. rd[r] \in ReaderState /\ result[r] \subseteq Snapshot
    BY DEF Inv, TypeOK
  <2> QED BY <1>1, <1>2, <2>1 DEF Inv, ReaderInv, ReaderState, Snapshot
<1> QED BY <1>3, <1>6, <1>7, <1>8, <1>9 DEF Inv

(* A dead broker leaves the cells as they are; an odd generation stays odd. *)
LEMMA BrokerDiesInv == Inv /\ BrokerDies => Inv'
<1> SUFFICES ASSUME Inv, BrokerDies PROVE Inv'
  OBVIOUS
<1>1. /\ broker # NoBroker /\ broker' = NoBroker /\ dead' = dead \cup {broker}
      /\ serving' = FALSE /\ todo' = <<>>
      /\ UNCHANGED <<gen, mem, rd, result, pub, next>>
  BY DEF BrokerDies
<1>2. TypeOK'
  <2>1. broker \in Launcher /\ dead \subseteq Launcher
    BY <1>1 DEF Inv, TypeOK
  <2>2. dead' \subseteq Launcher
    BY <1>1, <2>1
  <2>3. todo' \in Seq(Cell \X CellValue)
    BY <1>1
  <2> QED BY <1>1, <2>2, <2>3 DEF Inv, TypeOK
<1>3. GenerationInv' /\ WriterInv' /\ WriteInv' /\ QuiescentInv' /\ ReaderInv'
  BY <1>1 DEF Inv, GenerationInv, WriterInv, WriteInv, QuiescentInv, ReaderInv
<1> QED BY <1>2, <1>3 DEF Inv

(* A step of a reader changes nothing but that reader's state and result. *)
LEMMA ReaderStep ==
    ASSUME Inv, UNCHANGED <<section, writer>>,
           rd' \in [Reader -> ReaderState], result' \in [Reader -> SUBSET Snapshot],
           ReaderInv'
    PROVE  Inv'
<1>1. UNCHANGED <<gen, mem, broker, dead, serving, todo, pub, next>>
  BY DEF section, writer
<1>2. TypeOK'
  BY <1>1 DEF Inv, TypeOK
<1>3. GenerationInv' /\ WriterInv' /\ WriteInv' /\ QuiescentInv'
  BY <1>1 DEF Inv, GenerationInv, WriterInv, WriteInv, QuiescentInv
<1> QED BY <1>2, <1>3 DEF Inv

(* A fresh attempt is a well-typed reader state. *)
LEMMA AttemptType ==
    ASSUME NEW pc \in {"idle", "g1"}, NEW n \in Nat
    PROVE  Attempt(pc, n) \in ReaderState
BY ConstantsAssumption DEF Attempt, ReaderState, CellValue, NCells

(* A reader that starts a new attempt, or returns a result as recent as the *)
(* generation allows.                                                      *)
LEMMA FreshAttempt ==
    ASSUME Inv, UNCHANGED <<section, writer>>,
           NEW r \in Reader, NEW pc \in {"idle", "g1"}, NEW n \in Nat,
           rd' = [rd EXCEPT ![r] = Attempt(pc, n)],
           \/ result' = result
           \/ \E out \in SUBSET Snapshot :
                 /\ result' = [result EXCEPT ![r] = out]
                 /\ \A s \in out : s.generation <= gen
    PROVE  Inv'
<1>1. rd \in [Reader -> ReaderState] /\ result \in [Reader -> SUBSET Snapshot]
  BY DEF Inv, TypeOK
<1>2. rd' \in [Reader -> ReaderState] /\ result' \in [Reader -> SUBSET Snapshot]
  BY <1>1, AttemptType
<1>3. gen' = gen /\ mem' = mem
  BY DEF section
<1>4. ASSUME NEW q \in Reader
      PROVE  /\ rd'[q] = IF q = r THEN Attempt(pc, n) ELSE rd[q]
             /\ \A s \in result'[q] : s.generation <= gen
  BY <1>1 DEF Inv, ReaderInv
<1>5. Attempt(pc, n).pc \in {"idle", "g1"} /\ Attempt(pc, n).k = 1
  BY DEF Attempt
<1>6. ReaderInv'
  BY <1>3, <1>4, <1>5 DEF Inv, ReaderInv
<1> QED BY <1>2, <1>6, ReaderStep

(* A failed attempt of snapshot keeps nothing it has read. *)
LEMMA RetryInv ==
    ASSUME Inv, UNCHANGED <<section, writer>>, NEW r \in Reader, Retry(r)
    PROVE  Inv'
<1>1. rd[r].tries + 1 \in Nat
  BY DEF Inv, TypeOK, ReaderState
<1>2. CASE rd' = [rd EXCEPT ![r] = Attempt("g1", rd[r].tries + 1)] /\ UNCHANGED result
  BY <1>1, <1>2, FreshAttempt
<1>3. CASE Return(r, {})
  <2>1. /\ rd' = [rd EXCEPT ![r] = Attempt("idle", 0)]
        /\ result' = [result EXCEPT ![r] = {}]
    BY <1>3 DEF Return
  <2>2. {} \in SUBSET Snapshot /\ \A s \in {} : s.generation <= gen
    OBVIOUS
  <2>3. \E out \in SUBSET Snapshot : /\ result' = [result EXCEPT ![r] = out]
                                     /\ \A s \in out : s.generation <= gen
    BY <2>1, <2>2
  <2> QED BY <2>1, <2>3, FreshAttempt
<1> QED BY <1>2, <1>3 DEF Retry

(* A call of snapshot starts with a fresh attempt. *)
LEMMA CallInv ==
    ASSUME Inv, NEW r \in Reader, Call(r)
    PROVE  Inv'
BY FreshAttempt DEF Call

(* The first load of the generation. *)
LEMMA LoadG1Inv ==
    ASSUME Inv, NEW r \in Reader, LoadG1(r)
    PROVE  Inv'
<1>1. UNCHANGED <<section, writer>>
  BY DEF LoadG1
<1>2. CASE Retry(r)
  BY <1>1, <1>2, RetryInv
<1>3. CASE /\ rd[r].pc = "g1" /\ gen % 2 = 0
           /\ rd' = [rd EXCEPT ![r].pc = "read", ![r].g1 = gen]
           /\ UNCHANGED result
  <2>1. /\ rd \in [Reader -> ReaderState] /\ gen \in Nat
        /\ result \in [Reader -> SUBSET Snapshot]
    BY DEF Inv, TypeOK
  <2>2. rd[r] \in ReaderState /\ rd[r].k = 1
    BY <1>3, <2>1 DEF Inv, ReaderInv
  <2>3. /\ rd' \in [Reader -> ReaderState]
        /\ rd'[r].pc = "read" /\ rd'[r].g1 = gen /\ rd'[r].k = 1
        /\ \A q \in Reader : q # r => rd'[q] = rd[q]
    BY <1>3, <2>1, <2>2 DEF ReaderState
  <2>4. 1 \in Cell /\ \A c \in Cell : ~(c < 1)
    BY CellNumbers
  <2>5. gen' = gen /\ mem' = mem /\ result' = result
    BY <1>1, <1>3 DEF section
  <2>6. ReaderInv'
    BY <1>3, <2>1, <2>3, <2>4, <2>5 DEF Inv, ReaderInv
  <2> QED BY <1>1, <1>3, <2>1, <2>3, <2>6, ReaderStep
<1> QED BY <1>2, <1>3 DEF LoadG1

(* A cell read under an unchanged generation is one of the published cells. *)
LEMMA LoadCellInv ==
    ASSUME Inv, NEW r \in Reader, LoadCell(r)
    PROVE  Inv'
<1> DEFINE k == rd[r].k
<1>1. /\ rd[r].pc = "read"
      /\ rd' = [rd EXCEPT ![r].buf[rd[r].k] = mem[rd[r].k], ![r].k = @ + 1,
                          ![r].pc = IF rd[r].k = NCells THEN "g2" ELSE "read"]
      /\ UNCHANGED <<section, writer, result>>
  BY DEF LoadCell
<1>2. /\ rd \in [Reader -> ReaderState] /\ gen \in Nat /\ mem \in [Cell -> CellValue]
      /\ result \in [Reader -> SUBSET Snapshot]
  BY DEF Inv, TypeOK
<1>3. rd[r] \in ReaderState /\ k \in Cell
  BY <1>1, <1>2 DEF Inv, ReaderInv
<1>4. k \in 1 .. NCells /\ k + 1 \in 1 .. NCells + 1 /\ mem[k] \in CellValue
      /\ (k # NCells => k + 1 \in Cell) /\ NCells \in Nat
  BY <1>2, <1>3, CellNumbers
<1>5. rd'[r] = [rd[r] EXCEPT !.buf = [rd[r].buf EXCEPT ![k] = mem[k]], !.k = k + 1,
                             !.pc = IF k = NCells THEN "g2" ELSE "read"]
  BY <1>1, <1>2
<1>6. /\ rd'[r].pc = IF k = NCells THEN "g2" ELSE "read"
      /\ rd'[r].k = k + 1
      /\ rd'[r].g1 = rd[r].g1
      /\ rd'[r].buf = [rd[r].buf EXCEPT ![k] = mem[k]]
      /\ rd'[r] \in ReaderState
  <2> HIDE DEF k
  <2>1. /\ rd'[r].pc = IF k = NCells THEN "g2" ELSE "read"
        /\ rd'[r].k = k + 1
        /\ rd'[r].g1 = rd[r].g1
        /\ rd'[r].buf = [rd[r].buf EXCEPT ![k] = mem[k]]
        /\ rd'[r].tries = rd[r].tries
    BY <1>3, <1>5 DEF ReaderState
  <2>2. /\ rd[r].buf \in [Cell -> CellValue]
        /\ [rd[r].buf EXCEPT ![k] = mem[k]] \in [Cell -> CellValue]
    BY <1>3, <1>4 DEF ReaderState
  <2>3. rd'[r] = [pc |-> IF k = NCells THEN "g2" ELSE "read", g1 |-> rd[r].g1, k |-> k + 1,
                  buf |-> [rd[r].buf EXCEPT ![k] = mem[k]], tries |-> rd[r].tries]
    BY <1>3, <1>5 DEF ReaderState
  <2>4. rd[r].g1 \in Nat /\ rd[r].tries \in Nat
    BY <1>3 DEF ReaderState
  <2> QED BY <1>4, <2>1, <2>2, <2>3, <2>4 DEF ReaderState
<1>7. rd' \in [Reader -> ReaderState] /\ \A q \in Reader : q # r => rd'[q] = rd[q]
  BY <1>1, <1>2, <1>6
<1>8. gen' = gen /\ mem' = mem /\ result' = result
  BY <1>1 DEF section
<1>9. rd[r].buf \in [Cell -> CellValue] /\ rd'[r].buf \in [Cell -> CellValue]
  BY <1>3, <1>6 DEF ReaderState
<1>10. ASSUME rd[r].g1 = gen, NEW c \in Cell, c < k + 1 PROVE rd'[r].buf[c] = mem[c]
  <2>1. \A d \in Cell : d < k => rd[r].buf[d] = mem[d]
    BY <1>1, <1>10 DEF Inv, ReaderInv
  <2>2. c < k \/ c = k
    BY <1>4, <1>10, CellNumbers
  <2> QED BY <1>3, <1>6, <1>9, <2>1, <2>2
<1>11. ASSUME rd[r].g1 = gen, k = NCells PROVE rd'[r].buf = mem
  <2>1. \A c \in Cell : c < k + 1
    BY <1>11, CellNumbers
  <2> QED BY <1>2, <1>9, <1>10, <1>11, <2>1
<1>12. ReaderInv'
  <2> SUFFICES ASSUME NEW q \in Reader
               PROVE  ( /\ rd[q].pc = "g1" => rd[q].k = 1
                        /\ rd[q].pc = "read" => rd[q].k \in Cell
                        /\ rd[q].pc = "g2" => rd[q].k = NCells + 1
                        /\ rd[q].pc \in {"read", "g2"} =>
                              /\ rd[q].g1 % 2 = 0
                              /\ rd[q].g1 <= gen
                              /\ rd[q].g1 = gen =>
                                    \A c \in Cell : c < rd[q].k => rd[q].buf[c] = mem[c]
                              /\ rd[q].pc = "g2" /\ rd[q].g1 = gen => rd[q].buf = mem
                        /\ \A s \in result[q] : s.generation <= gen )'
    BY DEF ReaderInv
  <2>1. CASE q # r
    BY <1>7, <1>8, <2>1 DEF Inv, ReaderInv
  <2>2. CASE q = r
    <3>1. rd[r].g1 % 2 = 0 /\ rd[r].g1 <= gen /\ \A s \in result[r] : s.generation <= gen
      BY <1>1 DEF Inv, ReaderInv
    <3> HIDE DEF k
    <3> QED BY <1>4, <1>6, <1>8, <1>10, <1>11, <2>2, <3>1
  <2> QED BY <2>1, <2>2
<1> QED BY <1>1, <1>2, <1>7, <1>8, <1>12, ReaderStep

(* What a successful snapshot is: the cells as they are now, and quiescent. *)
LEMMA LoadG2Reads ==
    ASSUME Inv, NEW r \in Reader, rd[r].pc = "g2", rd[r].g1 = gen
    PROVE  /\ rd[r].buf = mem
           /\ gen = pub.gen
           /\ Represents(mem, pub)
           /\ FolderSectionSnapshot(gen, mem) \in Snapshot
           /\ FolderSectionSnapshot(gen, mem).generation = gen
<1>1. rd[r].buf = mem /\ gen % 2 = 0
  BY DEF Inv, ReaderInv
<1>2. gen = pub.gen /\ Represents(mem, pub)
  BY <1>1 DEF Inv, GenerationInv, QuiescentInv
<1>3. FolderSectionSnapshot(gen, mem) \in Snapshot
  <2>1. gen \in Nat /\ mem \in [Cell -> CellValue] /\ mem[LaunchersLen] \in 0 .. MaxLaunchers
    BY DEF Inv, TypeOK
  <2>2. ASSUME NEW i \in 1 .. mem[LaunchersLen]
        PROVE  LauncherSlot(mem, i) \in CellValue \X CellValue
    <3>1. i \in 1 .. MaxLaunchers
      BY <2>1, ConstantsAssumption
    <3> QED BY <2>1, <3>1, CellNumbers DEF LauncherSlot
  <2>3. [i \in 1 .. mem[LaunchersLen] |-> LauncherSlot(mem, i)] \in Seq(CellValue \X CellValue)
    BY <2>1, <2>2, ConstantsAssumption
  <2>4. \A c \in 1 .. 4 : mem[c] \in CellValue
    BY <2>1, CellNumbers
  <2> QED BY <2>1, <2>3, <2>4 DEF FolderSectionSnapshot, Snapshot, BrokerPid, BrokerCreateTime,
                                  PipeNameHead, PipeNameTail
<1>4. FolderSectionSnapshot(gen, mem).generation = gen
  BY DEF FolderSectionSnapshot
<1> QED BY <1>1, <1>2, <1>3, <1>4

(* An unchanged, even generation makes the cells read a published snapshot. *)
LEMMA LoadG2Inv ==
    ASSUME Inv, NEW r \in Reader, LoadG2(r)
    PROVE  Inv'
<1>1. rd[r].pc = "g2" /\ UNCHANGED <<section, writer>>
  BY DEF LoadG2
<1>2. CASE Retry(r)
  BY <1>1, <1>2, RetryInv
<1>3. CASE gen = rd[r].g1 /\ Return(r, {FolderSectionSnapshot(gen, rd[r].buf)})
  <2>1. /\ rd' = [rd EXCEPT ![r] = Attempt("idle", 0)]
        /\ result' = [result EXCEPT ![r] = {FolderSectionSnapshot(gen, mem)}]
    BY <1>1, <1>3, LoadG2Reads DEF Return
  <2>2. \A s \in {FolderSectionSnapshot(gen, mem)} : s \in Snapshot /\ s.generation <= gen
    <3>1. gen \in Nat
      BY DEF Inv, TypeOK
    <3> QED BY <1>1, <1>3, <3>1, LoadG2Reads
  <2> DEFINE o == {FolderSectionSnapshot(gen, mem)}
  <2>3. o \in SUBSET Snapshot /\ \A s \in o : s.generation <= gen
    BY <2>2
  <2> HIDE DEF o
  <2>4. \E out \in SUBSET Snapshot : /\ result' = [result EXCEPT ![r] = out]
                                     /\ \A s \in out : s.generation <= gen
    BY <2>1, <2>3 DEF o
  <2> QED BY <1>1, <2>1, <2>4, FreshAttempt
<1> QED BY <1>2, <1>3 DEF LoadG2

(* Every step preserves the inductive invariant. *)
LEMMA StepInv == Inv /\ [Next]_vars => Inv'
<1> SUFFICES ASSUME Inv, [Next]_vars PROVE Inv'
  OBVIOUS
<1>1. ASSUME NEW l \in Launcher, add_launcher(l) \/ remove_launcher(l) \/ rebuild(l)
      PROVE  Inv'
  BY <1>1, AddLauncherInv, RemoveLauncherInv, RebuildInv
<1>2. ASSUME StoreCell \/ end_write \/ BrokerDies PROVE Inv'
  BY <1>2, StoreCellInv, EndWriteInv, BrokerDiesInv
<1>3. ASSUME NEW r \in Reader, Call(r) \/ snapshot(r) PROVE Inv'
  BY <1>3, CallInv, LoadG1Inv, LoadCellInv, LoadG2Inv DEF snapshot
<1>4. CASE UNCHANGED vars
  BY <1>4 DEF vars, Inv, TypeOK, GenerationInv, WriterInv, WriteInv, QuiescentInv, ReaderInv
<1> QED BY <1>1, <1>2, <1>3, <1>4 DEF Next

-----------------------------------------------------------------------------

(* In every state the section has its type: the launcher list fits its      *)
(* array and no write_volatile leaves the mapped fields.                   *)
THEOREM TypeCorrect == Spec => []TypeOK
<1>1. Inv => TypeOK
  BY DEF Inv
<1> QED BY <1>1, InitInv, StepInv, PTL DEF Spec

(* Whenever the generation is even, the cells hold the last completed write, *)
(* whatever writes, broker deaths and rebuilds came before.                *)
THEOREM Quiescence == Spec => []QuiescentIsPublished
<1>1. Inv => QuiescentIsPublished
  <2> SUFFICES ASSUME Inv, gen % 2 = 0 PROVE Says(FolderSectionSnapshot(gen, mem), pub)
    BY DEF QuiescentIsPublished
  <2>1. gen = pub.gen /\ Represents(mem, pub)
    BY DEF Inv, GenerationInv, QuiescentInv
  <2> QED BY <2>1, RepresentsSays
<1> QED BY <1>1, InitInv, StepInv, PTL DEF Spec

(* What a step of snapshot that changes a result can return. *)
LEMMA ResultStep ==
    ASSUME Inv, [Next]_vars, NEW r \in Reader, result'[r] # result[r]
    PROVE  result'[r] = {} \/ /\ result'[r] = {FolderSectionSnapshot(gen, mem)}
                              /\ gen = pub.gen
                              /\ Represents(mem, pub)
<1>0. result \in [Reader -> SUBSET Snapshot]
  BY DEF Inv, TypeOK
<1>1. PICK q \in Reader : snapshot(q)
  BY DEF Next, vars, add_launcher, remove_launcher, rebuild, StoreCell, end_write, BrokerDies, Call
<1>2. CASE Retry(q)
  BY <1>0, <1>2 DEF Retry, Return
<1>3. CASE /\ rd[q].pc = "g2" /\ gen = rd[q].g1
           /\ Return(q, {FolderSectionSnapshot(gen, rd[q].buf)})
  <2>1. /\ rd[q].buf = mem /\ gen = pub.gen /\ Represents(mem, pub)
    BY <1>3, LoadG2Reads
  <2>2. result' = [result EXCEPT ![q] = {FolderSectionSnapshot(gen, mem)}]
    BY <1>3, <2>1 DEF Return
  <2> QED BY <1>0, <2>1, <2>2
<1> QED BY <1>1, <1>2, <1>3 DEF snapshot, LoadG1, LoadCell, LoadG2

(* A snapshot that succeeds is exactly the register of the last completed  *)
(* write, for any interleaving of its loads with the broker's stores.      *)
THEOREM ExactSnapshots == Spec => SnapshotIsExact
<1> DEFINE Exact == \A r \in Reader :
                      result'[r] # result[r] => \A s \in result'[r] : Says(s, pub)
<1>1. Inv /\ [Next]_vars => [Exact]_vars
  <2> SUFFICES ASSUME Inv, [Next]_vars, NEW r \in Reader, result'[r] # result[r],
                      NEW s \in result'[r]
               PROVE  Says(s, pub)
    OBVIOUS
  <2>1. s = FolderSectionSnapshot(gen, mem) /\ gen = pub.gen /\ Represents(mem, pub)
    BY ResultStep
  <2> QED BY <2>1, RepresentsSays
<1> QED BY <1>1, InitInv, StepInv, PTL DEF Spec, SnapshotIsExact

(* No reader goes back to an older generation, also when a dead broker left *)
(* an odd one behind and its successor rebuilt the section.                *)
THEOREM MonotoneReaders == Spec => ReadersMonotone
<1> DEFINE Mono == \A r \in Reader :
                     result'[r] # result[r] =>
                     \A s \in result[r], t \in result'[r] : t.generation >= s.generation
<1>1. Inv /\ [Next]_vars => [Mono]_vars
  <2> SUFFICES ASSUME Inv, [Next]_vars, NEW r \in Reader, result'[r] # result[r],
                      NEW s \in result[r], NEW t \in result'[r]
               PROVE  t.generation >= s.generation
    OBVIOUS
  <2>1. t = FolderSectionSnapshot(gen, mem)
    BY ResultStep
  <2> QED BY <2>1 DEF FolderSectionSnapshot, Inv, ReaderInv
<1> QED BY <1>1, InitInv, StepInv, PTL DEF Spec, ReadersMonotone

-----------------------------------------------------------------------------
(* The refinement: the register of AtomicSection is the last one a writer   *)
(* completed.  Only end_write changes it, so the invariant keeps what the   *)
(* guards of add_launcher, remove_launcher and rebuild established when the *)
(* write began.                                                            *)

Joins == \E l \in Launcher :
            /\ l \notin pub.members
            /\ Cardinality(pub.members) < MaxLaunchers
            /\ next = [pub EXCEPT !.gen = @ + 2, !.members = @ \cup {l}]

Leaves == \E l \in pub.members :
             next = [pub EXCEPT !.gen = @ + 2, !.members = @ \ {l}]

TakesOver ==
    /\ broker \in Launcher /\ broker # pub.broker
    /\ next = [gen |-> pub.gen + 2, broker |-> broker, pipe |-> broker,
               members |-> {broker}]

(* A published broker writes, or is dead and cannot take over again. *)
PublishedBroker == pub.broker = broker \/ pub.broker \in dead

StepInProgress ==
    gen % 2 = 1 /\ broker # NoBroker => Joins \/ Leaves \/ TakesOver

(* A list in the cells is as long as the set it represents. *)
LEMMA MembersCounted ==
    ASSUME NEW m, NEW p, Represents(m, p), m[LaunchersLen] \in Nat
    PROVE  Cardinality(p.members) <= m[LaunchersLen]
<1> DEFINE len == m[LaunchersLen]
           f == [i \in 1 .. len |-> m[SlotPid(i)]]
<1>1. f \in Surjection(1 .. len, p.members)
  BY DEF Represents, Surjection
<1>2. ExistsSurjection(1 .. len, p.members)
  BY <1>1 DEF ExistsSurjection
<1> HIDE DEF f
<1> QED BY <1>2, FS_SurjCardinalityBound

(* What the guards of the three writes say about the step they prepare. *)
LEMMA WriteBegins ==
    ASSUME Inv, PublishedBroker, NEW l \in Launcher,
           add_launcher(l) \/ remove_launcher(l) \/ rebuild(l)
    PROVE  PublishedBroker' /\ StepInProgress'
<1>0. /\ gen \in Nat /\ mem[LaunchersLen] \in Nat /\ mem[LaunchersLen] <= MaxLaunchers
      /\ pub \in Register
  BY ConstantsAssumption DEF Inv, TypeOK
<1>1. CASE add_launcher(l)
  <2>1. /\ gen % 2 = 0 /\ ~Listed(l) /\ mem[LaunchersLen] < MaxLaunchers
        /\ next' = [pub EXCEPT !.gen = @ + 2, !.members = @ \cup {l}]
        /\ UNCHANGED <<broker, dead, pub>>
    BY <1>1 DEF add_launcher, Idle, begin_write
  <2>2. Represents(mem, pub)
    BY <2>1 DEF Inv, QuiescentInv
  <2>3. l \notin pub.members
    BY <2>1, <2>2 DEF Represents, Listed, LauncherSlot, Identity
  <2>4. Cardinality(pub.members) <= mem[LaunchersLen]
    BY <1>0, <2>2, MembersCounted
  <2>5. pub.members \subseteq Launcher /\ Cardinality(pub.members) < MaxLaunchers
    <3>1. IsFiniteSet(pub.members)
      <4> DEFINE f == [i \in 1 .. mem[LaunchersLen] |-> mem[SlotPid(i)]]
      <4>1. f \in Surjection(1 .. mem[LaunchersLen], pub.members)
        BY <2>2 DEF Represents, Surjection
      <4>2. IsFiniteSet(1 .. mem[LaunchersLen])
        BY <1>0, FS_Interval
      <4> HIDE DEF f
      <4> QED BY <4>1, <4>2, FS_Surjection
    <3>2. Cardinality(pub.members) \in Nat
      BY <3>1, FS_CardinalityType
    <3> QED BY <1>0, <2>1, <2>4, <3>2, ConstantsAssumption DEF Register
  <2>6. Joins'
    BY <2>1, <2>3, <2>5 DEF Joins
  <2> QED BY <2>1, <2>6 DEF PublishedBroker, StepInProgress
<1>2. CASE remove_launcher(l)
  <2>1. /\ gen % 2 = 0 /\ Listed(l)
        /\ next' = [pub EXCEPT !.gen = @ + 2, !.members = @ \ {l}]
        /\ UNCHANGED <<broker, dead, pub>>
    BY <1>2 DEF remove_launcher, Idle, begin_write
  <2>2. Represents(mem, pub)
    BY <2>1 DEF Inv, QuiescentInv
  <2>3. l \in pub.members
    BY <2>1, <2>2 DEF Represents, Listed, LauncherSlot, Identity
  <2>4. Leaves'
    BY <2>1, <2>3 DEF Leaves
  <2> QED BY <2>1, <2>4 DEF PublishedBroker, StepInProgress
<1>3. CASE rebuild(l)
  <2>1. /\ broker = NoBroker /\ l \notin dead /\ broker' = l
        /\ next' = [gen |-> pub.gen + 2, broker |-> l, pipe |-> l, members |-> {l}]
        /\ UNCHANGED <<dead, pub>>
    BY <1>3 DEF rebuild
  <2>2. pub.broker \in Launcher
    BY <1>0 DEF Register
  <2>3. pub.broker \in dead
    BY <2>1, <2>2, ConstantsAssumption DEF PublishedBroker
  <2>4. PublishedBroker'
    BY <2>1, <2>3 DEF PublishedBroker
  <2>5. TakesOver'
    BY <2>1, <2>3 DEF TakesOver
  <2> QED BY <2>4, <2>5 DEF StepInProgress
<1> QED BY <1>1, <1>2, <1>3

RefinementInv == Inv /\ PublishedBroker /\ StepInProgress

(* The section as init leaves it. *)
LEMMA RefinementInit == Init => RefinementInv
<1> SUFFICES ASSUME Init PROVE RefinementInv
  OBVIOUS
<1>1. Inv
  BY InitInv
<1>2. gen = 0 /\ pub.broker = broker
  BY DEF Init
<1> QED BY <1>1, <1>2 DEF RefinementInv, PublishedBroker, StepInProgress

(* Every step keeps what the refinement needs. *)
LEMMA RefinementStep == RefinementInv /\ [Next]_vars => RefinementInv'
<1> SUFFICES ASSUME RefinementInv, [Next]_vars PROVE RefinementInv'
  OBVIOUS
<1> USE DEF RefinementInv
<1>1. Inv'
  BY StepInv
<1>2. ASSUME NEW l \in Launcher, add_launcher(l) \/ remove_launcher(l) \/ rebuild(l)
      PROVE  PublishedBroker' /\ StepInProgress'
  BY <1>2, WriteBegins
<1>3. ASSUME UNCHANGED <<gen, broker, dead, pub, next>>
      PROVE  PublishedBroker' /\ StepInProgress'
  <2>1. (Joins <=> Joins') /\ (Leaves <=> Leaves') /\ (TakesOver <=> TakesOver')
    BY <1>3 DEF Joins, Leaves, TakesOver
  <2> QED BY <1>3, <2>1 DEF PublishedBroker, StepInProgress
<1>4. ASSUME StoreCell PROVE PublishedBroker' /\ StepInProgress'
  BY <1>3, <1>4 DEF StoreCell
<1>5. ASSUME end_write PROVE PublishedBroker' /\ StepInProgress'
  <2>1. /\ gen % 2 = 1 /\ broker # NoBroker /\ gen' = gen + 1 /\ pub' = next
        /\ UNCHANGED <<broker, dead, next>>
    BY <1>5 DEF end_write
  <2>2. gen \in Nat /\ pub \in Register
    BY DEF Inv, TypeOK
  <2>3. gen' % 2 = 0
    BY <2>1, <2>2
  <2>4. next.broker = pub.broker \/ next.broker = broker
    <3>1. CASE Joins
      BY <2>2, <3>1 DEF Joins, Register
    <3>2. CASE Leaves
      BY <2>2, <3>2 DEF Leaves, Register
    <3>3. CASE TakesOver
      BY <3>3 DEF TakesOver
    <3> QED BY <2>1, <3>1, <3>2, <3>3 DEF StepInProgress
  <2>5. PublishedBroker'
    BY <2>1, <2>4 DEF PublishedBroker
  <2> QED BY <2>3, <2>5 DEF StepInProgress
<1>6. ASSUME BrokerDies PROVE PublishedBroker' /\ StepInProgress'
  BY <1>6 DEF BrokerDies, PublishedBroker, StepInProgress
<1>7. ASSUME NEW r \in Reader, Call(r) \/ snapshot(r)
      PROVE  PublishedBroker' /\ StepInProgress'
  BY <1>3, <1>7 DEF Call, snapshot, LoadG1, LoadCell, LoadG2, section, writer
<1>8. ASSUME UNCHANGED vars PROVE PublishedBroker' /\ StepInProgress'
  BY <1>3, <1>8 DEF vars
<1>9. PublishedBroker' /\ StepInProgress'
  BY <1>2, <1>4, <1>5, <1>6, <1>7, <1>8 DEF Next
<1> QED BY <1>1, <1>9

(* A snapshot of cells that represent a register shows that register. *)
LEMMA AbstractSnapshot ==
    ASSUME NEW m, NEW p \in Register, Represents(m, p)
    PROVE  Abstract(FolderSectionSnapshot(p.gen, m)) = p
<1> DEFINE s == FolderSectionSnapshot(p.gen, m)
           shown == {s.launchers[i][1] : i \in DOMAIN s.launchers}
<1>1. s.generation = p.gen /\ s.broker[1] = p.broker /\ s.pipe_name[1] = p.pipe
  BY DEF FolderSectionSnapshot, Represents
<1>2. /\ DOMAIN s.launchers = 1 .. m[LaunchersLen]
      /\ \A i \in 1 .. m[LaunchersLen] : s.launchers[i][1] = m[SlotPid(i)]
  BY DEF FolderSectionSnapshot, LauncherSlot
<1>3. shown = p.members
  <2> HIDE DEF s
  <2>1. \A x \in shown : x \in p.members
    BY <1>2 DEF Represents
  <2>2. \A x \in p.members : x \in shown
    BY <1>2 DEF Represents
  <2> QED BY <2>1, <2>2
<1>4. Abstract(s) = [gen |-> s.generation, broker |-> s.broker[1], pipe |-> s.pipe_name[1],
                     members |-> shown]
  BY DEF Abstract
<1>5. p = [gen |-> p.gen, broker |-> p.broker, pipe |-> p.pipe, members |-> p.members]
  BY DEF Register
<1> HIDE DEF s, shown
<1> QED BY <1>1, <1>3, <1>4, <1>5 DEF s

(* What the readers have got, as the abstract specification sees it. *)
Seen == [r \in Reader |-> {Abstract(s) : s \in result[r]}]

(* The steps of a call of snapshot: nothing, an error or the register.      *)
LEMMA ReaderRefines ==
    ASSUME RefinementInv, NEW r \in Reader, Call(r) \/ snapshot(r)
    PROVE  /\ pub' = pub
           /\ \/ Seen' = Seen
              \/ Seen' = [Seen EXCEPT ![r] = {}]
              \/ Seen' = [Seen EXCEPT ![r] = {pub}]
<1>0. result \in [Reader -> SUBSET Snapshot] /\ pub \in Register
  BY DEF RefinementInv, Inv, TypeOK
<1>1. pub' = pub
  BY DEF Call, snapshot, LoadG1, LoadCell, LoadG2, writer
<1>2. CASE result' = result
  BY <1>1, <1>2 DEF Seen
<1>3. CASE result' = [result EXCEPT ![r] = {}]
  <2>1. \A q \in Reader : result'[q] = IF q = r THEN {} ELSE result[q]
    BY <1>0, <1>3
  <2>2. Seen' = [Seen EXCEPT ![r] = {}]
    BY <2>1 DEF Seen
  <2> QED BY <1>1, <2>2
<1>4. CASE /\ rd[r].pc = "g2" /\ gen = rd[r].g1
           /\ Return(r, {FolderSectionSnapshot(gen, rd[r].buf)})
  <2>1. rd[r].buf = mem /\ gen = pub.gen /\ Represents(mem, pub)
    BY <1>4, LoadG2Reads DEF RefinementInv
  <2>2. result' = [result EXCEPT ![r] = {FolderSectionSnapshot(pub.gen, mem)}]
    BY <1>4, <2>1 DEF Return
  <2>3. Abstract(FolderSectionSnapshot(pub.gen, mem)) = pub
    BY <1>0, <2>1, AbstractSnapshot
  <2>4. \A q \in Reader : result'[q] = IF q = r THEN {FolderSectionSnapshot(pub.gen, mem)}
                                       ELSE result[q]
    BY <1>0, <2>2
  <2>5. Seen' = [Seen EXCEPT ![r] = {pub}]
    BY <2>3, <2>4 DEF Seen
  <2> QED BY <1>1, <2>5
<1> QED
  BY <1>2, <1>3, <1>4 DEF Call, snapshot, LoadG1, LoadCell, LoadG2, Retry, Return

(* A call of end_write is the one step of its write.                       *)
LEMMA WriteRefines ==
    ASSUME RefinementInv, end_write
    PROVE  Seen' = Seen /\ \E l \in Launcher : Atomic!Join(l) \/ Atomic!Leave(l) \/ Atomic!TakeOver(l)
<1>1. /\ gen % 2 = 1 /\ broker # NoBroker /\ pub' = next /\ UNCHANGED result
  BY DEF end_write
<1>2. Seen' = Seen /\ pub \in Register
  BY <1>1 DEF Seen, RefinementInv, Inv, TypeOK
<1>3. CASE Joins
  <2>1. PICK l \in Launcher : /\ l \notin pub.members
                             /\ Cardinality(pub.members) < MaxLaunchers
                             /\ next = [pub EXCEPT !.gen = @ + 2, !.members = @ \cup {l}]
    BY <1>3 DEF Joins
  <2>2. Atomic!Cardinality(pub.members) = Cardinality(pub.members)
    BY DEF Atomic!Cardinality, Cardinality
  <2>3. Atomic!Join(l)
    BY <1>1, <1>2, <2>1, <2>2 DEF Atomic!Join, Seen
  <2> QED BY <1>2, <2>3
<1>4. CASE Leaves
  <2>1. pub.members \subseteq Launcher
    BY <1>2 DEF Register
  <2> QED BY <1>1, <1>2, <1>4, <2>1 DEF Leaves, Atomic!Leave, Seen
<1>5. CASE TakesOver
  BY <1>1, <1>2, <1>5 DEF TakesOver, Atomic!TakeOver, Seen
<1> QED BY <1>1, <1>2, <1>3, <1>4, <1>5 DEF RefinementInv, StepInProgress

(* The seqlock implements the register: for any number of launchers and    *)
(* readers, each completed write of the broker is one step of AtomicSection *)
(* (its stores, a broker's death and a started rebuild are none), and each  *)
(* call of snapshot reads the register at one instant or gives up.          *)
THEOREM SectionIsAtomic == Spec => ImplementsAtomicSection
<1>1. Init => Atomic!Init
  <2> SUFFICES ASSUME Init PROVE Atomic!Init
    OBVIOUS
  <2>1. result = [r \in Reader |-> {}]
        /\ \E b \in Launcher : pub = [gen |-> 0, broker |-> b, pipe |-> b, members |-> {}]
    BY DEF Init
  <2>2. Seen = [r \in Reader |-> {}]
    BY <2>1 DEF Seen
  <2> QED BY <2>1, <2>2 DEF Atomic!Init, Seen
<1>2. RefinementInv /\ [Next]_vars => [Atomic!Next]_(Atomic!vars)
  <2> SUFFICES ASSUME RefinementInv, [Next]_vars PROVE [Atomic!Next]_(Atomic!vars)
    OBVIOUS
  <2>1. ASSUME UNCHANGED <<pub, result>> PROVE UNCHANGED Atomic!vars
    BY <2>1 DEF Atomic!vars
  <2>2. ASSUME NEW l \in Launcher, add_launcher(l) \/ remove_launcher(l) \/ rebuild(l)
        PROVE  UNCHANGED Atomic!vars
    BY <2>1, <2>2 DEF add_launcher, remove_launcher, rebuild
  <2>3. ASSUME StoreCell \/ BrokerDies PROVE UNCHANGED Atomic!vars
    BY <2>1, <2>3 DEF StoreCell, BrokerDies
  <2>4. ASSUME end_write PROVE Atomic!Next
    BY <2>4, WriteRefines DEF Atomic!Next
  <2>5. ASSUME NEW r \in Reader, Call(r) \/ snapshot(r) PROVE [Atomic!Next]_(Atomic!vars)
    <3>1. CASE Seen' = Seen
      BY <2>5, <3>1, ReaderRefines DEF Atomic!vars, Seen
    <3>2. CASE Seen' = [Seen EXCEPT ![r] = {}]
      BY <2>5, <3>2, ReaderRefines DEF Atomic!Next, Atomic!GiveUp, Seen
    <3>3. CASE Seen' = [Seen EXCEPT ![r] = {pub}]
      BY <2>5, <3>3, ReaderRefines DEF Atomic!Next, Atomic!Snapshot, Seen
    <3> QED BY <2>5, <3>1, <3>2, <3>3, ReaderRefines
  <2>6. CASE UNCHANGED vars
    BY <2>1, <2>6 DEF vars
  <2> QED BY <2>2, <2>3, <2>4, <2>5, <2>6 DEF Next
<1> QED BY <1>1, <1>2, RefinementInit, RefinementStep, PTL
        DEF Spec, ImplementsAtomicSection, Atomic!Spec
=============================================================================
