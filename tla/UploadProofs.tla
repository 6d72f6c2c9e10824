----------------------------- MODULE UploadProofs -----------------------------
(***************************************************************************)
(* The inductive invariant of Upload, for every set of images that follow  *)
(* the format and are linked into the memories the BARs lead to.           *)
(***************************************************************************)
EXTENDS Upload, TLAPS

Prog    == Programs[prog]
Current == secNum + 1     \* the section that comes or is sent
Magic   == Sees(MAGIC_ADDR)

(* A section of l words after its size, which is word h, ends within n words. *)
LEMMA WithinImage ==
  \A h, l, n \in Nat : h + 2 + l <= n =>
    /\ h + 1 \in 1 .. n
    /\ \A j \in 1 .. l : h + 1 + j \in 1 .. n
    /\ \A i \in Nat : i <= l => h + 2 + i <= n + 1
OBVIOUS

(* The image that is uploaded, spelled out. *)
LEMMA ProgFacts ==
  ASSUME prog \in DOMAIN Programs
  PROVE  /\ IsImage(Prog) /\ IsLinked(Prog) /\ prog # 0
         /\ Len(Prog.image) \in Nat /\ Len(Prog.head) \in Nat
         /\ \A n \in 1 .. Len(Prog.image) : Prog.image[n] \in Nat
         /\ \A n \in 1 .. Len(Prog.head) : Prog.head[n] \in Nat
         /\ Entry[prog] \in Nat /\ Entry[prog] # 0
         /\ Image = Prog.image
<1>1. IsImage(Prog) /\ IsLinked(Prog) /\ prog # 0
  BY UploadAssumption DEF Prog
<1>2. Prog.image \in Seq(Nat) /\ Prog.head \in Seq(Nat)
  BY <1>1 DEF IsImage
<1>3. /\ Len(Prog.image) \in Nat /\ Len(Prog.head) \in Nat
      /\ \A n \in 1 .. Len(Prog.image) : Prog.image[n] \in Nat
      /\ \A n \in 1 .. Len(Prog.head) : Prog.head[n] \in Nat
  BY <1>2
<1>4. Len(Prog.image) >= 2
  BY <1>1, <1>3 DEF IsImage, Sections
<1>5. Entry[prog] = Prog.image[1]
  BY DEF Entry, Prog
<1>6. QED
  BY <1>1, <1>3, <1>4, <1>5 DEF IsImage, Image, Prog

(* A section, spelled out: where it is in the image and in memory. *)
LEMMA SectionFacts ==
  ASSUME prog \in DOMAIN Programs, NEW k \in Sections(Prog)
  PROVE  /\ k \in 1 .. Len(Prog.head) - 1
         /\ Prog.head[k] \in Nat /\ Prog.head[k] >= 2
         /\ Prog.head[k + 1] = Prog.head[k] + 2 + Length(Prog, k)
         /\ Prog.head[k + 1] <= Len(Prog.image)
         /\ SizeWord(Prog, k) \in Nat /\ SizeWord(Prog, k) > 0
         /\ Addr(Prog, k) \in Nat /\ Length(Prog, k) \in Nat
         /\ First(Prog, k) \in Nat
         /\ InMemory(Addr(Prog, k), Length(Prog, k))
<1>1. k \in 1 .. Len(Prog.head) - 1
  BY DEF Sections
<1>2. /\ Prog.head[k] >= 2 /\ Prog.head[k] + 1 < Len(Prog.image)
      /\ SizeWord(Prog, k) > 0
      /\ Prog.head[k + 1] = Prog.head[k] + 2 + Length(Prog, k)
      /\ Prog.head[k + 1] <= Len(Prog.image)
  BY ProgFacts DEF IsImage
<1>3. Prog.head[k] \in Nat
  BY <1>1, ProgFacts
<1>4. SizeWord(Prog, k) \in Nat /\ Addr(Prog, k) \in Nat
  <2>1. Prog.head[k] \in 1 .. Len(Prog.image) /\ Prog.head[k] + 1 \in 1 .. Len(Prog.image)
    <3>1. Len(Prog.image) \in Nat
      BY ProgFacts
    <3>2. QED
      BY <1>2, <1>3, <3>1
  <2>2. \A n \in 1 .. Len(Prog.image) : Prog.image[n] \in Nat
    BY ProgFacts
  <2>3. Prog.image[Prog.head[k]] \in Nat /\ Prog.image[Prog.head[k] + 1] \in Nat
    BY <2>1, <2>2
  <2>4. QED
    BY <2>3 DEF SizeWord, Addr
<1>5. Length(Prog, k) \in Nat
  BY <1>4 DEF Length
<1>6. First(Prog, k) \in Nat
  BY <1>4 DEF First, Sees, Segment
<1>7. InMemory(Addr(Prog, k), Length(Prog, k))
  BY ProgFacts DEF IsLinked
<1>8. QED
  BY <1>1, <1>2, <1>3, <1>4, <1>5, <1>6, <1>7

(* Rounding a size up and dividing it into words gives its length in words. *)
LEMMA RoundedWords ==
  ASSUME NEW size \in Nat
  PROVE  Rounded(size) = 4 * ((size + 3) \div 4)
BY DEF Rounded

(* The BAR CoreOf() chooses and the offset into it lead to the word core 0 sees
   at the address, and to those behind it, as far as the memory goes. *)
LEMMA Delivered ==
  ASSUME NEW addr \in Nat, NEW n \in Nat, NEW m \in 0 .. n, n > 0, InMemory(addr, n)
  PROVE  /\ Offset(CoreOf(addr), addr + m) \in Nat
         /\ Inbound(CoreOf(addr)) + Offset(CoreOf(addr), addr + m) = Sees(addr) + m
<1> USE DEF Offset, CoreOf, Inbound, Sees, Segment, GlobalL2, LL2_START, MSMC_START,
            DDR_START, L2Words, MsmcWords, DdrWords
<1>1. CASE addr >= LL2_START /\ addr + n <= LL2_START + L2Words
  <2>1. addr \div Segment = 0 /\ (addr + m) % Segment = addr + m
    BY <1>1
  <2>2. CoreOf(addr) = 0
    BY <2>1
  <2>3. QED
    BY <1>1, <2>1, <2>2
<1>2. CASE addr >= GlobalL2 /\ addr + n <= GlobalL2 + L2Words
  <2>1. addr \div Segment = 16 /\ (addr + m) % Segment = addr + m - 67108864
    BY <1>2
  <2>2. CoreOf(addr) = 0
    BY <2>1
  <2>3. QED
    BY <1>2, <2>1, <2>2
<1>3. CASE addr >= MSMC_START /\ addr + n <= MSMC_START + MsmcWords
  <2>1. addr \div Segment = 12
    BY <1>3
  <2>2. CoreOf(addr) = 8
    BY <2>1
  <2>3. QED
    BY <1>3, <2>1, <2>2
<1>4. CASE addr >= DDR_START /\ addr + n <= DDR_START + DdrWords
  <2>1. addr \div Segment \in 128 .. 132
    BY <1>4
  <2>2. CoreOf(addr) = 9
    BY <2>1
  <2>3. QED
    BY <1>4, <2>1, <2>2
<1>5. QED
  BY <1>1, <1>2, <1>3, <1>4 DEF InMemory

-----------------------------------------------------------------------------
(* The inductive invariant. *)

(* Memory m holds the first n words of section k. *)
Holds(m, k, n) ==
  \A j \in 1 .. n : /\ Place(Prog, k, j) \in DOMAIN m
                    /\ m[Place(Prog, k, j)] = Word(Prog, k, j)

(* Where uploadProgram() reads and writes at each point. *)
Position ==
  /\ pc = "entry" => pDspImg = 1 /\ secNum = 0
  /\ pc = "section" => /\ Current \in Sections(Prog)
                       /\ pDspImg = Prog.head[Current] + 1
                       /\ secSize = SizeWord(Prog, Current)
  /\ pc = "block" => /\ Current \in Sections(Prog)
                     /\ 64 * block <= Length(Prog, Current)
                     /\ pDspImg = Prog.head[Current] + 2 + 64 * block
                     /\ secSize = 4 * Length(Prog, Current)
                     /\ secStartAddr = Addr(Prog, Current) + 64 * block
                     /\ newCoreNum = CoreOf(Addr(Prog, Current))
  /\ pc \in {"magic", "done"} => pDspImg = Len(Prog.image) + 1 /\ Current = Len(Prog.head)
  /\ pc # "entry" => bootEntryAddr = Entry[prog]

(* What is in memory: the sections that are finished, the blocks that are sent,
   and the entry point at the end. *)
Contents ==
  /\ Magic \in DOMAIN mem
  /\ mem[Magic] = IF pc = "done" THEN Entry[prog] ELSE 0
  /\ \A k \in Sections(Prog) : k <= secNum => Holds(mem, k, Length(Prog, k))
  /\ pc = "block" => Holds(mem, Current, 64 * block)
  /\ rom # 0 => pc = "done" /\ rom = Entry[prog]

UploadInv == UploadTypeOK /\ Position /\ Contents /\ NothingElseWritten

LEMMA UploadInitInv == UploadInit => UploadInv
<1> SUFFICES ASSUME UploadInit PROVE UploadInv
  OBVIOUS
<1> USE DEF UploadInit
<1>1. /\ DOMAIN mem = {Magic} /\ mem[Magic] = 0 /\ Magic \in Nat
      /\ mem \in [DOMAIN mem -> Nat]
  BY DEF Magic, Sees, MAGIC_ADDR, Segment
<1>2. UploadTypeOK
  BY <1>1 DEF UploadTypeOK
<1>3. Position
  BY DEF Position
<1>4. Contents
  <2>1. \A k \in Sections(Prog) : ~ (k <= secNum)
    BY ProgFacts DEF Sections
  <2>2. QED
    BY <1>1, <2>1 DEF Contents
<1>5. NothingElseWritten
  BY <1>1 DEF NothingElseWritten, Magic
<1>6. QED
  BY <1>2, <1>3, <1>4, <1>5 DEF UploadInv

(* The word behind a section, or behind the entry point, is the size of the next
   section, or the 0 at the end. *)
LEMMA NextSize ==
  ASSUME prog \in DOMAIN Programs, NEW k \in 1 .. Len(Prog.head)
  PROVE  /\ k \in Sections(Prog) =>
              /\ Fetch(Prog.head[k]) = SizeWord(Prog, k)
              /\ After(Fetch(Prog.head[k])) = "section"
         /\ k \notin Sections(Prog) =>
              /\ k = Len(Prog.head) /\ Prog.head[k] = Len(Prog.image)
              /\ After(Fetch(Prog.head[k])) = "magic"
         /\ Fetch(Prog.head[k]) \in Nat
<1>1. CASE k \in Sections(Prog)
  <2>1. Prog.head[k] \in 1 .. Len(Image)
    <3>1. Prog.head[k] \in Nat /\ Prog.head[k] >= 2 /\ Prog.head[k + 1] <= Len(Prog.image)
          /\ Prog.head[k + 1] = Prog.head[k] + 2 + Length(Prog, k) /\ Length(Prog, k) \in Nat
      BY <1>1, SectionFacts
    <3>2. Len(Prog.image) \in Nat /\ Image = Prog.image
      BY ProgFacts
    <3>3. QED
      BY <3>1, <3>2
  <2>2. Fetch(Prog.head[k]) = SizeWord(Prog, k)
    BY <2>1 DEF Fetch, SizeWord, Image, Prog
  <2>3. SizeWord(Prog, k) \in Nat /\ SizeWord(Prog, k) > 0
    BY <1>1, SectionFacts
  <2>4. QED
    BY <1>1, <2>2, <2>3 DEF After
<1>2. CASE k \notin Sections(Prog)
  <2>1. Len(Prog.head) \in Nat /\ Len(Prog.image) \in Nat /\ Image = Prog.image
    BY ProgFacts
  <2>2. k = Len(Prog.head)
    BY <1>2, <2>1 DEF Sections
  <2>3. /\ Prog.head[k] = Len(Prog.image) /\ Prog.image[Len(Prog.image)] = 0
        /\ Prog.image[1] # 0 /\ IsImage(Prog)
    BY <2>2, ProgFacts DEF IsImage
  <2>4. Prog.head[k] \in Nat
    BY ProgFacts
  <2>5. Fetch(Prog.head[k]) = 0
    BY <2>1, <2>3, <2>4 DEF Fetch
  <2>6. QED
    BY <1>2, <2>2, <2>3, <2>5 DEF After
<1>3. QED
  BY <1>1, <1>2

(* What is read from the image behind the blocks that are sent. *)
LEMMA Buffered ==
  ASSUME prog \in DOMAIN Programs, NEW k \in Sections(Prog), NEW j \in 1 .. Length(Prog, k)
  PROVE  /\ Fetch(Prog.head[k] + 1 + j) = Word(Prog, k, j)
         /\ Word(Prog, k, j) \in Nat
<1>1. /\ Prog.head[k] \in Nat /\ Length(Prog, k) \in Nat
      /\ Prog.head[k] + 2 + Length(Prog, k) <= Len(Prog.image)
  BY SectionFacts
<1>2. Len(Prog.image) \in Nat /\ Image = Prog.image
  BY ProgFacts
<1>3. Prog.head[k] + 1 + j \in 1 .. Len(Prog.image)
  BY <1>1, <1>2, WithinImage
<1>4. Prog.image[Prog.head[k] + 1 + j] \in Nat
  BY <1>3, ProgFacts
<1>5. QED
  BY <1>2, <1>3, <1>4 DEF Fetch, Word

(* Sections are apart from each other and from the word at MAGIC_ADDR. *)
LEMMA Apart ==
  ASSUME prog \in DOMAIN Programs, NEW k \in Sections(Prog)
  PROVE  /\ Magic \notin First(Prog, k) .. First(Prog, k) + Length(Prog, k) - 1
         /\ \A l \in Sections(Prog) : \A j \in 1 .. Length(Prog, l) :
              l < k => Place(Prog, l, j)
                         \notin First(Prog, k) .. First(Prog, k) + Length(Prog, k) - 1
<1>0. First(Prog, k) \in Nat /\ Length(Prog, k) \in Nat /\ Magic \in Nat
  BY SectionFacts DEF Magic, Sees, MAGIC_ADDR, Segment
<1>1. Magic \notin First(Prog, k) .. First(Prog, k) + Length(Prog, k) - 1
  <2>1. ~ (First(Prog, k) <= Magic /\ Magic < First(Prog, k) + Length(Prog, k))
    BY ProgFacts DEF IsLinked, Magic
  <2>2. QED
    BY <1>0, <2>1
<1>2. ASSUME NEW l \in Sections(Prog), NEW j \in 1 .. Length(Prog, l), l < k
      PROVE  Place(Prog, l, j) \notin First(Prog, k) .. First(Prog, k) + Length(Prog, k) - 1
  <2>1. \/ First(Prog, l) + Length(Prog, l) <= First(Prog, k)
        \/ First(Prog, k) + Length(Prog, k) <= First(Prog, l)
    BY <1>2, ProgFacts DEF IsLinked
  <2>2. First(Prog, l) \in Nat /\ Length(Prog, l) \in Nat
    BY SectionFacts
  <2>3. QED
    BY <1>0, <2>1, <2>2 DEF Place
<1>3. QED
  BY <1>1, <1>2

(* The target of the next n words: right behind what is there of the section. *)
LEMMA Target ==
  ASSUME prog \in DOMAIN Programs, Position, pc = "block", block \in Nat,
         NEW n \in Nat, 64 * block + n <= Length(Prog, Current)
  PROVE  LET first == First(Prog, Current) + 64 * block
         IN  /\ first \in Nat
             /\ Written(newCoreNum, secStartAddr, TempArray(n), n) =
                  [a \in DOMAIN mem \cup (first .. first + n - 1) |->
                     IF a \in first .. first + n - 1
                     THEN Fetch(pDspImg + (a - first)) ELSE mem[a]]
<1> DEFINE k     == Current
           addr  == Addr(Prog, k)
           first == First(Prog, k) + 64 * block
<1>1. k \in Sections(Prog) /\ secStartAddr = addr + 64 * block /\ newCoreNum = CoreOf(addr)
  BY DEF Position
<1>2. /\ addr \in Nat /\ Length(Prog, k) \in Nat /\ Length(Prog, k) > 0
      /\ First(Prog, k) \in Nat /\ InMemory(addr, Length(Prog, k))
  <2>1. SizeWord(Prog, k) \in Nat /\ SizeWord(Prog, k) > 0
    BY <1>1, SectionFacts
  <2>2. Length(Prog, k) > 0
    BY <2>1 DEF Length
  <2>3. QED
    BY <1>1, <2>2, SectionFacts
<1>3. /\ Offset(newCoreNum, secStartAddr) \in Nat
      /\ Inbound(newCoreNum) + Offset(newCoreNum, secStartAddr) = Sees(addr) + 64 * block
  <2>1. 64 * block \in 0 .. Length(Prog, k)
    BY <1>2
  <2> HIDE DEF k, addr
  <2>2. QED
    BY <1>1, <1>2, <2>1, Delivered
<1>4. Inbound(newCoreNum) + Offset(newCoreNum, secStartAddr) = first /\ first \in Nat
  BY <1>2, <1>3 DEF First
<1>5. Accepts(newCoreNum, secStartAddr, n) <=> n > 0
  BY <1>3 DEF Accepts
<1>6. (IF Accepts(newCoreNum, secStartAddr, n) THEN first .. first + n - 1 ELSE {})
        = first .. first + n - 1
  <2>1. n = 0 => first .. first + n - 1 = {}
    BY <1>4
  <2>2. n = 0 \/ n > 0
    OBVIOUS
  <2>3. CASE n = 0
    <3>1. ~ Accepts(newCoreNum, secStartAddr, n)
      BY <2>3, <1>5
    <3>2. QED
      BY <2>1, <2>3, <3>1, Zenon
  <2>4. CASE n > 0
    <3>1. Accepts(newCoreNum, secStartAddr, n)
      BY <2>4, <1>5
    <3>2. QED
      BY <3>1, Zenon
  <2>5. QED
    BY <2>2, <2>3, <2>4
<1> DEFINE target == first .. first + n - 1
<1>7. Written(newCoreNum, secStartAddr, TempArray(n), n) =
        [a \in DOMAIN mem \cup target |-> IF a \in target THEN TempArray(n)[a - first] ELSE mem[a]]
  BY <1>4, <1>6 DEF Written
<1>8. \A a \in target : TempArray(n)[a - first] = Fetch(pDspImg + (a - first))
  BY <1>4 DEF TempArray
<1>9. QED
  BY <1>4, <1>7, <1>8

(* Memory m, after n more words of a section are written: they are there, and
   nothing else has changed. *)
LEMMA Wrote ==
  ASSUME UploadInv, pc = "block", NEW n \in Nat, 64 * block + n <= Length(Prog, Current),
         NEW m, m = Written(newCoreNum, secStartAddr, TempArray(n), n)
  PROVE  /\ m \in [DOMAIN m -> Nat]
         /\ Magic \in DOMAIN m /\ m[Magic] = mem[Magic]
         /\ \A k \in Sections(Prog) : k <= secNum => Holds(m, k, Length(Prog, k))
         /\ Holds(m, Current, 64 * block + n)
         /\ \A a \in DOMAIN m : a = Magic \/ InSection(Prog, a)
<1> DEFINE k      == Current
           first  == First(Prog, k) + 64 * block
           target == first .. first + n - 1
           extent == First(Prog, k) .. First(Prog, k) + Length(Prog, k) - 1
<1>0. /\ prog \in DOMAIN Programs /\ block \in Nat /\ secNum \in Nat
      /\ mem \in [DOMAIN mem -> Nat]
  BY DEF UploadInv, UploadTypeOK
<1>1. k \in Sections(Prog) /\ pDspImg = Prog.head[k] + 2 + 64 * block
  BY DEF UploadInv, Position
<1>2. /\ First(Prog, k) \in Nat /\ Length(Prog, k) \in Nat /\ Prog.head[k] \in Nat
      /\ k \in Nat
  BY <1>0, <1>1, SectionFacts
<1>3. /\ DOMAIN m = DOMAIN mem \cup target
      /\ \A a \in target : m[a] = Fetch(pDspImg + (a - first))
      /\ \A a \in DOMAIN mem \ target : m[a] = mem[a]
      /\ m = [a \in DOMAIN m |-> m[a]]
  <2>1. /\ first \in Nat
        /\ m = [a \in DOMAIN mem \cup target |->
                  IF a \in target THEN Fetch(pDspImg + (a - first)) ELSE mem[a]]
    BY <1>0, Target DEF UploadInv
  <2> HIDE DEF first, target
  <2>2. QED
    BY <2>1
<1>4. ASSUME NEW j \in 64 * block + 1 .. 64 * block + n
      PROVE  /\ Place(Prog, k, j) \in target
             /\ m[Place(Prog, k, j)] = Word(Prog, k, j) /\ Word(Prog, k, j) \in Nat
  <2>1. j \in 1 .. Length(Prog, k) /\ j \in Nat
    BY <1>0, <1>2
  <2>2. Place(Prog, k, j) \in target /\ Place(Prog, k, j) - first = j - 1 - 64 * block
    BY <1>0, <1>2, <2>1 DEF Place
  <2>3. pDspImg + (Place(Prog, k, j) - first) = Prog.head[k] + 1 + j
    BY <1>0, <1>1, <1>2, <2>1, <2>2
  <2>4. Fetch(Prog.head[k] + 1 + j) = Word(Prog, k, j) /\ Word(Prog, k, j) \in Nat
    BY <1>0, <1>1, <2>1, Buffered
  <2>5. QED
    BY <1>3, <2>2, <2>3, <2>4
<1>5. \A a \in target : \E j \in 64 * block + 1 .. 64 * block + n : a = Place(Prog, k, j)
  <2>1. SUFFICES ASSUME NEW a \in target
                 PROVE  \E j \in 64 * block + 1 .. 64 * block + n : a = Place(Prog, k, j)
    OBVIOUS
  <2>2. a \in Int /\ a - First(Prog, k) + 1 \in 64 * block + 1 .. 64 * block + n
    BY <1>0, <1>2
  <2>3. a = Place(Prog, k, a - First(Prog, k) + 1)
    BY <1>2, <2>2 DEF Place
  <2>4. QED
    BY <2>2, <2>3
<1>6. m \in [DOMAIN m -> Nat]
  <2>1. \A a \in DOMAIN m : m[a] \in Nat
    BY <1>0, <1>3, <1>4, <1>5
  <2>2. QED
    BY <1>3, <2>1
<1>7. target \subseteq extent
  BY <1>0, <1>2
<1>8. Magic \in DOMAIN m /\ m[Magic] = mem[Magic]
  <2>1. Magic \in DOMAIN mem
    BY DEF UploadInv, Contents
  <2>2. Magic \notin target
    BY <1>0, <1>1, <1>7, Apart
  <2>3. QED
    BY <1>3, <2>1, <2>2
<1>9. ASSUME NEW l \in Sections(Prog), l <= secNum
      PROVE  Holds(m, l, Length(Prog, l))
  <2>1. Holds(mem, l, Length(Prog, l))
    BY <1>9 DEF UploadInv, Contents
  <2>2. \A j \in 1 .. Length(Prog, l) : Place(Prog, l, j) \notin target
    <3>1. l \in Nat /\ l < k
      <4>1. l \in Nat
        BY <1>0, SectionFacts
      <4>2. QED
        BY <1>0, <1>9, <4>1 DEF Current
    <3>2. QED
      BY <1>0, <1>1, <1>7, <3>1, Apart
  <2>3. QED
    BY <1>3, <2>1, <2>2 DEF Holds
<1>10. Holds(m, k, 64 * block + n)
  <2>1. Holds(mem, k, 64 * block)
    BY DEF UploadInv, Contents
  <2>2. ASSUME NEW j \in 1 .. 64 * block + n
        PROVE  Place(Prog, k, j) \in DOMAIN m /\ m[Place(Prog, k, j)] = Word(Prog, k, j)
    <3>1. CASE j <= 64 * block
      <4>1. j \in 1 .. 64 * block
        BY <1>0, <3>1
      <4>2. Place(Prog, k, j) \in DOMAIN mem /\ mem[Place(Prog, k, j)] = Word(Prog, k, j)
        BY <2>1, <4>1 DEF Holds
      <4>3. Place(Prog, k, j) \notin target
        BY <1>0, <1>2, <4>1 DEF Place
      <4>4. QED
        BY <1>3, <4>2, <4>3
    <3>2. CASE j > 64 * block
      <4>1. j \in 64 * block + 1 .. 64 * block + n
        BY <1>0, <3>2
      <4>2. QED
        BY <1>3, <1>4, <4>1
    <3>3. QED
      BY <1>0, <3>1, <3>2
  <2>3. QED
    BY <2>2 DEF Holds
<1>11. ASSUME NEW a \in DOMAIN m
       PROVE  a = Magic \/ InSection(Prog, a)
  <2>1. CASE a \in target
    <3>1. First(Prog, k) <= a /\ a < First(Prog, k) + Length(Prog, k)
      BY <1>2, <1>7, <2>1
    <3>2. QED
      BY <1>1, <3>1 DEF InSection
  <2>2. CASE a \in DOMAIN mem
    BY <2>2 DEF UploadInv, NothingElseWritten, Magic, Prog
  <2>3. QED
    BY <1>3, <2>1, <2>2
<1>12. QED
  BY <1>6, <1>8, <1>9, <1>10, <1>11

-----------------------------------------------------------------------------
(* Every step keeps the invariant. *)

LEMMA StepReadEntry == UploadInv /\ ReadEntry => UploadInv'
<1> SUFFICES ASSUME UploadInv, ReadEntry PROVE UploadInv'
  OBVIOUS
<1>1. /\ prog \in DOMAIN Programs /\ pc = "entry" /\ secNum = 0 /\ pDspImg = 1
      /\ UNCHANGED <<prog, secNum, secStartAddr, newCoreNum, block, retValue, mem, rom>>
      /\ bootEntryAddr' = Fetch(1) /\ secSize' = Fetch(2) /\ pDspImg' = 3
      /\ pc' = After(Fetch(2))
  BY DEF ReadEntry, UploadInv, UploadTypeOK, Position
<1>2. /\ Len(Prog.head) \in Nat /\ Len(Prog.head) >= 1 /\ Prog.head[1] = 2
      /\ Len(Prog.image) \in Nat /\ Len(Prog.image) >= 1 /\ Image = Prog.image
  <2>1. /\ Len(Prog.head) \in Nat /\ Len(Prog.image) \in Nat /\ IsImage(Prog)
        /\ Image = Prog.image
    BY <1>1, ProgFacts
  <2>2. Len(Prog.head) >= 1 /\ Prog.head[1] = 2 /\ Len(Prog.image) = Prog.head[Len(Prog.head)]
    BY <2>1 DEF IsImage
  <2>3. 1 \in Sections(Prog) \/ Len(Prog.head) = 1
    <3>1. Len(Prog.head) \in Nat /\ Len(Prog.head) >= 1
      BY <2>1, <2>2
    <3>2. \A n \in Nat : n >= 1 => 1 \in 1 .. n - 1 \/ n = 1
      OBVIOUS
    <3>3. QED
      BY <3>1, <3>2 DEF Sections
  <2>4. CASE 1 \in Sections(Prog)
    <3>1. Prog.head[1] \in Nat /\ Prog.head[2] <= Len(Prog.image) /\ Length(Prog, 1) \in Nat
          /\ Prog.head[2] = Prog.head[1] + 2 + Length(Prog, 1)
      BY <1>1, <2>4, SectionFacts
    <3>2. QED
      BY <2>1, <2>2, <3>1
  <2>5. CASE Len(Prog.head) = 1
    BY <2>1, <2>2, <2>5
  <2>6. QED
    BY <2>3, <2>4, <2>5
<1>3. bootEntryAddr' = Entry[prog] /\ Entry[prog] \in Nat
  <2>1. Fetch(1) = Prog.image[1]
    BY <1>2 DEF Fetch
  <2>2. Entry[prog] = Prog.image[1]
    BY <1>1 DEF Entry, Prog
  <2>3. QED
    BY <1>1, <2>1, <2>2, ProgFacts
<1>4. /\ 1 \in Sections(Prog) => secSize' = SizeWord(Prog, 1) /\ pc' = "section"
      /\ 1 \notin Sections(Prog) =>
           pc' = "magic" /\ Len(Prog.head) = 1 /\ Len(Prog.image) = 2
      /\ secSize' \in Nat
  <2>1. 1 \in 1 .. Len(Prog.head)
    BY <1>2
  <2>2. QED
    BY <1>1, <1>2, <2>1, NextSize
<1>5. Prog' = Prog /\ Current' = 1 /\ Current = 1
  BY <1>1 DEF Prog, Current
<1>6. Position'
  <2>1. CASE 1 \in Sections(Prog)
    BY <1>1, <1>2, <1>3, <1>4, <1>5, <2>1 DEF Position, Sections, SizeWord
  <2>2. CASE 1 \notin Sections(Prog)
    <3>1. pc' = "magic" /\ Len(Prog.head) = 1 /\ Len(Prog.image) = 2
      BY <1>4, <2>2
    <3>4. pDspImg' = Len(Prog.image) + 1 /\ Current' = Len(Prog.head)
      BY <1>1, <1>5, <3>1
    <3>2. bootEntryAddr' = Entry[prog']
      BY <1>1, <1>3
    <3>3. QED
      BY <1>5, <3>1, <3>2, <3>4 DEF Position, Entry
  <2>3. QED
    BY <2>1, <2>2
<1>7. UploadTypeOK'
  BY <1>1, <1>3, <1>4 DEF UploadTypeOK, UploadInv
<1>8. Contents'
  <2>1. pc' \in {"section", "magic"}
    BY <1>4
  <2>2. QED
    BY <1>1, <1>5, <2>1 DEF Contents, UploadInv, Magic, Holds, Place, First, Addr, Word,
       Sections, Length, SizeWord, Entry
<1>9. NothingElseWritten'
  BY <1>1 DEF NothingElseWritten, UploadInv
<1>10. QED
  BY <1>6, <1>7, <1>8, <1>9 DEF UploadInv

LEMMA StepBeginSection == UploadInv /\ BeginSection => UploadInv'
<1> SUFFICES ASSUME UploadInv, BeginSection PROVE UploadInv'
  OBVIOUS
<1> DEFINE k == Current
<1>1. /\ prog \in DOMAIN Programs /\ pc = "section" /\ pc' = "block"
      /\ k \in Sections(Prog) /\ pDspImg = Prog.head[k] + 1 /\ secSize = SizeWord(Prog, k)
      /\ bootEntryAddr = Entry[prog]
      /\ secSize' = Rounded(secSize) /\ secStartAddr' = Fetch(pDspImg)
      /\ newCoreNum' = CoreOf(Fetch(pDspImg)) /\ pDspImg' = pDspImg + 1 /\ block' = 0
      /\ UNCHANGED <<prog, secNum, bootEntryAddr, retValue, mem, rom>>
  BY DEF BeginSection, UploadInv, UploadTypeOK, Position
<1>2. /\ Prog.head[k] \in Nat /\ Prog.head[k] >= 2 /\ SizeWord(Prog, k) \in Nat
      /\ Length(Prog, k) \in Nat /\ Addr(Prog, k) \in Nat
      /\ Prog.head[k] + 2 + Length(Prog, k) <= Len(Prog.image)
  BY <1>1, SectionFacts
<1>3. Fetch(pDspImg) = Addr(Prog, k)
  <2>1. Len(Prog.image) \in Nat /\ Image = Prog.image
    BY <1>1, ProgFacts
  <2>2. pDspImg = Prog.head[k] + 1
    BY <1>1
  <2>3. Prog.head[k] + 1 \in 1 .. Len(Prog.image)
    BY <1>2, <2>1, WithinImage
  <2>4. QED
    BY <2>1, <2>2, <2>3 DEF Fetch, Addr
<1>4. secSize' = 4 * Length(Prog, k)
  BY <1>1, <1>2, RoundedWords DEF Length
<1>5. Prog' = Prog /\ Current' = Current
  BY <1>1 DEF Prog, Current
<1>6. Position'
  <2>1. /\ pDspImg' = Prog.head[k] + 2 + 64 * block' /\ 64 * block' <= Length(Prog, k)
        /\ secStartAddr' = Addr(Prog, k) + 64 * block'
    <3>1. pDspImg' = Prog.head[k] + 1 + 1 /\ secStartAddr' = Addr(Prog, k) /\ block' = 0
      BY <1>1, <1>3
    <3>2. Prog.head[k] \in Nat /\ Length(Prog, k) \in Nat /\ Addr(Prog, k) \in Nat
      BY <1>2
    <3>3. \A h \in Nat : h + 1 + 1 = h + 2 + 64 * 0 /\ h = h + 64 * 0 /\ 64 * 0 <= h
      OBVIOUS
    <3>4. QED
      BY <3>1, <3>2, <3>3
  <2>2. newCoreNum' = CoreOf(Addr(Prog, k))
    BY <1>1, <1>3
  <2>3. QED
    BY <1>1, <1>4, <1>5, <2>1, <2>2 DEF Position, Sections, Length, Addr, SizeWord, Entry
<1>7. UploadTypeOK'
  <2>1. pDspImg' \in Nat /\ secSize' \in Nat /\ secStartAddr' \in Nat
    <3>1. pDspImg' = Prog.head[k] + 1 + 1 /\ secStartAddr' = Addr(Prog, k)
      BY <1>1, <1>3
    <3>2. Prog.head[k] \in Nat /\ Length(Prog, k) \in Nat /\ Addr(Prog, k) \in Nat
      BY <1>2
    <3>3. QED
      BY <1>4, <3>1, <3>2
  <2>2. newCoreNum' \in {0, 8, 9}
    BY <1>1 DEF CoreOf
  <2>3. QED
    BY <1>1, <2>1, <2>2 DEF UploadTypeOK, UploadInv
<1>8. Contents'
  BY <1>1, <1>5 DEF Contents, UploadInv, Magic, Holds, Place, First, Addr, Word,
     Sections, Length, SizeWord, Entry
<1>9. NothingElseWritten'
  BY <1>1 DEF NothingElseWritten, UploadInv
<1>10. QED
  BY <1>6, <1>7, <1>8, <1>9 DEF UploadInv

LEMMA StepSendBlock == UploadInv /\ SendBlock => UploadInv'
<1> SUFFICES ASSUME UploadInv, SendBlock PROVE UploadInv'
  OBVIOUS
<1> DEFINE k == Current
<1>1. /\ prog \in DOMAIN Programs /\ pc = "block" /\ block < Count /\ block \in Nat
      /\ k \in Sections(Prog) /\ pDspImg = Prog.head[k] + 2 + 64 * block
      /\ secSize = 4 * Length(Prog, k) /\ secStartAddr = Addr(Prog, k) + 64 * block
      /\ newCoreNum = CoreOf(Addr(Prog, k)) /\ bootEntryAddr = Entry[prog]
      /\ mem' = Written(newCoreNum, secStartAddr, TempArray(64), 64)
      /\ pDspImg' = pDspImg + 64 /\ secStartAddr' = secStartAddr + 64 /\ block' = block + 1
      /\ UNCHANGED <<prog, pc, secNum, secSize, newCoreNum, bootEntryAddr, retValue, rom>>
  BY DEF SendBlock, UploadInv, UploadTypeOK, Position, BlockWords, BLOCK_TRANSFER_SIZE
<1>2. /\ Prog.head[k] \in Nat /\ Length(Prog, k) \in Nat /\ Addr(Prog, k) \in Nat
  BY <1>1, SectionFacts
<1>3. 64 * block + 64 <= Length(Prog, k)
  BY <1>1, <1>2 DEF Count, BLOCK_TRANSFER_SIZE
<1>4. /\ mem' \in [DOMAIN mem' -> Nat]
      /\ Magic \in DOMAIN mem' /\ mem'[Magic] = mem[Magic]
      /\ \A l \in Sections(Prog) : l <= secNum => Holds(mem', l, Length(Prog, l))
      /\ Holds(mem', k, 64 * block + 64)
      /\ \A a \in DOMAIN mem' : a = Magic \/ InSection(Prog, a)
  BY <1>1, <1>3, Wrote
<1>5. Prog' = Prog /\ Current' = Current
  BY <1>1 DEF Prog, Current
<1>6. Position'
  <2>1. /\ pDspImg' = Prog.head[k] + 2 + 64 * block' /\ 64 * block' <= Length(Prog, k)
        /\ secStartAddr' = Addr(Prog, k) + 64 * block'
    BY <1>1, <1>2, <1>3
  <2>2. QED
    BY <1>1, <1>5, <2>1 DEF Position, Sections, Length, Addr, SizeWord, Entry
<1>7. UploadTypeOK'
  <2>1. pDspImg' \in Nat /\ secStartAddr' \in Nat /\ block' \in Nat
    BY <1>1, <1>2
  <2>2. QED
    BY <1>1, <1>4, <2>1 DEF UploadTypeOK, UploadInv
<1>8. Contents'
  <2>1. mem[Magic] = 0 /\ rom = 0
    BY <1>1 DEF UploadInv, Contents
  <2>2. Magic' = Magic /\ 64 * block' = 64 * block + 64
    BY <1>1 DEF Magic
  <2>3. \A l, n : Holds(mem, l, n)' <=> Holds(mem', l, n)
    BY <1>1 DEF Holds, Place, First, Addr, Word, Prog
  <2>4. Sections(Prog)' = Sections(Prog) /\ \A l : Length(Prog, l)' = Length(Prog, l)
    BY <1>1 DEF Sections, Length, SizeWord, Prog
  <2>5. \A l \in Sections(Prog)' : l <= secNum' => Holds(mem, l, Length(Prog, l))'
    BY <1>1, <1>4, <2>3, <2>4
  <2>6. Holds(mem, Current, 64 * block)'
    BY <1>1, <1>4, <1>5, <2>2 DEF Holds, Place, First, Addr, Word
  <2>7. QED
    BY <1>1, <1>4, <2>1, <2>2, <2>5, <2>6 DEF Contents
<1>9. NothingElseWritten'
  BY <1>1, <1>4 DEF NothingElseWritten, Magic, Prog
<1>10. QED
  BY <1>6, <1>7, <1>8, <1>9 DEF UploadInv

LEMMA StepSendRemainder == UploadInv /\ SendRemainder => UploadInv'
<1> SUFFICES ASSUME UploadInv, SendRemainder PROVE UploadInv'
  OBVIOUS
<1> DEFINE k    == Current
           rest == Length(Prog, k) - 64 * block
           next == Prog.head[k + 1]
<1>1. /\ prog \in DOMAIN Programs /\ pc = "block" /\ block = Count /\ block \in Nat
      /\ secNum \in Nat /\ k \in Sections(Prog) /\ pDspImg = Prog.head[k] + 2 + 64 * block
      /\ 64 * block <= Length(Prog, k) /\ secSize = 4 * Length(Prog, k)
      /\ bootEntryAddr = Entry[prog]
  BY DEF SendRemainder, UploadInv, UploadTypeOK, Position
<1>2. /\ Prog.head[k] \in Nat /\ Length(Prog, k) \in Nat /\ k \in 1 .. Len(Prog.head) - 1
      /\ next = Prog.head[k] + 2 + Length(Prog, k)
  BY <1>1, SectionFacts
<1>3. (secSize - Count * BLOCK_TRANSFER_SIZE) \div 4 = rest
  <2>1. \A n, b \in Nat : 64 * b <= n => (4 * n - b * 256) \div 4 = n - 64 * b
    OBVIOUS
  <2>2. /\ secSize = 4 * Length(Prog, k) /\ 64 * block <= Length(Prog, k) /\ Count = block
        /\ Length(Prog, k) \in Nat /\ block \in Nat
    BY <1>1, <1>2
  <2>3. QED
    BY <2>1, <2>2 DEF BLOCK_TRANSFER_SIZE
<1>4. rest \in Nat /\ pDspImg + rest = next /\ next \in Nat /\ 64 * block + rest = Length(Prog, k)
  <2>1. \A n, b, h \in Nat : 64 * b <= n => /\ n - 64 * b \in Nat
                                           /\ h + 2 + 64 * b + (n - 64 * b) = h + 2 + n
                                           /\ h + 2 + n \in Nat /\ 64 * b + (n - 64 * b) = n
    OBVIOUS
  <2>2. /\ pDspImg = Prog.head[k] + 2 + 64 * block /\ 64 * block <= Length(Prog, k)
        /\ Length(Prog, k) \in Nat /\ block \in Nat /\ Prog.head[k] \in Nat
        /\ next = Prog.head[k] + 2 + Length(Prog, k)
    BY <1>1, <1>2
  <2> HIDE DEF next
  <2>3. QED
    BY <2>1, <2>2
<1>5. /\ mem' = Written(newCoreNum, secStartAddr, TempArray(rest), rest)
      /\ secSize' = Fetch(next) /\ pDspImg' = next + 1 /\ pc' = After(Fetch(next))
      /\ secNum' = secNum + 1
      /\ UNCHANGED <<prog, secStartAddr, newCoreNum, block, bootEntryAddr, retValue, rom>>
  <2> HIDE DEF rest, next
  <2>1. QED
    BY <1>3, <1>4 DEF SendRemainder
<1>6. /\ mem' \in [DOMAIN mem' -> Nat]
      /\ Magic \in DOMAIN mem' /\ mem'[Magic] = mem[Magic]
      /\ \A l \in Sections(Prog) : l <= secNum => Holds(mem', l, Length(Prog, l))
      /\ Holds(mem', k, Length(Prog, k))
      /\ \A a \in DOMAIN mem' : a = Magic \/ InSection(Prog, a)
  <2>1. 64 * block + rest <= Length(Prog, k)
    BY <1>2, <1>4
  <2>2. Holds(mem', k, 64 * block + rest) /\ rest \in Nat
    <3> HIDE DEF rest
    <3>1. QED
      BY <1>1, <1>4, <1>5, <2>1, Wrote
  <2> HIDE DEF rest
  <2>3. QED
    BY <1>1, <1>4, <1>5, <2>1, <2>2, Wrote
<1>7. Prog' = Prog /\ Current' = k + 1 /\ Current' \in 1 .. Len(Prog.head)
      /\ k = secNum + 1
  <2>1. Len(Prog.head) \in Nat
    BY <1>1, ProgFacts
  <2>2. QED
    BY <1>1, <1>2, <1>5, <2>1 DEF Prog, Current
<1>8. /\ Current' \in Sections(Prog) => secSize' = SizeWord(Prog, Current') /\ pc' = "section"
      /\ Current' \notin Sections(Prog) =>
           pc' = "magic" /\ Current' = Len(Prog.head) /\ next = Len(Prog.image)
      /\ secSize' \in Nat
  BY <1>1, <1>5, <1>7, NextSize
<1>9. Position'
  <2>1. CASE Current' \in Sections(Prog)
    BY <1>1, <1>5, <1>7, <1>8, <2>1 DEF Position, Sections, SizeWord, Entry
  <2>2. CASE Current' \notin Sections(Prog)
    <3>1. pDspImg' = Len(Prog.image) + 1
      BY <1>5, <1>8, <2>2
    <3>2. QED
      BY <1>1, <1>5, <1>7, <1>8, <2>2, <3>1 DEF Position, Entry
  <2>3. QED
    BY <2>1, <2>2
<1>10. UploadTypeOK'
  <2>1. pDspImg' \in Nat /\ pc' \in {"section", "magic"} /\ secNum' \in Nat
    BY <1>1, <1>4, <1>5, <1>8
  <2>2. QED
    BY <1>1, <1>5, <1>6, <1>8, <2>1 DEF UploadTypeOK, UploadInv
<1>11. Contents'
  <2>1. mem[Magic] = 0 /\ rom = 0 /\ pc' \in {"section", "magic"}
    BY <1>1, <1>8 DEF UploadInv, Contents
  <2>2. Magic' = Magic
    BY DEF Magic
  <2>3. \A l \in Sections(Prog) : l <= secNum' => Holds(mem', l, Length(Prog, l))
    <3>1. SUFFICES ASSUME NEW l \in Sections(Prog), l <= secNum'
                   PROVE  Holds(mem', l, Length(Prog, l))
      OBVIOUS
    <3>2. l \in Nat
      BY <1>1, SectionFacts
    <3>3. l <= secNum \/ l = k
      BY <1>1, <1>5, <1>7, <3>1, <3>2
    <3>4. QED
      BY <1>6, <3>3
  <2>4. \A l, n : Holds(mem, l, n)' <=> Holds(mem', l, n)
    BY <1>5 DEF Holds, Place, First, Addr, Word, Prog
  <2>5. Sections(Prog)' = Sections(Prog) /\ \A l : Length(Prog, l)' = Length(Prog, l)
    BY <1>5 DEF Sections, Length, SizeWord, Prog
  <2>6. \A l \in Sections(Prog)' : l <= secNum' => Holds(mem, l, Length(Prog, l))'
    BY <2>3, <2>4, <2>5
  <2>7. QED
    BY <1>5, <1>6, <2>1, <2>2, <2>6 DEF Contents
<1>12. NothingElseWritten'
  BY <1>5, <1>6 DEF NothingElseWritten, Magic, Prog
<1>13. QED
  BY <1>9, <1>10, <1>11, <1>12 DEF UploadInv

(* The write to MAGIC_ADDR is accepted and hits the word the ROM polls. *)
LEMMA MagicWritten ==
  /\ WriteResult(0, MAGIC_ADDR, 1) = 4
  /\ mem \in [DOMAIN mem -> Nat] /\ Magic \in DOMAIN mem =>
       Written(0, MAGIC_ADDR, [j \in {0} |-> bootEntryAddr], 1)
         = [mem EXCEPT ![Magic] = bootEntryAddr]
<1>1. Offset(0, MAGIC_ADDR) = 131071
  BY DEF Offset, MAGIC_ADDR, LL2_START, Segment
<1>2. Accepts(0, MAGIC_ADDR, 1)
  BY <1>1 DEF Accepts
<1>3. WriteResult(0, MAGIC_ADDR, 1) = 4
  BY <1>2 DEF WriteResult
<1>4. Inbound(0) + Offset(0, MAGIC_ADDR) = Magic /\ Magic \in Nat
  BY <1>1 DEF Inbound, GlobalL2, LL2_START, Magic, Sees, MAGIC_ADDR, Segment
<1>5. ASSUME mem \in [DOMAIN mem -> Nat], Magic \in DOMAIN mem
      PROVE  Written(0, MAGIC_ADDR, [j \in {0} |-> bootEntryAddr], 1)
               = [mem EXCEPT ![Magic] = bootEntryAddr]
  <2>1. Magic .. Magic + 1 - 1 = {Magic} /\ Magic - Magic = 0
    BY <1>4
  <2>2. Written(0, MAGIC_ADDR, [j \in {0} |-> bootEntryAddr], 1) =
          [a \in DOMAIN mem \cup {Magic} |->
             IF a \in {Magic} THEN [j \in {0} |-> bootEntryAddr][a - Magic] ELSE mem[a]]
    BY <1>2, <1>4, <2>1 DEF Written
  <2>3. DOMAIN mem \cup {Magic} = DOMAIN mem
    BY <1>5
  <2>4. \A a \in DOMAIN mem :
          (IF a \in {Magic} THEN [j \in {0} |-> bootEntryAddr][a - Magic] ELSE mem[a])
            = [mem EXCEPT ![Magic] = bootEntryAddr][a]
    BY <2>1
  <2>5. QED
    BY <2>2, <2>3, <2>4
<1>6. QED
  BY <1>3, <1>5

LEMMA StepPublishEntry == UploadInv /\ PublishEntry => UploadInv'
<1> SUFFICES ASSUME UploadInv, PublishEntry PROVE UploadInv'
  OBVIOUS
<1>1. /\ prog \in DOMAIN Programs /\ pc = "magic" /\ pc' = "done" /\ secNum \in Nat
      /\ mem \in [DOMAIN mem -> Nat] /\ Magic \in DOMAIN mem
      /\ bootEntryAddr = Entry[prog] /\ Entry[prog] \in Nat
      /\ UNCHANGED <<prog, pDspImg, secNum, secSize, secStartAddr, newCoreNum, block,
                     bootEntryAddr, rom>>
  BY ProgFacts DEF PublishEntry, UploadInv, UploadTypeOK, Position, Contents
<1>2. mem' = [mem EXCEPT ![Magic] = Entry[prog]] /\ retValue' = 0
  BY <1>1, MagicWritten DEF PublishEntry
<1>3. /\ DOMAIN mem' = DOMAIN mem /\ mem'[Magic] = Entry[prog]
      /\ \A a \in DOMAIN mem : a # Magic => mem'[a] = mem[a]
      /\ mem' \in [DOMAIN mem' -> Nat]
  BY <1>1, <1>2
<1>4. Prog' = Prog /\ Current' = Current /\ Magic' = Magic
  BY <1>1 DEF Prog, Current, Magic
<1>5. Position'
  <2>1. pDspImg = Len(Prog.image) + 1 /\ Current = Len(Prog.head)
    BY <1>1 DEF UploadInv, Position
  <2>2. QED
    BY <1>1, <1>4, <2>1 DEF Position, Entry
<1>6. UploadTypeOK'
  BY <1>1, <1>2, <1>3 DEF UploadTypeOK, UploadInv
<1>7. Contents'
  <2>1. ASSUME NEW k \in Sections(Prog), k <= secNum
        PROVE  Holds(mem', k, Length(Prog, k))
    <3>1. Holds(mem, k, Length(Prog, k))
      BY <2>1 DEF UploadInv, Contents
    <3>2. \A j \in 1 .. Length(Prog, k) : Place(Prog, k, j) # Magic
      <4>1. First(Prog, k) \in Nat /\ Length(Prog, k) \in Nat
        BY <1>1, SectionFacts
      <4>2. Magic \notin First(Prog, k) .. First(Prog, k) + Length(Prog, k) - 1
        BY <1>1, Apart
      <4>3. \A j \in 1 .. Length(Prog, k) :
              Place(Prog, k, j) \in First(Prog, k) .. First(Prog, k) + Length(Prog, k) - 1
        BY <4>1 DEF Place
      <4>4. QED
        BY <4>2, <4>3
    <3>3. QED
      BY <1>3, <3>1, <3>2 DEF Holds
  <2>2. \A l, n : Holds(mem, l, n)' <=> Holds(mem', l, n)
    BY <1>1 DEF Holds, Place, First, Addr, Word, Prog
  <2>3. Sections(Prog)' = Sections(Prog) /\ \A l : Length(Prog, l)' = Length(Prog, l)
    BY <1>1 DEF Sections, Length, SizeWord, Prog
  <2>4. \A l \in Sections(Prog)' : l <= secNum' => Holds(mem, l, Length(Prog, l))'
    BY <1>1, <2>1, <2>2, <2>3
  <2>5. rom' = 0
    BY <1>1 DEF UploadInv, Contents
  <2>6. Entry[prog]' = Entry[prog]
    BY <1>1 DEF Entry
  <2>7. QED
    BY <1>1, <1>3, <1>4, <2>4, <2>5, <2>6 DEF Contents
<1>8. NothingElseWritten'
  BY <1>1, <1>3 DEF NothingElseWritten, UploadInv
<1>9. QED
  BY <1>5, <1>6, <1>7, <1>8 DEF UploadInv

LEMMA StepRom == UploadInv /\ RomStarts => UploadInv'
<1> SUFFICES ASSUME UploadInv, RomStarts PROVE UploadInv'
  OBVIOUS
<1>1. /\ rom' = mem[Magic] /\ mem[Magic] # 0
      /\ UNCHANGED <<prog, pc, pDspImg, secNum, secSize, secStartAddr, newCoreNum, block,
                     bootEntryAddr, retValue, mem>>
  BY DEF RomStarts, Magic
<1>2. pc = "done" /\ mem[Magic] = Entry[prog] /\ prog \in DOMAIN Programs
  BY <1>1 DEF UploadInv, Contents, UploadTypeOK
<1>3. rom' \in Nat
  BY <1>1, <1>2, ProgFacts
<1>4. UploadTypeOK'
  BY <1>1, <1>3 DEF UploadTypeOK, UploadInv
<1>5. Position'
  BY <1>1 DEF Position, UploadInv, Prog, Current, Sections, Length, Addr, SizeWord, Entry
<1>6. Contents'
  BY <1>1, <1>2 DEF Contents, UploadInv, Magic, Holds, Place, First, Addr, Word, Prog,
     Current, Sections, Length, SizeWord, Entry
<1>7. NothingElseWritten'
  BY <1>1 DEF NothingElseWritten, UploadInv
<1>8. QED
  BY <1>4, <1>5, <1>6, <1>7 DEF UploadInv

LEMMA UploadStutter == UploadInv /\ UNCHANGED uploadVars => UploadInv'
BY DEF UploadInv, uploadVars, UploadTypeOK, Position, Contents, NothingElseWritten, Magic,
   Holds, Place, First, Addr, Word, Prog, Current, Sections, Length, SizeWord, Entry

LEMMA UploadStep == UploadInv /\ [UploadNext]_uploadVars => UploadInv'
BY StepReadEntry, StepBeginSection, StepSendBlock, StepSendRemainder, StepPublishEntry,
   StepRom, UploadStutter DEF UploadNext, UploadProgram

-----------------------------------------------------------------------------
(* What the invariant says of an upload. *)

(* Once all sections are finished, the image is present. *)
LEMMA FinishedPresent ==
  ASSUME UploadInv, pc \in {"magic", "done"}
  PROVE  Present(Programs[prog])
<1>1. prog \in DOMAIN Programs /\ secNum = Len(Prog.head) - 1
  <2>1. /\ prog \in DOMAIN Programs /\ secNum \in Nat /\ Current = Len(Prog.head)
    BY DEF UploadInv, UploadTypeOK, Position
  <2>2. QED
    BY <2>1 DEF Current
<1>2. \A k \in Sections(Prog) : k <= secNum
  BY <1>1, ProgFacts DEF Sections
<1>3. \A k \in Sections(Prog) : Holds(mem, k, Length(Prog, k))
  BY <1>2 DEF UploadInv, Contents
<1>4. QED
  BY <1>3 DEF Present, Holds, Prog

LEMMA InvWhole == UploadInv => ProgramWhole
BY FinishedPresent DEF UploadInv, Contents, ProgramWhole

LEMMA InvConsumed == UploadInv => ImageConsumed
<1> SUFFICES ASSUME UploadInv PROVE ImageConsumed
  OBVIOUS
<1>0. /\ prog \in DOMAIN Programs /\ secNum \in Nat /\ block \in Nat
      /\ pc \in {"entry", "section", "block", "magic", "done"} /\ Position
  BY DEF UploadInv, UploadTypeOK
<1>1. Len(Image) \in Nat /\ Image = Prog.image
  BY <1>0, ProgFacts
<1>2. CASE pc = "entry"
  BY <1>0, <1>1, <1>2 DEF Position, ImageConsumed
<1>3. CASE pc \in {"magic", "done"}
  <2>1. pDspImg = Len(Prog.image) + 1 /\ secNum = Len(Prog.head) - 1
    BY <1>0, <1>3 DEF Position, Current
  <2>2. QED
    BY <1>1, <2>1 DEF ImageConsumed, Prog
<1>4. CASE pc \in {"section", "block"}
  <2>1. Current \in Sections(Prog)
    BY <1>0, <1>4 DEF Position
  <2>2. /\ Prog.head[Current] \in Nat /\ Length(Prog, Current) \in Nat
        /\ Prog.head[Current] + 2 + Length(Prog, Current) <= Len(Prog.image)
    BY <1>0, <2>1, SectionFacts
  <2>3. CASE pc = "section"
    <3>1. pDspImg = Prog.head[Current] + 1
      BY <1>0, <2>3 DEF Position
    <3>2. Prog.head[Current] + 1 \in 1 .. Len(Prog.image)
      BY <1>1, <2>2, WithinImage
    <3>3. QED
      BY <1>1, <2>3, <3>1, <3>2 DEF ImageConsumed
  <2>4. CASE pc = "block"
    <3>1. /\ pDspImg = Prog.head[Current] + 2 + 64 * block
          /\ 64 * block <= Length(Prog, Current) /\ 64 * block \in Nat
      BY <1>0, <2>4 DEF Position
    <3>2. Prog.head[Current] + 2 + 64 * block <= Len(Prog.image) + 1
      BY <1>1, <2>2, <3>1, WithinImage
    <3>3. QED
      BY <1>1, <2>4, <3>1, <3>2 DEF ImageConsumed
  <2>5. QED
    BY <1>4, <2>3, <2>4
<1>5. QED
  BY <1>0, <1>2, <1>3, <1>4

(* The refinement: the program is loaded in the step that writes MAGIC_ADDR, and
   every other step but the jump is a stutter. *)
Loaded == IF mem[Sees(MAGIC_ADDR)] # 0 /\ Present(Programs[prog]) THEN prog ELSE 0

LoadedIsDone == Loaded = IF pc = "done" THEN prog ELSE 0

LEMMA LoadedWhenDone == UploadInv => LoadedIsDone
<1> SUFFICES ASSUME UploadInv PROVE LoadedIsDone
  OBVIOUS
<1>1. mem[Sees(MAGIC_ADDR)] = IF pc = "done" THEN Entry[prog] ELSE 0
  BY DEF UploadInv, Contents, Magic
<1>2. Entry[prog] # 0
  BY ProgFacts DEF UploadInv, UploadTypeOK
<1>3. pc = "done" => Present(Programs[prog])
  BY FinishedPresent
<1>4. QED
  BY <1>1, <1>2, <1>3 DEF LoadedIsDone, Loaded

LEMMA LoadedNext == UploadInv' => LoadedIsDone'
BY LoadedWhenDone, PTL

LEMMA LoadInit == UploadInit => Load!Init
BY DEF UploadInit, Load!Init

LEMMA LoadStep ==
  ASSUME UploadInv, [UploadNext]_uploadVars
  PROVE  [Load!Next]_<<prog, Loaded, rom>>
<1>0. /\ prog \in DOMAIN Programs /\ prog # 0
      /\ Loaded = (IF pc = "done" THEN prog ELSE 0)
      /\ Loaded' = (IF pc' = "done" THEN prog' ELSE 0)
      /\ [n \in DOMAIN Programs |-> n][prog] = prog
  <2>1. prog \in DOMAIN Programs /\ prog # 0
    BY ProgFacts DEF UploadInv, UploadTypeOK
  <2>2. QED
    BY <2>1, LoadedWhenDone, LoadedNext, UploadStep DEF LoadedIsDone
<1>1. CASE PublishEntry
  <2>1. Loaded = 0 /\ Loaded' = prog /\ UNCHANGED <<prog, rom>>
    BY <1>0, <1>1 DEF PublishEntry
  <2>2. Load!Load
    BY <1>0, <2>1 DEF Load!Load, Loaded
  <2>3. QED
    BY <2>2 DEF Load!Next
<1>2. CASE RomStarts
  <2>1. pc = "done" /\ mem[Magic] = Entry[prog]
    BY <1>2 DEF RomStarts, UploadInv, Contents, Magic
  <2>2. Loaded = prog /\ Loaded' = Loaded /\ prog' = prog /\ rom = 0 /\ rom' = Entry[prog]
    BY <1>0, <1>2, <2>1 DEF RomStarts, Magic
  <2>3. Load!Start
    BY <1>0, <2>2 DEF Load!Start, Loaded
  <2>4. QED
    BY <2>3 DEF Load!Next
<1>3. CASE ReadEntry \/ BeginSection \/ SendBlock \/ SendRemainder \/ UNCHANGED uploadVars
  <2>1. UNCHANGED <<prog, rom>> /\ (pc' = pc \/ (pc # "done" /\ pc' # "done"))
    BY <1>3 DEF ReadEntry, BeginSection, SendBlock, SendRemainder, After, uploadVars
  <2>2. Loaded' = Loaded
    BY <1>0, <2>1
  <2>3. QED
    BY <2>1, <2>2
<1>4. QED
  BY <1>1, <1>2, <1>3 DEF UploadNext, UploadProgram
=============================================================================
