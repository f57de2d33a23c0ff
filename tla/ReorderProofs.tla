---------------------------- MODULE ReorderProofs ---------------------------
(***************************************************************************)
(* Proofs about the receive reorder window, for every size of the window   *)
(* and of the sequence number space, and any number of frames.             *)
(***************************************************************************)
EXTENDS Reorder, FiniteSetTheorems, SequenceTheorems, WellFoundedInduction, TLAPS

Types ==
  /\ head \in Nat /\ headN \in Nat /\ win \in 0 .. WinMax
  /\ buf \in [Slots -> Nat \cup {None}]
  /\ base \in Nat /\ next \in Nat /\ ssn \in Nat /\ apWin \in Nat

(* In contents b every frame sits in its slot, at most w - 1 places beyond *)
(* frame number h.                                                         *)
Fits(b, h, w) ==
  \A i \in Slots : b[i] # None => Slot(b[i]) = i /\ h <= b[i] /\ b[i] < h + w

(* The session's window: head stands for headN, everything buffered lies   *)
(* strictly beyond it, and before its first frame the window is where the  *)
(* ADDBA put it.                                                           *)
WindowInv ==
  /\ active => store /\ win >= 1 /\ head = headN % SNSize
  /\ Fits(buf, headN, win)
  /\ \A i \in Slots : buf[i] # None => active /\ headN # buf[i]
  /\ active /\ ~started => headN = ssn /\ \A i \in Slots : buf[i] = None

StoredInv == stored = Cardinality(Occupied(buf))

(* No frame up to here was sent in this session.                           *)
Top == (IF base < ssn THEN ssn ELSE base) + WinMax

(* What the access point's window keeps true: its frames stay within half  *)
(* the sequence space of head, so the modular comparisons mean what they   *)
(* say.                                                                    *)
ApInv ==
  /\ base <= next
  /\ active =>
       /\ apWin = 0 \/ apWin = win
       /\ ssn <= headN /\ headN <= Top
       /\ ssn - base + WinMax < SNSize \div 2
       /\ base + win - headN < SNSize \div 2
  /\ \A i \in Slots : buf[i] # None => buf[i] < Top /\ buf[i] < next

IInv == Types /\ WindowInv /\ StoredInv /\ ApInv
-----------------------------------------------------------------------------
(* Division with remainder.                                                *)
LEMMA ModDef ==
  ASSUME NEW a \in Int, NEW m \in Nat \ {0}
  PROVE  a % m \in 0 .. m - 1 /\ (a \div m) \in Int /\ a = m * (a \div m) + (a % m)
  OBVIOUS

(* A product with a positive factor is at least that factor.               *)
LEMMA ProductBound ==
  ASSUME NEW d \in Int, NEW m \in Nat \ {0}, m * d > 0 - m, m * d < m
  PROVE  d = 0
  <1>1. CASE d >= 1
    <2>1. m * d >= m
      BY <1>1
    <2>. QED BY <2>1
  <1>2. CASE d <= 0 - 1
    <2>1. m * d <= 0 - m
      BY <1>2
    <2>. QED BY <2>1
  <1>. QED BY <1>1, <1>2

(* The remainder is unique.                                                *)
LEMMA ModUnique ==
  ASSUME NEW a \in Int, NEW m \in Nat \ {0}, NEW q \in Int, NEW r \in 0 .. m - 1,
         a = m * q + r
  PROVE  a % m = r
  <1>1. a % m \in 0 .. m - 1 /\ (a \div m) \in Int /\ a = m * (a \div m) + (a % m)
    BY ModDef
  <1>. DEFINE d == (a \div m) - q
  <1>2. d \in Int /\ m * d = m * (a \div m) - m * q
    BY <1>1
  <1>3. m * d = r - (a % m)
    BY <1>1, <1>2
  <1>4. d = 0
    <2>1. m * d > 0 - m /\ m * d < m
      BY <1>1, <1>3
    <2>. QED BY <1>2, <2>1, ProductBound
  <1>5. m * d = 0
    BY <1>4
  <1>. QED BY <1>1, <1>3, <1>5

(* A shift by a multiple of the modulus does not change the remainder.     *)
LEMMA ModShift ==
  ASSUME NEW a \in Int, NEW m \in Nat \ {0}, NEW q \in Int
  PROVE  (a + m * q) % m = a % m
  <1>. DEFINE u == a \div m
  <1>1. a % m \in 0 .. m - 1 /\ u \in Int /\ a = m * u + (a % m)
    BY ModDef
  <1>2. m * (u + q) = m * u + m * q
    BY <1>1
  <1>3. m * q \in Int
    OBVIOUS
  <1>. HIDE DEF u
  <1>4. a + m * q = m * (u + q) + (a % m)
    BY <1>1, <1>2, <1>3
  <1>5. u + q \in Int /\ a + m * q \in Int
    BY <1>1, <1>3
  <1>6. \A b, p \in Int : b = m * p + (a % m) => b % m = a % m
    BY <1>1, ModUnique
  <1>. QED BY <1>4, <1>5, <1>6, Zenon

(* The difference of two remainders stands for a small difference of the   *)
(* numbers: this is what rtw_sn_sub and rtw_sn_less compute with.          *)
LEMMA ModDifference ==
  ASSUME NEW a \in Int, NEW b \in Int, NEW m \in Nat \ {0}
  PROVE  ((a % m) - (b % m)) % m = (a - b) % m
  <1>. DEFINE u == a \div m
              v == b \div m
  <1>1. a % m \in 0 .. m - 1 /\ u \in Int /\ a = m * u + (a % m)
    BY ModDef
  <1>2. b % m \in 0 .. m - 1 /\ v \in Int /\ b = m * v + (b % m)
    BY ModDef
  <1>. HIDE DEF u, v
  <1>3. m * (v - u) = m * v - m * u /\ m * v \in Int /\ m * u \in Int
    BY <1>1, <1>2
  <1>4. (a % m) - (b % m) = (a - b) + m * (v - u)
    BY <1>1, <1>2, <1>3
  <1>5. a - b \in Int /\ v - u \in Int
    BY <1>1, <1>2
  <1>6. ((a - b) + m * (v - u)) % m = (a - b) % m
    BY <1>5, ModShift, Zenon
  <1>. QED BY <1>4, <1>6, Zenon

(* Adding inside the remainder.                                            *)
LEMMA ModSum ==
  ASSUME NEW a \in Int, NEW k \in Int, NEW m \in Nat \ {0}
  PROVE  ((a % m) + k) % m = (a + k) % m
  <1>. DEFINE u == a \div m
  <1>1. a % m \in 0 .. m - 1 /\ u \in Int /\ a = m * u + (a % m)
    BY ModDef
  <1>. HIDE DEF u
  <1>2. m * u \in Int /\ m * (0 - u) = 0 - (m * u)
    BY <1>1
  <1>3. (a % m) + k = (a + k) + m * (0 - u)
    <2>1. \A r, w \in Int : a = w + r => r + k = (a + k) + (0 - w)
      BY SMT
    <2>2. (a % m) \in Int
      BY <1>1
    <2>3. (a % m) + k = (a + k) + (0 - m * u)
      BY <1>1, <1>2, <2>1, <2>2, Zenon
    <2>. QED BY <1>2, <2>3, Zenon
  <1>4. a + k \in Int /\ 0 - u \in Int
    BY <1>1
  <1>5. ((a + k) + m * (0 - u)) % m = (a + k) % m
    BY <1>4, ModShift, Zenon
  <1>. QED BY <1>3, <1>5, Zenon

(* A number between 0 and the modulus is its own remainder, one just       *)
(* below 0 wraps.                                                          *)
LEMMA ModSmall ==
  ASSUME NEW a \in Int, NEW m \in Nat \ {0}
  PROVE  /\ 0 <= a /\ a < m => a % m = a
         /\ a < 0 /\ 0 - m <= a => a % m = a + m
  <1>1. ASSUME 0 <= a, a < m PROVE a % m = a
    <2>1. a = m * 0 + a
      OBVIOUS
    <2>. QED BY <1>1, <2>1, ModUnique
  <1>2. ASSUME a < 0, 0 - m <= a PROVE a % m = a + m
    <2>1. a = m * (0 - 1) + (a + m)
      OBVIOUS
    <2>2. a + m \in 0 .. m - 1
      BY <1>2
    <2>. QED BY <2>1, <2>2, ModUnique
  <1>. QED BY <1>1, <1>2

(* Two numbers with the same remainder that are less than the modulus      *)
(* apart are equal.                                                        *)
LEMMA ModInjective ==
  ASSUME NEW a \in Int, NEW b \in Int, NEW m \in Nat \ {0},
         a % m = b % m, a - b < m, b - a < m
  PROVE  a = b
  <1>1. ((a % m) - (b % m)) % m = (a - b) % m
    BY ModDifference
  <1>2. a % m \in Int /\ b % m \in Int
    BY ModDef
  <1>3. (a % m) - (b % m) = 0
    BY <1>2
  <1>4. 0 % m = 0
    BY ModSmall
  <1>5. (a - b) % m = 0
    BY <1>1, <1>3, <1>4
  <1>. QED BY <1>5, ModSmall

(* The sequence number of a frame picks the slot that its number picks.    *)
LEMMA SlotOfNumber ==
  ASSUME NEW a \in Int, NEW k \in Int
  PROVE  Slot((a % SNSize) + k) = Slot(a + k)
  <1>0. SNSize \in Nat \ {0} /\ WinMax \in Nat \ {0}
    BY ReorderConstants
  <1>. DEFINE u == a \div SNSize
              p == SNSize \div WinMax
  <1>1. a % SNSize \in Int /\ u \in Int /\ a = SNSize * u + (a % SNSize)
    BY <1>0, ModDef
  <1>2. p \in Int /\ SNSize = WinMax * p + (SNSize % WinMax)
    BY <1>0, ModDef
  <1>. HIDE DEF u, p
  <1>3. SNSize = WinMax * p
    BY <1>0, <1>2, ReorderConstants
  <1>4. SNSize * u = WinMax * (p * u) /\ p * u \in Int
    BY <1>0, <1>1, <1>2, <1>3
  <1>5. WinMax * (0 - p * u) = 0 - (WinMax * (p * u))
    BY <1>0, <1>4
  <1>6. (a % SNSize) + k = (a + k) + WinMax * (0 - p * u)
    BY <1>0, <1>1, <1>4, <1>5
  <1>7. a + k \in Int /\ 0 - p * u \in Int
    BY <1>1, <1>4
  <1>8. ((a + k) + WinMax * (0 - p * u)) % WinMax = (a + k) % WinMax
    BY <1>0, <1>7, ModShift, Zenon
  <1>. QED BY <1>6, <1>8, Zenon DEF Slot
-----------------------------------------------------------------------------
(* The sizes, and what half the sequence space is.                         *)
LEMMA Sizes ==
  /\ SNSize \in Nat \ {0} /\ WinMax \in Nat \ {0} /\ 2 * WinMax < SNSize
  /\ SNSize \div 2 \in Nat
  /\ 2 * (SNSize \div 2) <= SNSize /\ SNSize <= 2 * (SNSize \div 2) + 1
  BY ReorderConstants

(* The sequence numbers of two frames less than half the space apart       *)
(* compare like the frames.                                                *)
LEMMA LessIsBehind ==
  ASSUME NEW a \in Nat, NEW b \in Nat, a - b <= SNSize \div 2, 2 * (b - a) < SNSize
  PROVE  rtw_sn_less(a % SNSize, b % SNSize) <=> a < b
  <1>1. rtw_sn_less(a % SNSize, b % SNSize) <=> (a - b) % SNSize > SNSize \div 2
    <2>1. a \in Int /\ b \in Int /\ SNSize \in Nat \ {0}
      BY Sizes
    <2>2. ((a % SNSize) - (b % SNSize)) % SNSize = (a - b) % SNSize
      BY <2>1, ModDifference, Zenon
    <2>. QED BY <2>2, Zenon DEF rtw_sn_less
  <1>2. CASE a < b
    <2>1. a - b \in Int /\ a - b < 0 /\ 0 - SNSize <= a - b
      BY <1>2, Sizes
    <2>2. (a - b) % SNSize = (a - b) + SNSize
      BY <2>1, Sizes, ModSmall
    <2>3. (a - b) + SNSize > SNSize \div 2
      BY Sizes
    <2>. QED BY <1>1, <1>2, <2>2, <2>3
  <1>3. CASE ~(a < b)
    <2>1. a - b \in Int /\ a - b >= 0 /\ a - b < SNSize
      BY <1>3, Sizes
    <2>2. (a - b) % SNSize = a - b
      BY <2>1, Sizes, ModSmall
    <2>. QED BY <1>1, <1>3, <2>2, Sizes
  <1>. QED BY <1>2, <1>3

(* Head moves forward to the frame that the new head stands for.           *)
LEMMA HeadMoves ==
  ASSUME NEW H \in Nat, headN \in Nat, head = headN % SNSize,
         headN <= H, H < headN + SNSize, MoveHead(H % SNSize)
  PROVE  head' = H % SNSize /\ headN' = H
  <1>1. rtw_sn_sub(H % SNSize, head) = (H - headN) % SNSize
    <2>1. H \in Int /\ headN \in Int /\ SNSize \in Nat \ {0}
      BY Sizes
    <2>2. ((H % SNSize) - (headN % SNSize)) % SNSize = (H - headN) % SNSize
      BY <2>1, ModDifference, Zenon
    <2>. QED BY <2>2, Zenon DEF rtw_sn_sub
  <1>2. H - headN \in Int /\ 0 <= H - headN /\ H - headN < SNSize
    BY Sizes
  <1>3. (H - headN) % SNSize = H - headN
    BY <1>2, Sizes, ModSmall
  <1>. QED BY <1>1, <1>3 DEF MoveHead

Contents == [Slots -> Nat \cup {None}]

(* A slot is what a number picks.                                          *)
LEMMA SlotType ==
  ASSUME NEW a \in Int
  PROVE  Slot(a) \in Slots
  BY Sizes, ModDef DEF Slot, Slots

(* Frames less than a window apart never share a slot.                     *)
LEMMA SlotInjective ==
  ASSUME NEW a \in Int, NEW b \in Int, Slot(a) = Slot(b), a - b < WinMax, b - a < WinMax
  PROVE  a = b
  BY Sizes, ModInjective DEF Slot

(* The slot k places from head holds frame headN + k or nothing.           *)
LEMMA SlotHolds ==
  ASSUME NEW b \in Contents, NEW H \in Nat, NEW w \in 0 .. WinMax, Fits(b, H, w),
         NEW k \in 0 .. WinMax - 1
  PROVE  /\ b[Slot(H + k)] \in {None, H + k}
         /\ b[Slot((H % SNSize) + k)] = b[Slot(H + k)]
  <1>1. Slot((H % SNSize) + k) = Slot(H + k)
    BY SlotOfNumber
  <1>2. Slot(H + k) \in Slots /\ H + k \in Int
    BY SlotType
  <1>3. ASSUME b[Slot(H + k)] # None PROVE b[Slot(H + k)] = H + k
    <2>. DEFINE f == b[Slot(H + k)]
    <2>1. f \in Nat /\ Slot(f) = Slot(H + k) /\ H <= f /\ f < H + w
      BY <1>2, <1>3 DEF Fits, Contents
    <2>. HIDE DEF f
    <2>2. f - (H + k) < WinMax /\ (H + k) - f < WinMax
      BY <2>1, Sizes
    <2>3. f = H + k
      BY <1>2, <2>1, <2>2, SlotInjective
    <2>. QED BY <2>3 DEF f
  <1>. QED BY <1>1, <1>3

(* What a walk over the window hands up: frame numbers counted from head.  *)
LEMMA WindowValue ==
  ASSUME NEW b \in Contents, NEW H \in Nat, NEW w \in 0 .. WinMax, Fits(b, H, w),
         NEW len \in 0 .. WinMax
  PROVE  /\ DOMAIN Window(b, H % SNSize, len) = 1 .. len
         /\ Window(b, H % SNSize, len) \in Seq(Int)
         /\ Len(Window(b, H % SNSize, len)) = len
         /\ \A k \in 1 .. len : Window(b, H % SNSize, len)[k] \in {None, H + k - 1}
         /\ \A i \in Slots : b[i] # None /\ b[i] < H + len =>
              /\ b[i] - H + 1 \in 1 .. len
              /\ Window(b, H % SNSize, len)[b[i] - H + 1] = b[i]
  <1>. DEFINE W == Window(b, H % SNSize, len)
  <1>1. H % SNSize \in Int /\ None \in Int
    BY Sizes, ModDef DEF None
  <1>2. \A k \in 1 .. len : W[k] = b[Slot((H % SNSize) + (k - 1))]
    BY <1>1 DEF Window
  <1>3. \A k \in 1 .. len : k - 1 \in 0 .. WinMax - 1
    BY Sizes
  <1>4. DOMAIN W = 1 .. len
    BY DEF Window
  <1>5. \A k \in 1 .. len : W[k] = b[Slot(H + (k - 1))] /\ W[k] \in {None, H + (k - 1)}
    BY <1>2, <1>3, SlotHolds
  <1>6. \A k \in 1 .. len : W[k] \in {None, H + k - 1}
    BY <1>5
  <1>7. W \in Seq(Int) /\ Len(W) = len
    <2>1. \A k \in 1 .. len : W[k] \in Int
      BY <1>1, <1>6
    <2>2. len \in Nat
      OBVIOUS
    <2>3. W = [k \in 1 .. len |-> W[k]]
      BY DEF Window
    <2>. HIDE DEF W
    <2>4. W \in [1 .. len -> Int]
      BY <2>1, <2>3
    <2>. QED BY <1>4, <2>2, <2>4
  <1>8. ASSUME NEW i \in Slots, b[i] # None, b[i] < H + len
        PROVE  b[i] - H + 1 \in 1 .. len /\ W[b[i] - H + 1] = b[i]
    <2>. DEFINE f == b[i]
    <2>1. f \in Nat /\ Slot(f) = i /\ H <= f /\ f < H + len
      BY <1>8 DEF Fits, Contents
    <2>2. b[i] = f
      OBVIOUS
    <2>. HIDE DEF f, W
    <2>3. f - H + 1 \in 1 .. len /\ H + ((f - H + 1) - 1) = f
      BY <2>1
    <2>. QED BY <1>5, <2>1, <2>2, <2>3
  <1>. QED BY <1>4, <1>6, <1>7, <1>8
(* What is left after the walk: the frames beyond it, where they were.     *)
LEMMA ClearValue ==
  ASSUME NEW b \in Contents, NEW H \in Nat, NEW w \in 0 .. WinMax, Fits(b, H, w),
         NEW len \in 0 .. WinMax
  PROVE  /\ Clear(b, H % SNSize, len) \in Contents
         /\ \A i \in Slots :
              Clear(b, H % SNSize, len)[i] =
                IF b[i] # None /\ b[i] < H + len THEN None ELSE b[i]
  <1>. DEFINE C == Clear(b, H % SNSize, len)
  <1>1. \A i \in Slots : C[i] = IF \E k \in 0 .. len - 1 : i = Slot(H + k) THEN None ELSE b[i]
    <2>1. \A k \in 0 .. len - 1 : Slot((H % SNSize) + k) = Slot(H + k)
      BY SlotOfNumber
    <2>. QED BY <2>1 DEF Clear
  <1>2. ASSUME NEW i \in Slots, b[i] # None, b[i] < H + len
        PROVE  \E k \in 0 .. len - 1 : i = Slot(H + k)
    <2>. DEFINE f == b[i]
    <2>1. f \in Nat /\ Slot(f) = i /\ H <= f /\ f < H + len
      BY <1>2 DEF Fits, Contents
    <2>. HIDE DEF f
    <2>2. f - H \in 0 .. len - 1 /\ H + (f - H) = f
      BY <2>1
    <2>. QED BY <2>1, <2>2
  <1>3. ASSUME NEW i \in Slots, b[i] # None, NEW k \in 0 .. len - 1, i = Slot(H + k)
        PROVE  b[i] < H + len
    <2>1. k \in 0 .. WinMax - 1
      BY Sizes
    <2>2. b[i] = H + k
      BY <1>3, <2>1, SlotHolds
    <2>. QED BY <2>2
  <1>4. \A i \in Slots : C[i] = IF b[i] # None /\ b[i] < H + len THEN None ELSE b[i]
    BY <1>1, <1>2, <1>3
  <1>5. C \in Contents
    BY DEF Clear, Contents
  <1>. QED BY <1>4, <1>5

(* The least and the greatest of a set of distances.                       *)
LEMMA MinExists ==
  ASSUME NEW S \in SUBSET Nat, S # {}
  PROVE  Min(S) \in S /\ \A y \in S : Min(S) <= y
  <1>1. PICK x \in S : \A y \in S : ~(<<y, x>> \in OpToRel(<, Nat))
    BY NatLessThanWellFounded, WFMin
  <1>2. \A y \in S : ~(y < x)
    BY <1>1 DEF OpToRel
  <1>3. \A y \in S : x <= y
    BY <1>2
  <1>. QED BY <1>3 DEF Min

(* A set of distances below a bound has a greatest one.                    *)
LEMMA MaxExists ==
  ASSUME NEW n \in Nat, NEW S \in SUBSET (0 .. n), S # {}
  PROVE  Max(S) \in S /\ \A y \in S : y <= Max(S)
  <1>. DEFINE R == {n - x : x \in S}
  <1>1. R \in SUBSET Nat /\ R # {}
    <2>1. \A x \in 0 .. n : n - x \in Nat
      OBVIOUS
    <2>2. \A x \in S : n - x \in Nat
      BY <2>1
    <2>. QED BY <2>2, Zenon
  <1>2. Min(R) \in R /\ \A y \in R : Min(R) <= y
    BY <1>1, MinExists
  <1>3. PICK x \in S : Min(R) = n - x
    BY <1>2
  <1>4. \A y \in S : y <= x
    BY <1>2, <1>3
  <1>5. \E z \in S : \A y \in S : z >= y
    BY <1>4
  <1>. QED BY <1>5 DEF Max

(* reorderDrainReady stops at the first empty slot, and hands up all       *)
(* frames before it.                                                       *)
LEMMA ReadyValue ==
  ASSUME NEW b \in Contents, NEW H \in Nat, NEW w \in 0 .. WinMax, Fits(b, H, w)
  PROVE  /\ Ready(b, H % SNSize) \in 0 .. w
         /\ \A i \in Slots : b[i] # H + Ready(b, H % SNSize)
         /\ \A k \in 0 .. Ready(b, H % SNSize) - 1 : b[Slot(H + k)] = H + k
  <1>. DEFINE S == {k \in 0 .. WinMax : k = WinMax \/ b[Slot((H % SNSize) + k)] = None}
              r == Min(S)
  <1>1. S \in SUBSET Nat /\ WinMax \in S
    BY Sizes
  <1>2. r \in S /\ \A y \in S : r <= y
    BY <1>1, MinExists
  <1>3. r = Ready(b, H % SNSize)
    BY DEF Ready
  <1>4. r \in 0 .. WinMax
    BY <1>2
  <1>5. ASSUME NEW k \in 0 .. r - 1 PROVE b[Slot(H + k)] = H + k
    <2>1. k \in 0 .. WinMax - 1 /\ k \in 0 .. WinMax /\ ~(r <= k)
      BY <1>4, Sizes
    <2>2. k \notin S
      BY <1>2, <2>1
    <2>3. b[Slot((H % SNSize) + k)] # None
      BY <2>1, <2>2
    <2>. QED BY <2>1, <2>3, SlotHolds
  <1>6. ASSUME NEW i \in Slots, b[i] = H + r PROVE FALSE
    <2>1. b[i] # None /\ H + r < H + w
      BY <1>4, <1>6 DEF Fits, None
    <2>2. r \in 0 .. WinMax - 1
      BY <1>4, <2>1, Sizes
    <2>3. Slot(H + r) = i
      BY <1>6, <2>1 DEF Fits
    <2>4. b[Slot((H % SNSize) + r)] # None
      BY <2>1, <2>2, <2>3, SlotHolds
    <2>5. r # WinMax
      BY <2>2, Sizes
    <2>6. r = WinMax \/ b[Slot((H % SNSize) + r)] = None
      BY <1>2
    <2>. QED BY <2>4, <2>5, <2>6
  <1>7. r <= w
    <2>1. CASE w < r
      <3>1. w \in 0 .. r - 1
        BY <1>4, <2>1
      <3>2. b[Slot(H + w)] = H + w /\ Slot(H + w) \in Slots /\ H + w # None
        BY <3>1, <1>5, SlotType DEF None
      <3>. QED BY <3>2 DEF Fits
    <2>. QED BY <1>4, <2>1
  <1>. QED BY <1>3, <1>4, <1>5, <1>6, <1>7
(* Where the sweep of the hole timeouts ends: behind a frame, and before   *)
(* an empty slot or the end of the window.                                 *)
LEMMA SweepValue ==
  ASSUME buf \in Contents, headN \in Nat, win \in 0 .. WinMax, head = headN % SNSize,
         Fits(buf, headN, win), SweepEnd # 0
  PROVE  /\ SweepEnd \in 1 .. win
         /\ \E i \in Slots : buf[i] = headN + SweepEnd - 1
         /\ \A i \in Slots : buf[i] # headN + SweepEnd
  <1>. DEFINE waiting == {k \in 1 .. win - 1 : buf[Slot(head + k)] # None}
              young == {k \in waiting : k - 1 \notin waiting /\ Slot(head + k) \notin old}
              before == {k \in waiting : \A y \in young : k < y}
              m == Max(before)
  <1>1. SweepEnd = IF before = {} THEN 0 ELSE m + 1
    BY DEF SweepEnd
  <1>2. before # {}
    BY <1>1
  <1>3. WinMax \in Nat /\ before \in SUBSET (0 .. WinMax)
    BY Sizes
  <1>4. m \in before /\ \A y \in before : y <= m
    BY <1>2, <1>3, MaxExists
  <1>5. SweepEnd = m + 1
    BY <1>1, <1>2
  <1>6. m \in waiting /\ m \in 1 .. win - 1
    BY <1>4
  <1>7. \A k \in 1 .. win - 1 : buf[Slot(head + k)] \in {None, headN + k}
    <2>1. \A k \in 1 .. win - 1 : k \in 0 .. WinMax - 1
      BY Sizes
    <2>. QED BY <2>1, SlotHolds
  <1>. HIDE DEF m
  <1>8. \E i \in Slots : buf[i] = headN + m
    <2>1. Slot(head + m) \in Slots
      BY <1>6, Sizes, SlotType, ModDef
    <2>2. buf[Slot(head + m)] = headN + m
      BY <1>6, <1>7
    <2>. QED BY <2>1, <2>2
  <1>9. ASSUME NEW i \in Slots, buf[i] = headN + (m + 1) PROVE FALSE
    <2>1. headN + (m + 1) # None
      BY <1>6 DEF None
    <2>2. headN + (m + 1) < headN + win /\ Slot(headN + (m + 1)) = i
      BY <1>9, <2>1 DEF Fits
    <2>3. m + 1 \in 1 .. win - 1 /\ m + 1 \in 0 .. WinMax - 1
      BY <1>6, <2>2, Sizes
    <2>4. buf[Slot(head + (m + 1))] = buf[i]
      BY <2>2, <2>3, SlotHolds
    <2>5. m + 1 \in waiting
      BY <1>9, <2>1, <2>3, <2>4
    <2>6. (m + 1) - 1 = m
      BY <1>6
    <2>7. m + 1 \notin young
      BY <1>6, <2>6
    <2>8. \A y \in young : m + 1 < y
      BY <1>4, <1>6, <2>7
    <2>9. m + 1 \in before
      BY <2>5, <2>8
    <2>. QED BY <1>4, <1>6, <2>9
  <1>10. SweepEnd \in 1 .. win
    BY <1>5, <1>6
  <1>11. headN + (m + 1) = headN + SweepEnd /\ headN + m = headN + SweepEnd - 1
    BY <1>5, <1>6
  <1>. QED BY <1>8, <1>9, <1>10, <1>11

(* stored counts the occupied slots when a walk has emptied some.          *)
LEMMA ReleasedValue ==
  ASSUME NEW b, NEW c, Occupied(c) \subseteq Occupied(b)
  PROVE  /\ Cardinality(Occupied(b)) \in Nat
         /\ Cardinality(Occupied(b)) - Released(b, c) = Cardinality(Occupied(c))
  <1>1. IsFiniteSet(Slots)
    BY Sizes, FS_Interval DEF Slots
  <1>2. IsFiniteSet(Occupied(b)) /\ IsFiniteSet(Occupied(c))
    BY <1>1, FS_Subset DEF Occupied
  <1>3. Occupied(b) \cap Occupied(c) = Occupied(c)
    OBVIOUS
  <1>4. Cardinality(Occupied(b)) \in Nat /\ Cardinality(Occupied(c)) \in Nat
    BY <1>2, FS_CardinalityType
  <1>5. Released(b, c) = Cardinality(Occupied(b)) - Cardinality(Occupied(c))
    BY <1>2, <1>3, FS_Difference DEF Released
  <1>. QED BY <1>4, <1>5

(* A frame put into an empty slot counts one more.                         *)
LEMMA PutCounts ==
  ASSUME NEW b \in Contents, NEW i \in Slots, NEW n \in Nat, b[i] = None
  PROVE  Cardinality(Occupied([b EXCEPT ![i] = n])) = Cardinality(Occupied(b)) + 1
  <1>1. IsFiniteSet(Slots)
    BY Sizes, FS_Interval DEF Slots
  <1>2. IsFiniteSet(Occupied(b)) /\ i \notin Occupied(b)
    BY <1>1, FS_Subset DEF Occupied
  <1>3. Occupied([b EXCEPT ![i] = n]) = Occupied(b) \cup {i}
    BY DEF Occupied, Contents, None
  <1>. QED BY <1>2, <1>3, FS_AddElement

(* Handing up in order.                                                    *)
Ascending(s, lo, hi) ==
  \A i \in DOMAIN s : s[i] # None =>
    /\ lo <= s[i] /\ s[i] < hi
    /\ \A j \in DOMAIN s : i < j /\ s[j] # None => s[i] < s[j]

(* A walk hands up in order the frames it passes.                          *)
LEMMA WindowAscends ==
  ASSUME NEW b \in Contents, NEW H \in Nat, NEW w \in 0 .. WinMax, Fits(b, H, w),
         NEW len \in 0 .. WinMax
  PROVE  Ascending(Window(b, H % SNSize, len), H, H + len)
  <1>. DEFINE W == Window(b, H % SNSize, len)
  <1>1. DOMAIN W = 1 .. len /\ \A k \in 1 .. len : W[k] \in {None, H + k - 1}
    BY WindowValue
  <1>. HIDE DEF W
  <1>2. Ascending(W, H, H + len)
    BY <1>1 DEF Ascending
  <1>. QED BY <1>2 DEF W

(* One walk after another.                                                 *)
LEMMA ConcatAscends ==
  ASSUME NEW s \in Seq(Int), NEW t \in Seq(Int), NEW lo \in Int, NEW mid \in Int,
         NEW hi \in Int, lo <= mid, mid <= hi, Ascending(s, lo, mid), Ascending(t, mid, hi)
  PROVE  /\ Ascending(s \o t, lo, hi)
         /\ \A j \in DOMAIN s : j \in DOMAIN (s \o t) /\ (s \o t)[j] = s[j]
         /\ \A j \in DOMAIN t : j + Len(s) \in DOMAIN (s \o t) /\ (s \o t)[j + Len(s)] = t[j]
  <1>. DEFINE c == s \o t
  <1>1. /\ DOMAIN c = 1 .. Len(s) + Len(t) /\ Len(s) \in Nat /\ Len(t) \in Nat
        /\ DOMAIN s = 1 .. Len(s) /\ DOMAIN t = 1 .. Len(t)
        /\ \A j \in 1 .. Len(s) : c[j] = s[j] /\ c[j] \in Int
        /\ \A j \in Len(s) + 1 .. Len(s) + Len(t) : c[j] = t[j - Len(s)] /\ c[j] \in Int
    OBVIOUS
  <1>. HIDE DEF c
  <1>2. ASSUME NEW i \in 1 .. Len(s), c[i] # None
        PROVE  /\ lo <= c[i] /\ c[i] < mid
               /\ \A j \in 1 .. Len(s) : i < j /\ c[j] # None => c[i] < c[j]
    BY <1>1, <1>2 DEF Ascending
  <1>3. ASSUME NEW i \in Len(s) + 1 .. Len(s) + Len(t), c[i] # None
        PROVE  /\ mid <= c[i] /\ c[i] < hi
               /\ \A j \in Len(s) + 1 .. Len(s) + Len(t) : i < j /\ c[j] # None => c[i] < c[j]
    <2>1. i - Len(s) \in DOMAIN t
      BY <1>1
    <2>2. mid <= c[i] /\ c[i] < hi
      BY <1>1, <1>3, <2>1 DEF Ascending
    <2>3. ASSUME NEW j \in Len(s) + 1 .. Len(s) + Len(t), i < j, c[j] # None
          PROVE  c[i] < c[j]
      <3>1. j - Len(s) \in DOMAIN t /\ i - Len(s) < j - Len(s)
        BY <1>1, <2>3
      <3>. QED BY <1>1, <1>3, <2>1, <2>3, <3>1 DEF Ascending
    <2>. QED BY <2>2, <2>3
  <1>4. ASSUME NEW i \in DOMAIN c, c[i] # None
        PROVE  lo <= c[i] /\ c[i] < hi /\ \A j \in DOMAIN c : i < j /\ c[j] # None => c[i] < c[j]
    <2>1. CASE i \in 1 .. Len(s)
      <3>1. lo <= c[i] /\ c[i] < mid
        BY <1>2, <1>4, <2>1
      <3>2. ASSUME NEW j \in DOMAIN c, i < j, c[j] # None PROVE c[i] < c[j]
        <4>1. CASE j \in 1 .. Len(s)
          BY <1>2, <1>4, <2>1, <3>2, <4>1
        <4>2. CASE j \in Len(s) + 1 .. Len(s) + Len(t)
          BY <1>1, <1>3, <2>1, <3>1, <3>2, <4>2
        <4>. QED BY <1>1, <4>1, <4>2
      <3>. QED BY <1>1, <2>1, <3>1, <3>2
    <2>2. CASE i \in Len(s) + 1 .. Len(s) + Len(t)
      <3>1. mid <= c[i] /\ c[i] < hi /\ c[i] \in Int
        BY <1>1, <1>3, <1>4, <2>2
      <3>2. \A j \in DOMAIN c : i < j => j \in Len(s) + 1 .. Len(s) + Len(t)
        BY <1>1, <2>2
      <3>. QED BY <1>3, <1>4, <2>2, <3>1, <3>2
    <2>. QED BY <1>1, <1>4, <2>1, <2>2
  <1>5. \A j \in DOMAIN t : j + Len(s) \in DOMAIN c /\ c[j + Len(s)] = t[j]
    <2>1. ASSUME NEW j \in DOMAIN t PROVE j + Len(s) \in DOMAIN c /\ c[j + Len(s)] = t[j]
      <3>1. j + Len(s) \in Len(s) + 1 .. Len(s) + Len(t) /\ (j + Len(s)) - Len(s) = j
        BY <1>1
      <3>. QED BY <1>1, <3>1
    <2>. QED BY <2>1
  <1>6. \A j \in DOMAIN s : j \in DOMAIN c /\ c[j] = s[j]
    BY <1>1
  <1>. QED BY <1>4, <1>5, <1>6 DEF Ascending, c
-----------------------------------------------------------------------------
(* The frames the access point may send.                                   *)
Sendable(n) ==
  /\ n \in Nat /\ n >= base
  /\ n < (IF base < ssn THEN ssn ELSE base) + (IF apWin = 0 THEN 1 ELSE apWin)

(* In a session the access point's frames are within half the space.       *)
LEMMA Reach ==
  ASSUME Types, WindowInv, ApInv, active, NEW n, Sendable(n)
  PROVE  /\ n - headN < SNSize \div 2 /\ 2 * (headN - n) < SNSize
         /\ n < Top /\ (n - win < base \/ n - win < ssn)
  <1>1. win \in 1 .. WinMax
    BY DEF Types, WindowInv
  <1>2. (IF apWin = 0 THEN 1 ELSE apWin) \in 1 .. win
    BY <1>1 DEF ApInv, Types
  <1>. DEFINE a == IF apWin = 0 THEN 1 ELSE apWin
              h == SNSize \div 2
  <1>3. n \in Nat /\ n >= base /\ n < (IF base < ssn THEN ssn ELSE base) + a
    BY DEF Sendable
  <1>4. /\ h \in Nat /\ WinMax <= h /\ 2 * h <= SNSize
        /\ SNSize \in Nat /\ WinMax \in Nat /\ 2 * WinMax < SNSize
    BY Sizes
  <1>5. /\ ssn <= headN /\ headN <= (IF base < ssn THEN ssn ELSE base) + WinMax
        /\ ssn - base + WinMax < h /\ base + win - headN < h
    BY DEF ApInv, Top
  <1>6. headN \in Nat /\ base \in Nat /\ ssn \in Nat /\ a \in 1 .. win
    BY <1>2 DEF Types
  <1>. HIDE DEF a, h
  <1>7. n - headN < h
    BY <1>1, <1>3, <1>4, <1>5, <1>6
  <1>8. 2 * (headN - n) < SNSize
    BY <1>1, <1>3, <1>4, <1>5, <1>6
  <1>9. n < Top /\ (n - win < base \/ n - win < ssn)
    BY <1>1, <1>3, <1>4, <1>6 DEF Top
  <1>. QED BY <1>7, <1>8, <1>9 DEF h

(* The frame that head stands for when frame n has slid the window.        *)
HeadFor(n) == IF n < headN + win THEN headN ELSE (n - win) + 1

(* The number of slots that the slide visits.                              *)
VisitsFor(n) == IF HeadFor(n) - headN < win THEN HeadFor(n) - headN ELSE win

(* Branch (B) on sequence numbers does what it should on frames.           *)
LEMMA Slide ==
  ASSUME Types, WindowInv, ApInv, active, NEW n, Sendable(n), n >= headN
  PROVE  /\ NewHead(n % SNSize) = HeadFor(n) % SNSize
         /\ Visited(n % SNSize) = VisitsFor(n)
         /\ HeadFor(n) \in Nat /\ headN <= HeadFor(n) /\ HeadFor(n) <= n
         /\ n < HeadFor(n) + win /\ HeadFor(n) - headN < SNSize \div 2
         /\ VisitsFor(n) \in 0 .. win /\ VisitsFor(n) <= HeadFor(n) - headN
  <1>1. /\ win \in 1 .. WinMax /\ headN \in Nat /\ n \in Nat /\ head = headN % SNSize
        /\ n \in Int /\ headN \in Int /\ 0 - win \in Int /\ win \in Int
    BY Sizes DEF Types, WindowInv, Sendable
  <1>2. n - headN < SNSize \div 2 /\ 2 * (headN - n) < SNSize
    BY Reach
  <1>3. Beyond(n % SNSize) <=> n >= headN + win
    <2>1. (head + win) % SNSize = (headN + win) % SNSize
      BY <1>1, Sizes, ModSum
    <2>2. n - (headN + win) <= SNSize \div 2 /\ 2 * ((headN + win) - n) < SNSize
      BY <1>1, <1>2, Sizes
    <2>3. rtw_sn_less(n % SNSize, (headN + win) % SNSize) <=> n < headN + win
      BY <1>1, <2>2, LessIsBehind
    <2>4. rtw_sn_less(n % SNSize, (head + win) % SNSize) <=> n < headN + win
      BY <2>1, <2>3, Zenon
    <2>. QED BY <1>1, <2>4 DEF Beyond
  <1>4. rtw_sn_inc(rtw_sn_sub(n % SNSize, win)) = ((n - win) + 1) % SNSize
    <2>1. SNSize \in Nat \ {0} /\ n % SNSize \in Int /\ n - win \in Int /\ 1 \in Int
      BY <1>1, Sizes, ModDef
    <2>2. ((n % SNSize) + (0 - win)) % SNSize = (n + (0 - win)) % SNSize
      BY <1>1, <2>1, ModSum, Zenon
    <2>3. (n % SNSize) + (0 - win) = (n % SNSize) - win /\ n + (0 - win) = n - win
      BY <1>1, <2>1
    <2>4. rtw_sn_sub(n % SNSize, win) = (n - win) % SNSize
      BY <2>2, <2>3, Zenon DEF rtw_sn_sub
    <2>5. (((n - win) % SNSize) + 1) % SNSize = ((n - win) + 1) % SNSize
      BY <2>1, ModSum, Zenon
    <2>. QED BY <2>4, <2>5, Zenon DEF rtw_sn_inc
  <1>5. NewHead(n % SNSize) = HeadFor(n) % SNSize
    <2>1. CASE n < headN + win
      <3>1. ~Beyond(n % SNSize)
        BY <1>1, <1>3, <2>1
      <3>. QED BY <1>1, <2>1, <3>1, Zenon DEF NewHead, HeadFor
    <2>2. CASE ~(n < headN + win)
      <3>1. Beyond(n % SNSize)
        BY <1>1, <1>3, <2>2
      <3>. QED BY <1>4, <2>2, <3>1, Zenon DEF NewHead, HeadFor
    <2>. QED BY <2>1, <2>2
  <1>6. /\ HeadFor(n) \in Nat /\ headN <= HeadFor(n) /\ HeadFor(n) <= n
        /\ n < HeadFor(n) + win /\ HeadFor(n) - headN < SNSize \div 2
    BY <1>1, <1>2, Sizes DEF HeadFor
  <1>7. VisitsFor(n) \in 0 .. win /\ VisitsFor(n) <= HeadFor(n) - headN
    BY <1>1, <1>6 DEF VisitsFor
  <1>8. Visited(n % SNSize) = VisitsFor(n)
    <2>1. CASE n < headN + win
      <3>1. ~Beyond(n % SNSize)
        BY <1>1, <1>3, <2>1
      <3>2. Visited(n % SNSize) = 0
        BY <3>1 DEF Visited
      <3>3. VisitsFor(n) = 0
        BY <1>1, <2>1 DEF VisitsFor, HeadFor
      <3>. QED BY <3>2, <3>3
    <2>2. CASE ~(n < headN + win)
      <3>1. Beyond(n % SNSize)
        BY <1>1, <1>3, <2>2
      <3>. DEFINE H == HeadFor(n)
                  d == H - headN
      <3>2. d \in Int /\ 0 <= d /\ d < SNSize
        BY <1>1, <1>6, Sizes
      <3>3. rtw_sn_sub(H % SNSize, head) = d
        <4>1. H \in Int /\ SNSize \in Nat \ {0}
          BY <1>6, Sizes
        <4>2. ((H % SNSize) - (headN % SNSize)) % SNSize = (H - headN) % SNSize
          BY <1>1, <4>1, ModDifference, Zenon
        <4>3. (H - headN) % SNSize = d
          BY <3>2, <4>1, ModSmall, Zenon
        <4>. QED BY <1>1, <4>2, <4>3, Zenon DEF rtw_sn_sub
      <3>4. Visited(n % SNSize) = Min({d, win})
        BY <1>5, <3>1, <3>3, Zenon DEF Visited, Steps
      <3>5. {d, win} \in SUBSET Nat /\ {d, win} # {}
        BY <1>1, <3>2
      <3>6. Min({d, win}) \in {d, win} /\ \A y \in {d, win} : Min({d, win}) <= y
        BY <3>5, MinExists
      <3>7. VisitsFor(n) = IF d < win THEN d ELSE win
        BY DEF VisitsFor
      <3>. HIDE DEF d
      <3>. QED BY <1>1, <3>2, <3>4, <3>6, <3>7
    <2>. QED BY <2>1, <2>2
  <1>. QED BY <1>5, <1>6, <1>7, <1>8
(* The window after the slide for frame n, and what the slide hands up.    *)
LEMMA AfterSlide ==
  ASSUME Types, WindowInv, StoredInv, ApInv, active, NEW n, Sendable(n), n >= headN,
         NEW b, b = Clear(buf, head, VisitsFor(n)),
         NEW slid, slid = Window(buf, head, VisitsFor(n))
  PROVE  /\ b \in Contents /\ Fits(b, HeadFor(n), win)
         /\ \A i \in Slots : b[i] # None => b[i] = buf[i]
         /\ \A i \in Slots : buf[i] # None =>
              b[i] = buf[i] \/ \E j \in DOMAIN slid : slid[j] = buf[i]
         /\ slid \in Seq(Int) /\ Ascending(slid, headN, HeadFor(n))
         /\ stored - Released(buf, b) = Cardinality(Occupied(b))
         /\ n < headN + win => b = buf /\ HeadFor(n) = headN
         /\ ~(n < headN + win) => b[Slot(n)] = None
  <1>. DEFINE H == HeadFor(n)
              v == VisitsFor(n)
  <1>1. /\ H \in Nat /\ headN <= H /\ H <= n /\ n < H + win /\ v \in 0 .. win /\ v <= H - headN
        /\ v = IF H - headN < win THEN H - headN ELSE win
    BY Slide DEF VisitsFor
  <1>2. /\ buf \in Contents /\ headN \in Nat /\ win \in 0 .. WinMax /\ v \in 0 .. WinMax
        /\ Fits(buf, headN, win) /\ head = headN % SNSize /\ n \in Nat /\ WinMax \in Nat
    BY <1>1, Sizes DEF Types, WindowInv, Contents, Sendable
  <1>. HIDE DEF v, H
  <1>3. b = Clear(buf, headN % SNSize, v) /\ slid = Window(buf, headN % SNSize, v)
    BY <1>2 DEF v
  <1>4. /\ b \in Contents
        /\ \A i \in Slots : b[i] = IF buf[i] # None /\ buf[i] < headN + v THEN None ELSE buf[i]
    BY <1>2, <1>3, ClearValue
  <1>5. \A i \in Slots : b[i] # None => b[i] = buf[i] /\ b[i] \in Nat /\ headN + v <= b[i]
    BY <1>2, <1>4 DEF Contents
  <1>6. Fits(b, H, win)
    <2>1. ASSUME NEW i \in Slots, b[i] # None PROVE Slot(b[i]) = i /\ H <= b[i] /\ b[i] < H + win
      <3>1. b[i] = buf[i] /\ b[i] \in Nat /\ headN + v <= b[i]
        BY <1>5, <2>1
      <3>2. Slot(b[i]) = i /\ b[i] < headN + win
        BY <1>2, <2>1, <3>1 DEF Fits
      <3>. QED BY <1>1, <1>2, <3>1, <3>2
    <2>. QED BY <2>1 DEF Fits
  <1>7. ASSUME NEW i \in Slots, buf[i] # None
        PROVE  b[i] = buf[i] \/ \E j \in DOMAIN slid : slid[j] = buf[i]
    <2>1. CASE buf[i] < headN + v
      <3>1. DOMAIN slid = 1 .. v /\ buf[i] - headN + 1 \in 1 .. v /\ slid[buf[i] - headN + 1] = buf[i]
        BY <1>2, <1>3, <1>7, <2>1, WindowValue
      <3>. QED BY <3>1
    <2>2. CASE ~(buf[i] < headN + v)
      BY <1>4, <2>2
    <2>. QED BY <2>1, <2>2
  <1>8. slid \in Seq(Int) /\ DOMAIN slid = 1 .. v
    BY <1>2, <1>3, WindowValue
  <1>9. Ascending(slid, headN, H)
    <2>1. Ascending(slid, headN, headN + v)
      BY <1>2, <1>3, WindowAscends
    <2>2. \A x \in Int : x < headN + v => x < H
      BY <1>1, <1>2
    <2>3. \A i \in DOMAIN slid : slid[i] \in Int
      <3>1. DOMAIN slid = 1 .. v /\ \A k \in 1 .. v : slid[k] \in {None, headN + k - 1}
        BY <1>2, <1>3, WindowValue
      <3>. QED BY <1>2, <3>1 DEF None
    <2>. QED BY <2>1, <2>2, <2>3 DEF Ascending
  <1>10. stored - Released(buf, b) = Cardinality(Occupied(b))
    <2>1. Occupied(b) \subseteq Occupied(buf)
      BY <1>5 DEF Occupied
    <2>. QED BY <2>1, ReleasedValue DEF StoredInv
  <1>11. ASSUME n < headN + win PROVE b = buf /\ H = headN
    <2>1. H = headN
      BY <1>11 DEF H, HeadFor
    <2>2. v = 0
      BY <1>1, <1>2, <2>1
    <2>3. \A i \in Slots : b[i] = buf[i]
      BY <1>2, <1>4, <2>2 DEF Fits, Contents
    <2>4. b = buf
      BY <1>2, <1>4, <2>3 DEF Contents
    <2>. QED BY <2>1, <2>4
  <1>12. ASSUME ~(n < headN + win), b[Slot(n)] # None PROVE FALSE
    <2>1. Slot(n) \in Slots /\ n \in Int
      BY <1>2, SlotType
    <2>. DEFINE f == b[Slot(n)]
    <2>2. f \in Nat /\ f \in Int /\ Slot(f) = Slot(n) /\ H <= f
      BY <1>5, <1>6, <1>12, <2>1 DEF Fits
    <2>3. f < headN + win
      BY <1>2, <1>5, <1>12, <2>1 DEF Fits
    <2>. HIDE DEF f
    <2>4. f - n < WinMax /\ n - f < WinMax
      BY <1>1, <1>2, <1>12, <2>2, <2>3
    <2>5. f = n
      BY <2>1, <2>2, <2>4, SlotInjective
    <2>. QED BY <1>2, <1>12, <2>3, <2>5
  <1>. QED BY <1>4, <1>5, <1>6, <1>7, <1>8, <1>9, <1>10, <1>11, <1>12 DEF H

(* What reorderInsert does with a frame that is not behind the window.     *)
Accepted(n) ==
  /\ headN' \in Nat /\ headN <= headN' /\ head' = headN' % SNSize
  /\ headN' <= n + 1 \/ \E i \in Slots : buf[i] = headN' - 1
  /\ buf' \in Contents /\ Fits(buf', headN', win)
  /\ \A i \in Slots : buf'[i] # headN'
  /\ \A i \in Slots : buf'[i] # None => buf'[i] = buf[i] \/ buf'[i] = n
  /\ stored' = Cardinality(Occupied(buf'))
  /\ Ascending(out', headN, headN')
  /\ \A i \in Slots : buf[i] # None => HandsUp(buf[i]) \/ buf'[i] = buf[i]
  /\ \A m \in Nat : HeadFor(n) <= m /\ m < headN' => HandsUp(m)

(* A frame's slot, by number and by sequence number.                       *)
LEMMA SlotOfFrame ==
  ASSUME NEW n \in Nat
  PROVE  Slot(n % SNSize) = Slot(n) /\ Slot(n) \in Slots
  <1>1. Slot((n % SNSize) + 0) = Slot(n + 0)
    BY SlotOfNumber
  <1>2. (n % SNSize) + 0 = n % SNSize /\ n + 0 = n
    BY Sizes, ModDef
  <1>. QED BY <1>1, <1>2, SlotType

(* Branch (C): a duplicate changes nothing.                                *)
LEMMA DuplicateStep ==
  ASSUME Types, WindowInv, StoredInv, ApInv, active, NEW n, Sendable(n), n >= headN,
         NEW b, b = Clear(buf, head, VisitsFor(n)),
         NEW slid, slid = Window(buf, head, VisitsFor(n)),
         b[Slot(n)] # None, buf' = b, MoveHead(HeadFor(n) % SNSize),
         out' = slid, stored' = stored - Released(buf, b)
  PROVE  Accepted(n)
  <1>1. n \in Nat /\ headN \in Nat /\ head = headN % SNSize /\ headN < headN + SNSize
    BY Sizes DEF Sendable, Types, WindowInv
  <1>2. /\ b \in Contents /\ Fits(b, HeadFor(n), win) /\ Ascending(slid, headN, HeadFor(n))
        /\ stored - Released(buf, b) = Cardinality(Occupied(b))
        /\ b = buf /\ HeadFor(n) = headN
    BY AfterSlide
  <1>3. head' = headN % SNSize /\ headN' = headN
    BY <1>1, <1>2, HeadMoves
  <1>4. \A i \in Slots : buf[i] # headN
    BY <1>1 DEF WindowInv, None
  <1>5. \A m \in Nat : ~(headN <= m /\ m < headN)
    BY <1>1
  <1>. QED BY <1>1, <1>2, <1>3, <1>4, <1>5 DEF Accepted
(* Branch (D): the frame that the empty window waits for.                  *)
LEMMA FastStep ==
  ASSUME Types, WindowInv, StoredInv, ApInv, active, NEW n, Sendable(n), n >= headN,
         NEW b, b = Clear(buf, head, VisitsFor(n)),
         NEW slid, slid = Window(buf, head, VisitsFor(n)),
         n % SNSize = HeadFor(n) % SNSize, stored - Released(buf, b) = 0,
         buf' = b, MoveHead(rtw_sn_inc(HeadFor(n) % SNSize)),
         out' = Append(slid, n), stored' = stored - Released(buf, b)
  PROVE  Accepted(n)
  <1>1. n \in Nat /\ headN \in Nat /\ head = headN % SNSize /\ win \in 1 .. WinMax
    BY DEF Sendable, Types, WindowInv
  <1>2. /\ HeadFor(n) \in Nat /\ headN <= HeadFor(n) /\ HeadFor(n) <= n
        /\ n < HeadFor(n) + win /\ HeadFor(n) - headN < SNSize \div 2
    BY Slide
  <1>3. /\ b \in Contents
        /\ \A i \in Slots : buf[i] # None =>
              b[i] = buf[i] \/ \E j \in DOMAIN slid : slid[j] = buf[i]
        /\ slid \in Seq(Int) /\ Ascending(slid, headN, HeadFor(n))
        /\ stored - Released(buf, b) = Cardinality(Occupied(b))
    BY AfterSlide
  <1>4. HeadFor(n) = n
    <2>1. n - HeadFor(n) < SNSize /\ HeadFor(n) - n < SNSize
      BY <1>1, <1>2, Sizes
    <2>2. n \in Int /\ HeadFor(n) \in Int /\ SNSize \in Nat \ {0}
      BY <1>1, <1>2, Sizes
    <2>3. n = HeadFor(n)
      BY <2>1, <2>2, ModInjective, Zenon
    <2>. QED BY <2>3
  <1>5. head' = (n + 1) % SNSize /\ headN' = n + 1
    <2>1. n \in Int /\ 1 \in Int /\ SNSize \in Nat \ {0}
      BY <1>1, Sizes
    <2>2. ((n % SNSize) + 1) % SNSize = (n + 1) % SNSize
      BY <2>1, ModSum, Zenon
    <2>3. MoveHead((n + 1) % SNSize)
      BY <1>4, <2>2, Zenon DEF rtw_sn_inc
    <2>4. n + 1 \in Nat /\ headN <= n + 1 /\ n + 1 < headN + SNSize
      BY <1>1, <1>2, <1>4, Sizes
    <2>. QED BY <1>1, <2>3, <2>4, HeadMoves
  <1>6. \A i \in Slots : b[i] = None
    <2>1. IsFiniteSet(Slots)
      BY Sizes, FS_Interval DEF Slots
    <2>2. IsFiniteSet(Occupied(b))
      BY <2>1, FS_Subset DEF Occupied
    <2>3. Occupied(b) = {}
      BY <1>3, <2>2, FS_EmptySet
    <2>. QED BY <2>3 DEF Occupied
  <1>7. Fits(buf', headN', win) /\ \A i \in Slots : buf'[i] # headN'
    BY <1>1, <1>5, <1>6 DEF Fits, None
  <1>8. /\ DOMAIN out' = 1 .. Len(slid) + 1 /\ Len(slid) \in Nat /\ DOMAIN slid = 1 .. Len(slid)
        /\ \A j \in 1 .. Len(slid) : out'[j] = slid[j] /\ slid[j] \in Int
        /\ out'[Len(slid) + 1] = n
    BY <1>1, <1>3
  <1>9. Ascending(out', headN, headN')
    <2>1. ASSUME NEW i \in DOMAIN out', out'[i] # None
          PROVE  /\ headN <= out'[i] /\ out'[i] < headN'
                 /\ \A j \in DOMAIN out' : i < j /\ out'[j] # None => out'[i] < out'[j]
      <3>1. CASE i = Len(slid) + 1
        BY <1>1, <1>2, <1>4, <1>5, <1>8, <3>1
      <3>2. CASE i \in 1 .. Len(slid)
        <4>1. headN <= slid[i] /\ slid[i] < n
          BY <1>3, <1>4, <1>8, <2>1, <3>2 DEF Ascending
        <4>2. ASSUME NEW j \in 1 .. Len(slid), i < j, slid[j] # None PROVE slid[i] < slid[j]
          BY <1>3, <1>8, <2>1, <3>2, <4>2 DEF Ascending
        <4>. QED BY <1>1, <1>5, <1>8, <3>2, <4>1, <4>2
      <3>. QED BY <1>8, <3>1, <3>2
    <2>. QED BY <2>1 DEF Ascending
  <1>10. \A i \in Slots : buf[i] # None => HandsUp(buf[i]) \/ buf'[i] = buf[i]
    BY <1>3, <1>8 DEF HandsUp
  <1>11. \A m \in Nat : HeadFor(n) <= m /\ m < headN' => HandsUp(m)
    <2>1. HandsUp(n)
      BY <1>8 DEF HandsUp
    <2>. QED BY <1>1, <1>4, <1>5, <2>1
  <1>. QED BY <1>1, <1>2, <1>3, <1>4, <1>5, <1>6, <1>7, <1>9, <1>10, <1>11 DEF Accepted

(* Draining: the window ends at an empty slot, with everything before it   *)
(* handed up and everything beyond it kept.                                *)
LEMMA DrainedWindow ==
  ASSUME NEW c \in Contents, NEW H \in Nat, NEW w \in 0 .. WinMax, Fits(c, H, w),
         NEW e \in 0 .. w, \A i \in Slots : c[i] # H + e,
         NEW d, d = Clear(c, H % SNSize, e)
  PROVE  /\ d \in Contents /\ Fits(d, H + e, w)
         /\ \A i \in Slots : d[i] # H + e
         /\ \A i \in Slots : d[i] # None => d[i] = c[i]
         /\ \A i \in Slots : c[i] # None => d[i] = c[i] \/ c[i] < H + e
         /\ Cardinality(Occupied(c)) - Released(c, d) = Cardinality(Occupied(d))
  <1>0. e \in 0 .. WinMax
    BY Sizes
  <1>1. /\ d \in Contents
        /\ \A i \in Slots : d[i] = IF c[i] # None /\ c[i] < H + e THEN None ELSE c[i]
    BY <1>0, ClearValue
  <1>2. \A i \in Slots : d[i] # None => d[i] = c[i] /\ d[i] \in Nat /\ H + e <= d[i]
    BY <1>1 DEF Contents
  <1>3. Fits(d, H + e, w)
    <2>1. ASSUME NEW i \in Slots, d[i] # None
          PROVE  Slot(d[i]) = i /\ H + e <= d[i] /\ d[i] < (H + e) + w
      <3>1. Slot(d[i]) = i /\ d[i] < H + w /\ d[i] \in Nat /\ H + e <= d[i]
        BY <1>2, <2>1 DEF Fits
      <3>. QED BY <3>1
    <2>. QED BY <2>1 DEF Fits
  <1>4. H + e # None
    BY DEF None
  <1>5. Occupied(d) \subseteq Occupied(c)
    BY <1>2 DEF Occupied
  <1>6. Cardinality(Occupied(c)) - Released(c, d) = Cardinality(Occupied(d))
    BY <1>5, ReleasedValue
  <1>. QED BY <1>1, <1>2, <1>3, <1>4, <1>6
(* Branch (E) and reorderDrainReady: buffer the frame, and drain the run   *)
(* that it completes.                                                      *)
Buffers(n, b, slid, put, run) ==
  /\ b = Clear(buf, head, VisitsFor(n))
  /\ slid = Window(buf, head, VisitsFor(n))
  /\ b[Slot(n)] = None
  /\ put = [b EXCEPT ![Slot(n)] = n]
  /\ run = Ready(put, HeadFor(n) % SNSize)
  /\ buf' = Clear(put, HeadFor(n) % SNSize, run)
  /\ MoveHead(((HeadFor(n) % SNSize) + run) % SNSize)
  /\ out' = slid \o Window(put, HeadFor(n) % SNSize, run)
  /\ stored' = ((stored - Released(buf, b)) + 1) - Released(put, buf')

(* The frame and the run behind it are handed up, in order.                *)
LEMMA BufferStep ==
  ASSUME Types, WindowInv, StoredInv, ApInv, active, NEW n, Sendable(n), n >= headN,
         NEW b, NEW slid, NEW put, NEW run, Buffers(n, b, slid, put, run)
  PROVE  Accepted(n)
  <1>. DEFINE H == HeadFor(n)
              drained == Window(put, H % SNSize, run)
  <1>1. /\ n \in Nat /\ headN \in Nat /\ head = headN % SNSize
        /\ win \in 1 .. WinMax /\ win \in 0 .. WinMax
    BY DEF Sendable, Types, WindowInv
  <1>2. /\ H \in Nat /\ headN <= H /\ H <= n /\ n < H + win /\ H - headN < SNSize \div 2
    BY Slide
  <1>3. /\ b \in Contents /\ Fits(b, H, win)
        /\ \A i \in Slots : b[i] # None => b[i] = buf[i]
        /\ \A i \in Slots : buf[i] # None =>
              b[i] = buf[i] \/ \E j \in DOMAIN slid : slid[j] = buf[i]
        /\ slid \in Seq(Int) /\ Ascending(slid, headN, H)
        /\ stored - Released(buf, b) = Cardinality(Occupied(b))
    <2>1. b = Clear(buf, head, VisitsFor(n)) /\ slid = Window(buf, head, VisitsFor(n))
      BY DEF Buffers
    <2>. QED BY <2>1, AfterSlide
  <1>. HIDE DEF H
  <1>4. Slot(n) \in Slots /\ n # None
    BY <1>1, SlotOfFrame DEF None
  <1>5. /\ put \in Contents /\ put[Slot(n)] = n /\ b[Slot(n)] = None
        /\ \A i \in Slots : i # Slot(n) => put[i] = b[i]
    BY <1>1, <1>3, <1>4 DEF Contents, Buffers
  <1>6. Fits(put, H, win)
    BY <1>2, <1>3, <1>5 DEF Fits
  <1>7. /\ run \in 0 .. win
        /\ \A i \in Slots : put[i] # H + run
        /\ \A k \in 0 .. run - 1 : put[Slot(H + k)] = H + k
    <2>1. run = Ready(put, H % SNSize)
      BY DEF Buffers, H
    <2>. QED BY <1>1, <1>2, <1>5, <1>6, <2>1, ReadyValue
  <1>8. head' = (H + run) % SNSize /\ headN' = H + run
    <2>1. H \in Int /\ run \in Int /\ SNSize \in Nat \ {0}
      BY <1>1, <1>2, <1>7, Sizes
    <2>2. ((H % SNSize) + run) % SNSize = (H + run) % SNSize
      BY <2>1, ModSum, Zenon
    <2>3. MoveHead((H + run) % SNSize)
      BY <2>2, Zenon DEF H, Buffers
    <2>4. H + run \in Nat /\ headN <= H + run /\ H + run < headN + SNSize
      BY <1>1, <1>2, <1>7, Sizes
    <2>. QED BY <1>1, <2>3, <2>4, HeadMoves
  <1>9. /\ buf' \in Contents /\ Fits(buf', H + run, win)
        /\ \A i \in Slots : buf'[i] # H + run
        /\ \A i \in Slots : buf'[i] # None => buf'[i] = put[i]
        /\ \A i \in Slots : put[i] # None => buf'[i] = put[i] \/ put[i] < H + run
        /\ Cardinality(Occupied(put)) - Released(put, buf') = Cardinality(Occupied(buf'))
    <2>1. buf' = Clear(put, H % SNSize, run)
      BY DEF Buffers, H
    <2>. QED BY <1>1, <1>2, <1>5, <1>6, <1>7, <2>1, DrainedWindow
  <1>10. stored' = Cardinality(Occupied(buf'))
    <2>1. Cardinality(Occupied(put)) = Cardinality(Occupied(b)) + 1
      BY <1>1, <1>3, <1>4, PutCounts DEF Buffers
    <2>2. stored' = ((stored - Released(buf, b)) + 1) - Released(put, buf')
      BY DEF Buffers
    <2>3. stored - Released(buf, b) = Cardinality(Occupied(b))
      BY <1>3
    <2>4. stored' = (Cardinality(Occupied(b)) + 1) - Released(put, buf')
      BY <2>2, <2>3
    <2>5. stored' = Cardinality(Occupied(put)) - Released(put, buf')
      BY <2>1, <2>4
    <2>. QED BY <1>9, <2>5
  <1>11. run \in 0 .. WinMax
    BY <1>1, <1>7, Sizes
  <1>12. /\ drained \in Seq(Int) /\ DOMAIN drained = 1 .. run
         /\ \A i \in Slots : put[i] # None /\ put[i] < H + run =>
              put[i] - H + 1 \in 1 .. run /\ drained[put[i] - H + 1] = put[i]
    BY <1>1, <1>2, <1>5, <1>6, <1>11, WindowValue
  <1>13. Ascending(drained, H, H + run)
    BY <1>1, <1>2, <1>5, <1>6, <1>11, WindowAscends
  <1>14. out' = slid \o drained
    BY DEF H, Buffers
  <1>. HIDE DEF drained
  <1>15. /\ Ascending(out', headN, H + run)
         /\ \A j \in DOMAIN slid : j \in DOMAIN out' /\ out'[j] = slid[j]
         /\ \A j \in DOMAIN drained :
              j + Len(slid) \in DOMAIN out' /\ out'[j + Len(slid)] = drained[j]
    <2>1. headN \in Int /\ H \in Int /\ H + run \in Int /\ headN <= H /\ H <= H + run
      BY <1>1, <1>2, <1>7
    <2>. QED BY <1>3, <1>12, <1>13, <1>14, <2>1, ConcatAscends
  <1>16. ASSUME NEW i \in Slots, put[i] # None PROVE HandsUp(put[i]) \/ buf'[i] = put[i]
    <2>1. CASE put[i] < H + run
      <3>1. put[i] - H + 1 \in DOMAIN drained /\ drained[put[i] - H + 1] = put[i]
        BY <1>12, <1>16, <2>1
      <3>. QED BY <1>15, <3>1 DEF HandsUp
    <2>. QED BY <1>9, <1>16, <2>1
  <1>17. ASSUME NEW i \in Slots, buf[i] # None PROVE HandsUp(buf[i]) \/ buf'[i] = buf[i]
    <2>1. CASE b[i] = buf[i]
      <3>1. put[i] = buf[i]
        BY <1>5, <1>17, <2>1
      <3>. QED BY <1>16, <1>17, <3>1
    <2>2. CASE \E j \in DOMAIN slid : slid[j] = buf[i]
      BY <1>15, <2>2 DEF HandsUp
    <2>. QED BY <1>3, <1>17, <2>1, <2>2
  <1>18. ASSUME NEW m \in Nat, H <= m, m < H + run PROVE HandsUp(m)
    <2>1. m - H \in 0 .. run - 1 /\ H + (m - H) = m /\ m # None
      BY <1>2, <1>7, <1>18 DEF None
    <2>2. put[Slot(m)] = m /\ Slot(m) \in Slots
      BY <1>7, <2>1, SlotOfFrame
    <2>3. m - H + 1 \in DOMAIN drained /\ drained[m - H + 1] = m
      BY <1>12, <1>18, <2>1, <2>2
    <2>. QED BY <1>15, <2>3 DEF HandsUp
  <1>19. headN' <= n + 1 \/ \E i \in Slots : buf[i] = headN' - 1
    <2>1. CASE run = 0
      BY <1>1, <1>2, <1>8, <2>1
    <2>2. CASE run # 0
      <3>1. run - 1 \in 0 .. run - 1 /\ H + (run - 1) \in Nat /\ H + (run - 1) = headN' - 1
        BY <1>2, <1>7, <1>8, <2>2
      <3>. DEFINE i == Slot(H + (run - 1))
      <3>2. i \in Slots /\ put[i] = headN' - 1 /\ put[i] # None
        BY <1>7, <3>1, SlotOfFrame DEF None
      <3>3. put[i] = n \/ put[i] = buf[i]
        BY <1>3, <1>5, <3>2
      <3>. HIDE DEF i
      <3>. QED BY <1>1, <1>2, <1>7, <1>8, <3>1, <3>2, <3>3
    <2>. QED BY <2>1, <2>2
  <1>20. \A i \in Slots : buf'[i] # None => buf'[i] = buf[i] \/ buf'[i] = n
    BY <1>3, <1>5, <1>9
  <1>21. H + run \in Nat /\ headN <= H + run
    BY <1>1, <1>2, <1>7
  <1>. QED BY <1>8, <1>9, <1>10, <1>15, <1>17, <1>18, <1>19, <1>20, <1>21 DEF Accepted, H
(* reorderInsert, its branches together.                                   *)
LEMMA AcceptStep ==
  ASSUME Types, WindowInv, StoredInv, ApInv, active, NEW n, Sendable(n), n >= headN,
         Accept(n)
  PROVE  Accepted(n) /\ started' = TRUE /\ UNCHANGED <<active, store, win>>
  <1>. DEFINE b == Clear(buf, head, VisitsFor(n))
              slid == Window(buf, head, VisitsFor(n))
              put == [b EXCEPT ![Slot(n)] = n]
              run == Ready(put, HeadFor(n) % SNSize)
  <1>1. n \in Nat
    BY DEF Sendable
  <1>2. /\ NewHead(n % SNSize) = HeadFor(n) % SNSize /\ Visited(n % SNSize) = VisitsFor(n)
        /\ Slot(n % SNSize) = Slot(n)
    BY <1>1, Slide, SlotOfFrame
  <1>3. started' = TRUE /\ UNCHANGED <<active, store, win>>
    BY DEF Accept
  <1>4. \/ /\ b[Slot(n)] # None
           /\ buf' = b /\ MoveHead(HeadFor(n) % SNSize)
           /\ out' = slid /\ stored' = stored - Released(buf, b)
        \/ /\ n % SNSize = HeadFor(n) % SNSize /\ stored - Released(buf, b) = 0
           /\ buf' = b /\ MoveHead(rtw_sn_inc(HeadFor(n) % SNSize))
           /\ out' = Append(slid, n) /\ stored' = stored - Released(buf, b)
        \/ Buffers(n, b, slid, put, run)
    BY <1>2, Zenon DEF Accept, SetBuf, Buffers
  <1>. HIDE DEF b, slid, put, run
  <1>5. b = Clear(buf, head, VisitsFor(n)) /\ slid = Window(buf, head, VisitsFor(n))
    BY DEF b, slid
  <1>6. ASSUME b[Slot(n)] # None, buf' = b, MoveHead(HeadFor(n) % SNSize),
               out' = slid, stored' = stored - Released(buf, b)
        PROVE  Accepted(n)
    BY <1>5, <1>6, DuplicateStep
  <1>7. ASSUME n % SNSize = HeadFor(n) % SNSize, stored - Released(buf, b) = 0,
               buf' = b, MoveHead(rtw_sn_inc(HeadFor(n) % SNSize)),
               out' = Append(slid, n), stored' = stored - Released(buf, b)
        PROVE  Accepted(n)
    BY <1>5, <1>7, FastStep
  <1>8. ASSUME Buffers(n, b, slid, put, run) PROVE Accepted(n)
    BY <1>8, BufferStep
  <1>. QED BY <1>3, <1>4, <1>6, <1>7, <1>8

(* What an arriving frame does: nothing to the window, or a step of it.    *)
LEMMA ArriveStep ==
  ASSUME Types, WindowInv, StoredInv, ApInv, NEW n \in Frames, Arrive(n)
  PROVE  /\ Sendable(n)
         /\ \/ /\ UNCHANGED <<tidVars, headN>>
               /\ out' = <<>> \/ (out' = <<n>> /\ (~active \/ (~started /\ n < headN)))
            \/ /\ active /\ n >= headN
               /\ Accepted(n) /\ started' = TRUE /\ UNCHANGED <<active, store, win>>
  <1>1. n \in Nat
    BY ReorderConstants DEF Frames
  <1>2. Sendable(n)
    BY <1>1 DEF Arrive, Sendable
  <1>3. Insert(n)
    BY DEF Arrive
  <1>4. CASE ~active
    BY <1>2, <1>3, <1>4 DEF Insert, Deliver
  <1>5. CASE active
    <2>1. rtw_sn_less(n % SNSize, head) <=> n < headN
      <3>1. n - headN <= SNSize \div 2 /\ 2 * (headN - n) < SNSize
        BY <1>1, <1>2, <1>5, Reach, Sizes DEF Types
      <3>2. headN \in Nat /\ head = headN % SNSize
        BY <1>5 DEF Types, WindowInv
      <3>. QED BY <1>1, <3>1, <3>2, LessIsBehind
    <2>2. CASE n < headN
      BY <1>2, <1>3, <1>5, <2>1, <2>2 DEF Insert, Deliver, Drop
    <2>3. CASE ~(n < headN)
      <3>1. Accept(n) /\ n >= headN
        BY <1>1, <1>3, <1>5, <2>1, <2>3 DEF Insert, Types
      <3>. QED BY <1>2, <1>5, <3>1, AcceptStep
    <2>. QED BY <2>2, <2>3
  <1>. QED BY <1>4, <1>5

(* What the sweep of the hole timeouts does.                               *)
LEMMA SweepStep ==
  ASSUME Types, WindowInv, StoredInv, ApInv, Sweep
  PROVE  /\ active /\ UNCHANGED <<active, started, win, store, apVars>>
         /\ \E i \in Slots : buf[i] # None /\ buf[i] = headN' - 1
         /\ headN' \in Nat /\ headN <= headN' /\ head' = headN' % SNSize
         /\ buf' \in Contents /\ Fits(buf', headN', win)
         /\ \A i \in Slots : buf'[i] # headN'
         /\ \A i \in Slots : buf'[i] # None => buf'[i] = buf[i]
         /\ stored' = Cardinality(Occupied(buf'))
         /\ Ascending(out', headN, headN')
         /\ \A i \in Slots : buf[i] # None => HandsUp(buf[i]) \/ buf'[i] = buf[i]
  <1>1. active /\ UNCHANGED <<active, started, win, store, apVars>>
    BY DEF Sweep
  <1>2. /\ buf \in Contents /\ headN \in Nat /\ win \in 1 .. WinMax /\ win \in 0 .. WinMax
        /\ head = headN % SNSize /\ Fits(buf, headN, win) /\ WinMax \in Nat
        /\ \A i \in Slots : buf[i] # headN
    BY <1>1, Sizes DEF Types, WindowInv, Contents, None
  <1>3. buf[Slot(head)] = None
    <2>1. 0 \in 0 .. WinMax - 1 /\ head + 0 = head /\ headN + 0 = headN
      BY <1>2, Sizes, ModDef
    <2>2. buf[Slot((headN % SNSize) + 0)] \in {None, headN + 0}
      BY <1>2, <2>1, SlotHolds
    <2>3. Slot(head) \in Slots
      BY <1>2, Sizes, ModDef, SlotType
    <2>. QED BY <1>2, <2>1, <2>2, <2>3
  <1>. DEFINE e == SweepEnd
  <1>4. /\ e > 0 /\ out' = Window(buf, head, e) /\ buf' = Clear(buf, head, e)
        /\ stored' = stored - Released(buf, buf') /\ MoveHead((head + e) % SNSize)
    BY <1>3 DEF Sweep, SetBuf
  <1>. HIDE DEF e
  <1>5. /\ e \in 1 .. win /\ \E i \in Slots : buf[i] = headN + e - 1
        /\ \A i \in Slots : buf[i] # headN + e
    <2>1. SweepEnd # 0
      BY <1>4 DEF e
    <2>. QED BY <1>2, <2>1, SweepValue DEF e
  <1>6. e \in 0 .. win /\ e \in 0 .. WinMax
    BY <1>2, <1>5
  <1>7. head' = (headN + e) % SNSize /\ headN' = headN + e
    <2>1. headN \in Int /\ e \in Int /\ SNSize \in Nat \ {0}
      BY <1>2, <1>6, Sizes
    <2>2. ((headN % SNSize) + e) % SNSize = (headN + e) % SNSize
      BY <2>1, ModSum, Zenon
    <2>3. MoveHead((headN + e) % SNSize)
      BY <1>2, <1>4, <2>2, Zenon
    <2>4. headN + e \in Nat /\ headN <= headN + e /\ headN + e < headN + SNSize
      BY <1>2, <1>6, Sizes
    <2>. QED BY <1>2, <2>3, <2>4, HeadMoves
  <1>8. buf' = Clear(buf, headN % SNSize, e) /\ out' = Window(buf, headN % SNSize, e)
    BY <1>2, <1>4, Zenon
  <1>9. /\ buf' \in Contents /\ Fits(buf', headN + e, win)
        /\ \A i \in Slots : buf'[i] # headN + e
        /\ \A i \in Slots : buf'[i] # None => buf'[i] = buf[i]
        /\ \A i \in Slots : buf[i] # None => buf'[i] = buf[i] \/ buf[i] < headN + e
        /\ Cardinality(Occupied(buf)) - Released(buf, buf') = Cardinality(Occupied(buf'))
    BY <1>2, <1>5, <1>6, <1>8, DrainedWindow
  <1>10. Ascending(out', headN, headN + e)
    BY <1>2, <1>6, <1>8, WindowAscends
  <1>11. ASSUME NEW i \in Slots, buf[i] # None PROVE HandsUp(buf[i]) \/ buf'[i] = buf[i]
    <2>1. CASE buf[i] < headN + e
      <3>1. /\ DOMAIN out' = 1 .. e
            /\ buf[i] - headN + 1 \in 1 .. e /\ out'[buf[i] - headN + 1] = buf[i]
        BY <1>2, <1>6, <1>8, <1>11, <2>1, WindowValue
      <3>. QED BY <3>1 DEF HandsUp
    <2>. QED BY <1>9, <1>11, <2>1
  <1>12. stored' = Cardinality(Occupied(buf'))
    BY <1>4, <1>9, Zenon DEF StoredInv
  <1>13. \E i \in Slots : buf[i] # None /\ buf[i] = headN' - 1
    BY <1>2, <1>5, <1>7 DEF None
  <1>14. headN + e \in Nat /\ headN <= headN + e
    BY <1>2, <1>6
  <1>. QED BY <1>1, <1>7, <1>9, <1>10, <1>11, <1>12, <1>13, <1>14
-----------------------------------------------------------------------------
(* An empty window has no frames stored.                                   *)
LEMMA EmptyWindow ==
  ASSUME NEW b
  PROVE  Cardinality(Occupied(b)) = 0 <=> \A i \in Slots : b[i] = None
  <1>1. IsFiniteSet(Slots)
    BY Sizes, FS_Interval DEF Slots
  <1>2. IsFiniteSet(Occupied(b))
    BY <1>1, FS_Subset DEF Occupied
  <1>3. Cardinality(Occupied(b)) = 0 <=> Occupied(b) = {}
    BY <1>2, FS_EmptySet
  <1>. QED BY <1>3 DEF Occupied

(* The walk over the whole window hands up everything buffered, in order.  *)
LEMMA WholeWindow ==
  ASSUME Types, WindowInv, active, out' = Window(buf, head, win)
  PROVE  /\ Ascending(out', headN, headN + win)
         /\ \A i \in Slots : buf[i] # None => HandsUp(buf[i])
         /\ \A j \in DOMAIN out' : \E i \in Slots : out'[j] = buf[i]
  <1>1. /\ buf \in Contents /\ headN \in Nat /\ win \in 0 .. WinMax
        /\ head = headN % SNSize /\ Fits(buf, headN, win)
    BY DEF Types, WindowInv, Contents
  <1>2. out' = Window(buf, headN % SNSize, win)
    BY <1>1, Zenon
  <1>3. Ascending(out', headN, headN + win)
    BY <1>1, <1>2, WindowAscends
  <1>4. ASSUME NEW i \in Slots, buf[i] # None PROVE HandsUp(buf[i])
    <2>1. buf[i] < headN + win
      BY <1>1, <1>4 DEF Fits
    <2>2. /\ DOMAIN out' = 1 .. win
          /\ buf[i] - headN + 1 \in 1 .. win /\ out'[buf[i] - headN + 1] = buf[i]
      BY <1>1, <1>2, <1>4, <2>1, WindowValue
    <2>. QED BY <2>2 DEF HandsUp
  <1>5. ASSUME NEW j \in DOMAIN out' PROVE \E i \in Slots : out'[j] = buf[i]
    <2>1. j \in 1 .. win /\ out'[j] = buf[Slot(head + j - 1)]
      BY <1>5 DEF Window
    <2>2. head + j - 1 \in Int
      BY <1>1, <2>1, Sizes DEF Types
    <2>. QED BY <2>1, <2>2, SlotType
  <1>. QED BY <1>3, <1>4, <1>5

(* What a new ADDBA hands up of the old window.                            *)
LEMMA FlushValue ==
  ASSUME Types, WindowInv, StoredInv, active, out' = Flush
  PROVE  /\ Ascending(out', headN, headN + win)
         /\ \A i \in Slots : buf[i] # None => HandsUp(buf[i])
         /\ \A j \in DOMAIN out' : \E i \in Slots : out'[j] = buf[i]
  <1>1. CASE stored > 0
    <2>1. out' = Window(buf, head, win)
      BY <1>1 DEF Flush, WindowInv
    <2>. QED BY <2>1, WholeWindow
  <1>2. CASE ~(stored > 0)
    <2>1. out' = <<>>
      BY <1>2 DEF Flush
    <2>2. stored \in Nat
      BY ReleasedValue DEF StoredInv
    <2>3. \A i \in Slots : buf[i] = None
      BY <1>2, <2>2, EmptyWindow DEF StoredInv
    <2>4. DOMAIN out' = {}
      BY <2>1
    <2>. QED BY <2>3, <2>4 DEF Ascending
  <1>. QED BY <1>1, <1>2

(* The window starts inactive and empty.                                   *)
LEMMA InitInv == Init => IInv
  <1>. SUFFICES ASSUME Init PROVE IInv
    OBVIOUS
  <1>1. Types
    BY ReorderConstants DEF Init, Types, None, Slots
  <1>2. ~active /\ \A i \in Slots : buf[i] = None
    BY DEF Init
  <1>3. WindowInv
    BY <1>2 DEF WindowInv, Fits
  <1>4. StoredInv
    BY <1>2, EmptyWindow DEF Init, StoredInv
  <1>5. ApInv
    BY <1>1, <1>2 DEF Init, ApInv, Types
  <1>. QED BY <1>1, <1>3, <1>4, <1>5 DEF IInv

(* A sequence number is a number.                                          *)
LEMMA NumberType ==
  ASSUME NEW a \in Nat
  PROVE  a % SNSize \in Nat
  <1>1. a % SNSize \in 0 .. SNSize - 1
    BY Sizes, ModDef
  <1>. QED BY <1>1

(* As head moves on, the access point gets no further ahead of it.         *)
LEMMA RoomGrows ==
  ASSUME Types, ApInv, active, headN' \in Nat, headN <= headN'
  PROVE  base + win - headN' < SNSize \div 2
  <1>1. base + win - headN < SNSize \div 2 /\ SNSize \div 2 \in Nat
    BY Sizes DEF ApInv
  <1>2. base \in Nat /\ win \in Nat /\ headN \in Nat
    BY Sizes DEF Types
  <1>3. \A a, b, c, d, h \in Nat : c <= d /\ a + b - c < h => a + b - d < h
    OBVIOUS
  <1>. QED BY <1>1, <1>2, <1>3, Zenon

(* An arriving frame.                                                      *)
LEMMA ArriveInv ==
  ASSUME IInv, NEW n \in Frames, Arrive(n)
  PROVE  IInv'
  <1>. USE DEF IInv
  <1>1. Sendable(n) /\ n \in Nat
    BY ArriveStep DEF Sendable
  <1>2. /\ UNCHANGED <<base, apWin, ssn>> /\ next' \in Nat /\ next' >= next
        /\ n < next' /\ Top' = Top
    BY <1>1 DEF Arrive, Top, Types
  <1>3. CASE UNCHANGED <<tidVars, headN>>
    <2>1. Types'
      BY <1>2, <1>3 DEF Types, tidVars
    <2>2. WindowInv'
      BY <1>2, <1>3 DEF WindowInv, Fits, tidVars
    <2>3. StoredInv'
      BY <1>3 DEF StoredInv, Occupied, tidVars
    <2>4. \A i \in Slots : buf[i] # None => buf[i] \in Nat
      BY DEF Types
    <2>5. ApInv'
      BY <1>2, <1>3, <2>4 DEF ApInv, Types, tidVars
    <2>. QED BY <2>1, <2>2, <2>3, <2>5
  <1>4. CASE /\ active /\ n >= headN
             /\ Accepted(n) /\ started' = TRUE /\ UNCHANGED <<active, store, win>>
    <2>1. /\ headN' \in Nat /\ headN <= headN' /\ head' = headN' % SNSize
          /\ headN' <= n + 1 \/ \E i \in Slots : buf[i] = headN' - 1
          /\ buf' \in Contents /\ Fits(buf', headN', win)
          /\ \A i \in Slots : buf'[i] # headN'
          /\ \A i \in Slots : buf'[i] # None => buf'[i] = buf[i] \/ buf'[i] = n
          /\ stored' = Cardinality(Occupied(buf'))
      BY <1>4 DEF Accepted
    <2>2. n < Top /\ Top \in Nat
      BY <1>1, <1>4, Reach, Sizes DEF Types, Top
    <2>3. Types'
      <3>1. head' \in Nat
        BY <2>1, NumberType
      <3>. QED BY <1>2, <1>4, <2>1, <3>1 DEF Types, Contents
    <2>4. WindowInv'
      <3>1. (active => store /\ win >= 1 /\ head = headN % SNSize)'
        BY <1>4, <2>1 DEF WindowInv
      <3>2. Fits(buf, headN, win)'
        BY <1>4, <2>1 DEF Fits
      <3>3. (\A i \in Slots : buf[i] # None => active /\ headN # buf[i])'
        BY <1>4, <2>1
      <3>. QED BY <1>4, <3>1, <3>2, <3>3 DEF WindowInv
    <2>5. StoredInv'
      BY <2>1 DEF StoredInv, Occupied
    <2>6. \A i \in Slots : buf'[i] # None => buf'[i] < Top /\ buf'[i] < next'
      <3>1. \A i \in Slots : buf[i] # None => buf[i] \in Nat /\ buf[i] < Top /\ buf[i] < next
        BY DEF Types, ApInv
      <3>. QED BY <1>1, <1>2, <2>1, <2>2, <3>1 DEF Types
    <2>7. headN' <= Top
      <3>1. CASE headN' <= n + 1
        BY <1>1, <2>1, <2>2, <3>1
      <3>2. ASSUME NEW i \in Slots, buf[i] = headN' - 1 PROVE headN' <= Top
        <4>1. CASE buf[i] = None
          BY <1>1, <2>1, <2>2, <3>2, <4>1 DEF None
        <4>2. CASE buf[i] # None
          BY <2>1, <2>2, <3>2, <4>2 DEF ApInv
        <4>. QED BY <4>1, <4>2
      <3>. QED BY <2>1, <3>1, <3>2
    <2>8. base + win - headN' < SNSize \div 2
      BY <1>4, <2>1, RoomGrows
    <2>9. ssn <= headN'
      BY <1>4, <2>1 DEF ApInv, Types
    <2>10. ApInv'
      BY <1>2, <1>4, <2>6, <2>7, <2>8, <2>9 DEF ApInv, Types
    <2>. QED BY <2>3, <2>4, <2>5, <2>10
  <1>. QED BY <1>3, <1>4, ArriveStep

(* The sweep of the hole timeouts.                                         *)
LEMMA SweepInv ==
  ASSUME IInv, Sweep
  PROVE  IInv'
  <1>. USE DEF IInv
  <1>1. /\ active /\ UNCHANGED <<active, started, win, store, apVars>>
        /\ \E i \in Slots : buf[i] # None /\ buf[i] = headN' - 1
        /\ headN' \in Nat /\ headN <= headN' /\ head' = headN' % SNSize
        /\ buf' \in Contents /\ Fits(buf', headN', win)
        /\ \A i \in Slots : buf'[i] # headN'
        /\ \A i \in Slots : buf'[i] # None => buf'[i] = buf[i]
        /\ stored' = Cardinality(Occupied(buf'))
    BY SweepStep
  <1>2. started
    BY <1>1 DEF WindowInv
  <1>3. Types'
    <2>1. head' \in Nat
      BY <1>1, NumberType
    <2>. QED BY <1>1, <2>1 DEF Types, Contents, apVars
  <1>4. WindowInv'
    <2>1. (active => store /\ win >= 1 /\ head = headN % SNSize)'
      BY <1>1 DEF WindowInv
    <2>2. Fits(buf, headN, win)'
      BY <1>1 DEF Fits
    <2>3. (\A i \in Slots : buf[i] # None => active /\ headN # buf[i])'
      BY <1>1
    <2>. QED BY <1>1, <1>2, <2>1, <2>2, <2>3 DEF WindowInv
  <1>5. StoredInv'
    BY <1>1 DEF StoredInv, Occupied
  <1>6. Top \in Nat /\ Top' = Top
    BY <1>1, Sizes DEF Top, Types, apVars
  <1>7. headN' <= Top
    <2>1. PICK i \in Slots : buf[i] # None /\ buf[i] = headN' - 1
      BY <1>1
    <2>2. buf[i] < Top
      BY <2>1 DEF ApInv
    <2>. QED BY <1>1, <1>6, <2>1, <2>2
  <1>8. base + win - headN' < SNSize \div 2 /\ ssn <= headN'
    BY <1>1, RoomGrows DEF ApInv, Types
  <1>9. ApInv'
    BY <1>1, <1>6, <1>7, <1>8 DEF ApInv, Types, apVars
  <1>. QED BY <1>3, <1>4, <1>5, <1>9
(* The access point is done with a frame.                                  *)
LEMMA AbandonInv ==
  ASSUME IInv, Abandon
  PROVE  IInv'
  <1>. USE DEF IInv
  <1>1. /\ UNCHANGED <<tidVars, headN, apWin, ssn>> /\ base' = base + 1
        /\ next' = IF base = next THEN next + 1 ELSE next
        /\ active => base' + win - headN < SNSize \div 2
    BY DEF Abandon
  <1>2. Types'
    BY <1>1 DEF Types, tidVars
  <1>3. WindowInv'
    BY <1>1 DEF WindowInv, Fits, tidVars
  <1>4. StoredInv'
    BY <1>1 DEF StoredInv, Occupied, tidVars
  <1>5. base' <= next' /\ next <= next' /\ next' \in Nat
    BY <1>1 DEF ApInv, Types
  <1>6. Top \in Nat /\ Top' \in Nat /\ Top <= Top'
    BY <1>1, Sizes DEF Top, Types
  <1>7. ASSUME active PROVE ssn - base' + WinMax < SNSize \div 2
    <2>1. ssn - base + WinMax < SNSize \div 2 /\ SNSize \div 2 \in Nat
      BY <1>7, Sizes DEF ApInv
    <2>2. \A h \in Nat : ssn - base + WinMax < h => ssn - base' + WinMax < h
      BY <1>1, Sizes DEF Types
    <2>. QED BY <2>1, <2>2, Zenon
  <1>8. \A i \in Slots : buf[i] # None => buf[i] < Top' /\ buf[i] < next'
    <2>1. \A i \in Slots : buf[i] # None => buf[i] \in Nat /\ buf[i] < Top /\ buf[i] < next
      BY DEF Types, ApInv
    <2>. QED BY <1>5, <1>6, <2>1 DEF Types
  <1>9. active => headN <= Top'
    BY <1>6 DEF ApInv, Types
  <1>10. ApInv'
    BY <1>1, <1>5, <1>7, <1>8, <1>9 DEF ApInv, tidVars
  <1>. QED BY <1>2, <1>3, <1>4, <1>10

(* A window that is taken away, or not there, is empty.                    *)
LEMMA ClosedInv ==
  ASSUME IInv, UNCHANGED <<base, next>>, ssn' \in Nat, apWin' \in Nat,
         head' \in Nat, headN' \in Nat, win' \in 0 .. WinMax,
         buf' \in [Slots -> Nat \cup {None}], \A i \in Slots : buf'[i] = None,
         stored' = 0, ~active'
  PROVE  IInv'
  <1>. USE DEF IInv
  <1>1. Types'
    BY DEF Types
  <1>2. WindowInv'
    BY DEF WindowInv, Fits
  <1>3. StoredInv'
    <2>1. Cardinality(Occupied(buf')) = 0
      BY EmptyWindow
    <2>. QED BY <2>1 DEF StoredInv, Occupied
  <1>4. ApInv'
    BY DEF ApInv
  <1>. QED BY <1>1, <1>2, <1>3, <1>4

(* An ADDBA opens a window that is empty and starts at the next frame.     *)
LEMMA AddbaInv ==
  ASSUME IInv, NEW req \in Requests, NEW ok \in BOOLEAN, NEW resp \in BOOLEAN,
         handleAddbaReq(req, ok, resp)
  PROVE  IInv'
  <1>. USE DEF IInv
  <1>. DEFINE w == Granted(req)
  <1>1. w \in 1 .. WinMax
    BY Sizes, ReorderConstants DEF Granted
  <1>2. /\ next - base + WinMax < SNSize \div 2 /\ ssn' = next
        /\ apWin' = (IF resp THEN w ELSE 0)
        /\ reorderActivate(next, w, ok) /\ UNCHANGED <<base, next>>
    BY DEF handleAddbaReq
  <1>3. ssn' \in Nat /\ apWin' \in Nat /\ (apWin' = 0 \/ apWin' = w)
    BY <1>1, <1>2 DEF Types
  <1>. HIDE DEF w
  <1>4. CASE /\ store' = TRUE /\ active' = TRUE /\ started' = FALSE
             /\ head' = next % SNSize /\ headN' = next
             /\ win' = (IF w > WinMax THEN WinMax ELSE w) /\ stored' = 0
             /\ buf' = [i \in Slots |-> None]
    <2>1. /\ store' /\ active' /\ win' = w /\ headN' = next /\ head' = next % SNSize
          /\ \A i \in Slots : buf'[i] = None
      BY <1>1, <1>4, Sizes
    <2>2. Types'
      <3>1. next \in Nat /\ head' \in Nat
        BY <2>1, NumberType DEF Types
      <3>. QED BY <1>1, <1>2, <1>3, <1>4, <2>1, <3>1, Sizes DEF Types
    <2>3. WindowInv'
      BY <1>1, <1>2, <2>1, Sizes DEF WindowInv, Fits
    <2>4. StoredInv'
      <3>1. Cardinality(Occupied(buf')) = 0
        BY <2>1, EmptyWindow
      <3>. QED BY <1>4, <3>1 DEF StoredInv, Occupied
    <2>5. ssn' - base' + WinMax < SNSize \div 2 /\ base' + win' - headN' < SNSize \div 2
      <3>1. base \in Nat /\ next \in Nat /\ base <= next /\ SNSize \div 2 \in Nat /\ WinMax \in Nat
        BY Sizes DEF Types, ApInv
      <3>2. \A h \in Nat : next - base + WinMax < h => base + w - next < h
        BY <1>1, <3>1
      <3>3. base + w - next < SNSize \div 2
        BY <1>2, <3>1, <3>2, Zenon
      <3>. QED BY <1>2, <2>1, <3>3, Zenon
    <2>6. (ssn <= headN /\ headN <= Top)'
      BY <1>2, <2>1, Sizes DEF Top, Types
    <2>7. base' <= next'
      BY <1>2 DEF ApInv
    <2>. QED BY <1>3, <2>1, <2>2, <2>3, <2>4, <2>5, <2>6, <2>7 DEF ApInv
  <1>5. CASE /\ ~store /\ active' = FALSE
             /\ UNCHANGED <<started, head, win, stored, store, buf, old, headN>>
    <2>1. ~active' /\ \A i \in Slots : buf[i] = None
      BY <1>5 DEF WindowInv
    <2>2. stored = 0
      BY <2>1, EmptyWindow DEF StoredInv
    <2>. QED BY <1>2, <1>3, <1>5, <2>1, <2>2, ClosedInv DEF Types
  <1>. QED BY <1>2, <1>4, <1>5 DEF reorderActivate

(* A DELBA flushes and closes the window.                                  *)
LEMMA DelbaInv ==
  ASSUME IInv, handleDelba
  PROVE  IInv'
  <1>. USE DEF IInv
  <1>1. apWin' = 0 /\ apWin' \in Nat /\ UNCHANGED <<base, next, ssn>> /\ reorderDeactivate
    BY DEF handleDelba
  <1>2. CASE ~active /\ Drop
    <2>1. UNCHANGED <<tidVars, headN>>
      BY <1>2 DEF Drop
    <2>2. ~active' /\ \A i \in Slots : buf[i] = None
      BY <1>2, <2>1 DEF WindowInv, tidVars
    <2>3. stored = 0
      BY <2>2, EmptyWindow DEF StoredInv
    <2>. QED BY <1>1, <2>1, <2>2, <2>3, ClosedInv DEF Types, tidVars
  <1>3. CASE active /\ ~(~active /\ Drop)
    <2>1. /\ active' = FALSE /\ stored' = 0 /\ buf' = Clear(buf, head, win)
          /\ UNCHANGED <<head, win, headN>>
      BY <1>1, <1>3 DEF reorderDeactivate, SetBuf
    <2>2. /\ buf \in Contents /\ headN \in Nat /\ win \in 0 .. WinMax
          /\ head = headN % SNSize /\ Fits(buf, headN, win)
      BY <1>3 DEF Types, WindowInv, Contents
    <2>3. buf' = Clear(buf, headN % SNSize, win)
      BY <2>1, <2>2, Zenon
    <2>4. /\ buf' \in Contents
          /\ \A i \in Slots :
               buf'[i] = IF buf[i] # None /\ buf[i] < headN + win THEN None ELSE buf[i]
      BY <2>2, <2>3, ClearValue
    <2>5. \A i \in Slots : buf'[i] = None
      BY <2>2, <2>4 DEF Fits
    <2>6. ~active'
      BY <2>1
    <2>. QED BY <1>1, <2>1, <2>4, <2>5, <2>6, ClosedInv DEF Types, Contents
  <1>. QED BY <1>1, <1>2, <1>3 DEF reorderDeactivate

(* Every step preserves the inductive invariant.                           *)
LEMMA InvStep == IInv /\ [Next]_vars => IInv'
  <1>. SUFFICES ASSUME IInv, [Next]_vars PROVE IInv'
    OBVIOUS
  <1>1. ASSUME NEW n \in Frames, Arrive(n) PROVE IInv'
    BY <1>1, ArriveInv
  <1>2. CASE Abandon
    BY <1>2, AbandonInv
  <1>3. ASSUME NEW req \in Requests, NEW ok \in BOOLEAN, NEW resp \in BOOLEAN,
               handleAddbaReq(req, ok, resp)
        PROVE  IInv'
    BY <1>3, AddbaInv
  <1>4. CASE handleDelba
    BY <1>4, DelbaInv
  <1>5. CASE reorderFreeAll
    <2>1. /\ ~active' /\ buf' \in [Slots -> Nat \cup {None}] /\ stored' = 0
          /\ \A i \in Slots : buf'[i] = None
      BY <1>5 DEF reorderFreeAll
    <2>2. UNCHANGED <<head, win, base, next, ssn, headN>> /\ apWin' \in Nat
      BY <1>5 DEF reorderFreeAll
    <2>. QED BY <2>1, <2>2, ClosedInv DEF IInv, Types
  <1>6. CASE Tick \/ UNCHANGED vars
    <2>1. UNCHANGED <<active, started, head, win, stored, store, buf, apVars, headN>>
      BY <1>6 DEF Tick, vars, tidVars
    <2>. QED BY <2>1 DEF IInv, Types, WindowInv, Fits, StoredInv, Occupied, ApInv, Top, apVars
  <1>7. CASE Sweep
    BY <1>7, SweepInv
  <1>. QED BY <1>1, <1>2, <1>3, <1>4, <1>5, <1>6, <1>7 DEF Next
-----------------------------------------------------------------------------
(* Slots and sequence numbers stand for the frames they should, in every   *)
(* reachable state: the invariant of the modular arithmetic.               *)
THEOREM WindowIsSound == Spec => []BufferInWindow
  <1>1. IInv => BufferInWindow
    BY DEF IInv, WindowInv, StoredInv, Fits, BufferInWindow, Occupied, Types, None
  <1>2. Spec => []IInv
    BY InitInv, InvStep, PTL DEF Spec
  <1>. QED BY <1>1, <1>2, PTL

(* One step hands up frames of the session in order, and passes them.      *)
DeliversStep ==
  active =>
    \A i \in DOMAIN out' : out'[i] # None /\ out'[i] >= ssn =>
      /\ headN <= out'[i]
      /\ active' /\ ssn' = ssn => out'[i] < headN'
      /\ \A j \in DOMAIN out' : i < j /\ out'[j] # None => out'[i] < out'[j]

(* A session step that passes what it hands up.                            *)
LEMMA PassesInOrder ==
  ASSUME NEW hi, Ascending(out', headN, hi), active' /\ ssn' = ssn => hi = headN'
  PROVE  DeliversStep
  BY DEF Ascending, DeliversStep

(* Nothing handed up is in order.                                          *)
LEMMA NothingInOrder ==
  ASSUME out' = <<>>
  PROVE  DeliversStep
  <1>1. DOMAIN out' = {}
    OBVIOUS
  <1>. QED BY <1>1 DEF DeliversStep

(* In a session frames are delivered once and in order of their numbers.   *)
THEOREM InOrder == Spec => DeliversInOrder
  <1>1. ASSUME IInv, [Next]_vars, ~UNCHANGED vars PROVE DeliversStep
    <2>. SUFFICES ASSUME active PROVE DeliversStep
      BY DEF DeliversStep
    <2>. USE <1>1 DEF IInv
    <2>1. ASSUME NEW n \in Frames, Arrive(n) PROVE DeliversStep
      <3>1. CASE out' = <<>>
        BY <3>1, NothingInOrder
      <3>2. CASE out' = <<n>> /\ ~started /\ n < headN
        <4>1. headN = ssn /\ n \in Nat /\ ssn \in Nat
          BY <2>1, <3>2, ReorderConstants DEF WindowInv, Types, Frames
        <4>2. \A i \in DOMAIN out' : out'[i] = n
          BY <3>2
        <4>. QED BY <3>2, <4>1, <4>2 DEF DeliversStep
      <3>3. CASE Accepted(n)
        <4>1. Ascending(out', headN, headN')
          BY <3>3 DEF Accepted
        <4>. QED BY <4>1, PassesInOrder
      <3>. QED BY <2>1, <3>1, <3>2, <3>3, ArriveStep
    <2>2. CASE Abandon
      BY <2>2, NothingInOrder DEF Abandon
    <2>3. ASSUME NEW req \in Requests, NEW ok \in BOOLEAN, NEW resp \in BOOLEAN,
                 handleAddbaReq(req, ok, resp)
          PROVE  DeliversStep
      <3>1. out' = Flush /\ ssn' = next
        BY <2>3 DEF handleAddbaReq, reorderActivate
      <3>2. /\ Ascending(out', headN, headN + win)
            /\ \A j \in DOMAIN out' : \E i \in Slots : out'[j] = buf[i]
        BY <3>1, FlushValue
      <3>3. ASSUME NEW i \in DOMAIN out', out'[i] # None PROVE ssn' # ssn
        <4>1. PICK k \in Slots : out'[i] = buf[k]
          BY <3>2
        <4>2. buf[k] \in Nat /\ buf[k] < next /\ headN <= buf[k]
          BY <3>2, <3>3, <4>1 DEF ApInv, Types, Ascending
        <4>. QED BY <3>1, <4>2 DEF ApInv, Types
      <3>. QED BY <3>2, <3>3 DEF DeliversStep, Ascending
    <2>4. CASE handleDelba
      <3>1. out' = Window(buf, head, win) /\ ~active'
        BY <2>4 DEF handleDelba, reorderDeactivate, WindowInv
      <3>2. Ascending(out', headN, headN + win)
        BY <3>1, WholeWindow
      <3>. QED BY <3>1, <3>2, PassesInOrder
    <2>5. CASE reorderFreeAll
      BY <2>5, NothingInOrder DEF reorderFreeAll
    <2>6. CASE Tick
      BY <2>6, NothingInOrder DEF Tick
    <2>7. CASE Sweep
      <3>1. Ascending(out', headN, headN')
        BY <2>7, SweepStep
      <3>. QED BY <3>1, PassesInOrder
    <2>. QED BY <2>1, <2>2, <2>3, <2>4, <2>5, <2>6, <2>7 DEF Next
  <1>2. IInv /\ [Next]_vars => [DeliversStep]_vars
    BY <1>1
  <1>3. Spec => []IInv
    BY InitInv, InvStep, PTL DEF Spec
  <1>. QED BY <1>2, <1>3, PTL DEF Spec, DeliversInOrder, DeliversStep

(* One step keeps or hands up what is buffered.                            *)
KeepsStep ==
  ~reorderFreeAll => \A i \in Occupied(buf) : HandsUp(buf[i]) \/ buf'[i] = buf[i]

(* No slide, timeout, DELBA or ADDBA loses a buffered frame.               *)
THEOREM NoFrameLost == Spec => NothingIsLost
  <1>1. ASSUME IInv, [Next]_vars PROVE KeepsStep
    <2>. SUFFICES ASSUME ~reorderFreeAll, NEW i \in Slots, buf[i] # None
                  PROVE  HandsUp(buf[i]) \/ buf'[i] = buf[i]
      BY DEF KeepsStep, Occupied
    <2>. USE <1>1 DEF IInv
    <2>0. active
      BY DEF WindowInv
    <2>1. ASSUME NEW n \in Frames, Arrive(n) PROVE HandsUp(buf[i]) \/ buf'[i] = buf[i]
      BY <2>1, ArriveStep DEF tidVars, Accepted
    <2>2. CASE Abandon \/ Tick \/ UNCHANGED vars
      BY <2>2 DEF Abandon, Tick, vars, tidVars
    <2>3. ASSUME NEW req \in Requests, NEW ok \in BOOLEAN, NEW resp \in BOOLEAN,
                 handleAddbaReq(req, ok, resp)
          PROVE  HandsUp(buf[i])
      <3>1. out' = Flush
        BY <2>3 DEF handleAddbaReq, reorderActivate
      <3>. QED BY <2>0, <3>1, FlushValue
    <2>4. CASE handleDelba
      <3>1. out' = Window(buf, head, win)
        BY <2>0, <2>4 DEF handleDelba, reorderDeactivate, WindowInv
      <3>. QED BY <2>0, <3>1, WholeWindow
    <2>5. CASE Sweep
      BY <2>5, SweepStep
    <2>. QED BY <2>1, <2>2, <2>3, <2>4, <2>5 DEF Next
  <1>2. IInv /\ [Next]_vars => [KeepsStep]_vars
    BY <1>1
  <1>3. Spec => []IInv
    BY InitInv, InvStep, PTL DEF Spec
  <1>. QED BY <1>2, <1>3, PTL DEF Spec, NothingIsLost, KeepsStep

(* One step that passes only what is handed up or no longer in flight.     *)
SlidesStep ==
  \A n \in Frames : Arrive(n) =>
    \A m \in headN .. headN' - 1 : HandsUp(m) \/ m < base \/ m < ssn

(* The agreed window keeps a slide behind the frames still in flight.      *)
THEOREM SlideIsSafe == Spec => SlideKeepsInFlight
  <1>1. ASSUME IInv PROVE SlidesStep
    <2>. SUFFICES ASSUME NEW n \in Frames, Arrive(n), NEW m \in Int, headN <= m,
                         m < headN', ~(m < base), ~(m < ssn)
                  PROVE  HandsUp(m)
      <3>1. \A n \in Frames : Arrive(n) => headN \in Int /\ headN' \in Int
        <4>1. headN \in Int
          BY <1>1 DEF IInv, Types
        <4>2. ASSUME NEW n \in Frames, Arrive(n) PROVE headN' \in Int
          <5>1. CASE Accepted(n)
            BY <5>1 DEF Accepted
          <5>2. CASE UNCHANGED <<tidVars, headN>>
            BY <4>1, <5>2
          <5>. QED BY <1>1, <4>2, <5>1, <5>2, ArriveStep DEF IInv
        <4>. QED BY <4>1, <4>2
      <3>2. \A a, c \in Int : \A m \in a .. c - 1 : m \in Int /\ a <= m /\ m < c
        OBVIOUS
      <3>. QED BY <3>1, <3>2 DEF SlidesStep
    <2>. USE <1>1 DEF IInv
    <2>1. headN \in Nat /\ base \in Nat /\ ssn \in Nat /\ win \in Nat
      BY Sizes DEF Types
    <2>2. CASE UNCHANGED <<tidVars, headN>>
      BY <2>1, <2>2
    <2>3. CASE active /\ n >= headN /\ Accepted(n)
      <3>1. Sendable(n) /\ n \in Nat
        BY ArriveStep DEF Sendable
      <3>2. n - win < base \/ n - win < ssn
        BY <2>3, <3>1, Reach
      <3>3. HeadFor(n) <= m
        BY <2>1, <3>1, <3>2 DEF HeadFor
      <3>4. headN' \in Nat
        BY <2>3 DEF Accepted
      <3>5. m \in Nat
        BY <2>1
      <3>. QED BY <2>3, <3>3, <3>4, <3>5 DEF Accepted
    <2>. QED BY <2>2, <2>3, ArriveStep
  <1>2. IInv /\ [Next]_vars => [SlidesStep]_vars
    BY <1>1
  <1>3. Spec => []IInv
    BY InitInv, InvStep, PTL DEF Spec
  <1>. QED BY <1>2, <1>3, PTL DEF Spec, SlideKeepsInFlight, SlidesStep
=============================================================================
