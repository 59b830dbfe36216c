--------------------------- MODULE UsbdDisplay_proofs --------------------------
(***************************************************************************)
(* Machine-checked proofs about UsbdDisplay, for every number and size of  *)
(* frames, from the theorems on the ring.                                  *)
(***************************************************************************)
EXTENDS UsbdDisplay, RingBuffer_proofs, FiniteSetTheorems

Blocks == Frames \cup {None}

-----------------------------------------------------------------------------
(* What the pool does with its rings, unit by unit.                        *)

LEMMA SizesTyped ==
    /\ Size \in Nat \ {0} /\ Wrap \in Nat \ {0} /\ Wrap > Size
    /\ IsFiniteSet(Frames) /\ Cardinality(Frames) = Size /\ None \notin Frames
  BY RingAssumption, DisplayAssumption

LEMMA EmptyUsed ==
    ASSUME NEW Data, NEW r \in Ring(Data)
    PROVE  IsEmpty(r) <=> Used(r) = 0
  <1>1. r.in \in 0 .. Wrap - 1 /\ r.out \in 0 .. Wrap - 1
    BY DEF Ring
  <1>2. Used(r) = IF r.in >= r.out THEN r.in - r.out ELSE r.in - r.out + Wrap
    BY <1>1, SizesTyped, Difference DEF Used
  <1> QED BY <1>1, <1>2, SizesTyped DEF IsEmpty

(* The front of a ring, and what is left of it when that is taken.         *)
LEMMA FrontTaken ==
    ASSUME NEW Data, NEW r \in Ring(Data), Used(r) > 0
    PROVE  /\ Popped(r, 1) \in Ring(Data) /\ Used(Popped(r, 1)) = Used(r) - 1
           /\ Peeked(r, 1)[1] = Content(r)[1] /\ Content(r)[1] \in Data
           /\ Content(Popped(r, 1)) = SubSeq(Content(r), 2, Used(r))
           /\ Popped(r, 1).pool = r.pool /\ Popped(r, 1).in = r.in
  <1>1. Used(r) \in Nat
    BY UsedType, SizesTyped
  <1>2. Popped(r, 1) \in Ring(Data) /\ Used(Popped(r, 1)) = Used(r) - 1
    BY <1>1, UsedPopped
  <1>3. Peeked(r, 1) = SubSeq(Content(r), 1, 1) /\ Content(Popped(r, 1)) = SubSeq(Content(r), 2, Used(r))
    <2>1. ASSUME NEW n \in Nat, n <= Used(r)
          PROVE  /\ Peeked(r, n) = SubSeq(Content(r), 1, n)
                 /\ Content(Popped(r, n)) = SubSeq(Content(r), n + 1, Used(r))
      BY <2>1, ReadTakesFront, Zenon
    <2>2. 1 \in Nat /\ 1 <= Used(r) /\ 1 + 1 = 2
      BY <1>1
    <2> QED BY <2>1, <2>2
  <1>4. Content(r) \in Seq(Data) /\ Len(Content(r)) = Used(r)
    BY ContentType
  <1>5. Content(r)[1] \in Data
    BY <1>1, <1>4, ElementOfSeq
  <1>6. SubSeq(Content(r), 1, 1)[1] = Content(r)[1]
    BY <1>1, <1>4
  <1>7. Popped(r, 1).pool = r.pool /\ Popped(r, 1).in = r.in
    BY DEF Popped, Ring
  <1> QED BY <1>2, <1>3, <1>5, <1>6, <1>7

(* The sets of what is in a sequence.                                      *)
LEMMA ElementsOfConcat ==
    ASSUME NEW S, NEW s \in Seq(S), NEW t \in Seq(S)
    PROVE  Elements(s \o t) = Elements(s) \cup Elements(t)
  <1> DEFINE u == s \o t
  <1>1. /\ u \in Seq(S) /\ Len(u) = Len(s) + Len(t)
        /\ \A i \in 1 .. Len(s) + Len(t) : u[i] = IF i <= Len(s) THEN s[i] ELSE t[i - Len(s)]
    BY ConcatProperties
  <1>2. /\ Len(s) \in Nat /\ Len(t) \in Nat
        /\ DOMAIN s = 1 .. Len(s) /\ DOMAIN t = 1 .. Len(t) /\ DOMAIN u = 1 .. Len(u)
    BY <1>1, LenProperties
  <1> HIDE DEF u
  <1>3. ASSUME NEW k \in DOMAIN u
        PROVE  u[k] \in Elements(s) \cup Elements(t)
    <2>1. k \in 1 .. Len(s) + Len(t)
      BY <1>1, <1>2
    <2>2. CASE k <= Len(s)
      BY <1>1, <1>2, <2>1, <2>2 DEF Elements
    <2>3. CASE k > Len(s)
      <3>1. k - Len(s) \in DOMAIN t /\ u[k] = t[k - Len(s)]
        BY <1>1, <1>2, <2>1, <2>3
      <3> QED BY <3>1 DEF Elements
    <2> QED BY <1>2, <2>1, <2>2, <2>3
  <1>4. ASSUME NEW k \in DOMAIN s
        PROVE  s[k] \in Elements(u)
    <2>1. k \in DOMAIN u /\ u[k] = s[k]
      BY <1>1, <1>2
    <2> QED BY <2>1 DEF Elements
  <1>5. ASSUME NEW k \in DOMAIN t
        PROVE  t[k] \in Elements(u)
    <2>1. k + Len(s) \in DOMAIN u /\ u[k + Len(s)] = t[k]
      BY <1>1, <1>2
    <2> QED BY <2>1 DEF Elements
  <1>6. Elements(u) = Elements(s) \cup Elements(t)
    BY <1>3, <1>4, <1>5 DEF Elements
  <1> QED BY <1>6 DEF u

LEMMA ElementsOfOne ==
    ASSUME NEW x
    PROVE  Elements(<<x>>) = {x} /\ Elements(<<>>) = {}
  BY DEF Elements

(* Taking the front takes one block out, which may still be elsewhere.     *)
LEMMA ElementsOfFront ==
    ASSUME NEW Data, NEW r \in Ring(Data), Used(r) > 0
    PROVE  Elements(Content(r)) = Elements(Content(Popped(r, 1))) \cup {Content(r)[1]}
  <1> DEFINE c == Content(r)
             d == Content(Popped(r, 1))
  <1>1. /\ c \in Seq(Data) /\ Len(c) = Used(r) /\ Used(r) \in Nat
    BY ContentType, UsedType, SizesTyped
  <1>2. d = SubSeq(c, 2, Used(r))
    BY FrontTaken
  <1>3. DOMAIN c = 1 .. Used(r) /\ DOMAIN d = 1 .. Used(r) - 1
    BY <1>1, <1>2
  <1>4. \A k \in 1 .. Used(r) - 1 : d[k] = c[k + 1]
    BY <1>1, <1>2
  <1> HIDE DEF c, d
  <1>5. ASSUME NEW k \in DOMAIN c
        PROVE  c[k] \in Elements(d) \cup {c[1]}
    <2>1. CASE k = 1
      BY <2>1
    <2>2. CASE k # 1
      <3>1. k - 1 \in DOMAIN d /\ d[k - 1] = c[k]
        BY <1>1, <1>3, <1>4, <2>2
      <3> QED BY <3>1 DEF Elements
    <2> QED BY <2>1, <2>2
  <1>6. ASSUME NEW k \in DOMAIN d
        PROVE  d[k] \in Elements(c)
    <2>1. k + 1 \in DOMAIN c /\ c[k + 1] = d[k]
      BY <1>1, <1>3, <1>4
    <2> QED BY <2>1 DEF Elements
  <1>7. c[1] \in Elements(c)
    BY <1>1, <1>3 DEF Elements
  <1>8. Elements(c) = Elements(d) \cup {c[1]}
    BY <1>5, <1>6, <1>7 DEF Elements
  <1> QED BY <1>8 DEF c, d

(* A block is appended.                                                    *)
LEMMA OneWritten ==
    ASSUME NEW Data, NEW r \in Ring(Data), NEW x \in Data, Used(r) + 1 <= Size
    PROVE  /\ Written(r, <<x>>) \in Ring(Data) /\ Used(Written(r, <<x>>)) = Used(r) + 1
           /\ Written(r, <<x>>) = Pushed(Copied(r, <<x>>), 1)
           /\ Content(Written(r, <<x>>)) = Content(r) \o <<x>>
           /\ Elements(Content(Written(r, <<x>>))) = Elements(Content(r)) \cup {x}
  <1>1. <<x>> \in Seq(Data) /\ Len(<<x>>) = 1
    OBVIOUS
  <1>2. Content(Written(r, <<x>>)) = Content(r) \o <<x>>
    BY <1>1, WriteAppends
  <1>3. /\ Written(r, <<x>>) \in Ring(Data) /\ Used(Written(r, <<x>>)) = Used(r) + 1
        /\ Written(r, <<x>>) = Pushed(Copied(r, <<x>>), 1)
    BY <1>1, WrittenIs
  <1>4. Elements(Content(r) \o <<x>>) = Elements(Content(r)) \cup Elements(<<x>>)
    <2>1. Content(r) \in Seq(Data)
      BY ContentType
    <2> QED BY <1>1, <2>1, ElementsOfConcat, Zenon
  <1> QED BY <1>2, <1>3, <1>4, ElementsOfOne

LEMMA Products ==
    ASSUME NEW w \in Nat, NEW p \in Int, NEW q \in Int
    PROVE  w * (-q) = -(w * q) /\ w * (p + q) = w * p + w * q /\ w * q \in Int /\ w * p \in Int
OBVIOUS

(* The place of the next unit to be written.                               *)
LEMMA NextPlace ==
    ASSUME NEW Data, NEW r \in Ring(Data)
    PROVE  /\ r.in \in Nat /\ r.in % Size \in 0 .. Size - 1
           /\ \E q \in Int : r.in = Size * q + (r.in % Size)
  <1>1. r.in \in Nat /\ r.in \in Int
    BY SizesTyped DEF Ring
  <1>2. /\ r.in \div Size \in Int /\ r.in % Size \in 0 .. Size - 1
        /\ r.in = Size * (r.in \div Size) + (r.in % Size)
    BY <1>1, DivMod, SizesTyped, Zenon
  <1> QED BY <1>1, <1>2, Zenon

(* A write cut in two: after the copy the content is as it was, the block  *)
(* lies behind it, and announcing it is the rest of the write.             *)
LEMMA OneCopied ==
    ASSUME NEW Data, NEW r \in Ring(Data), NEW x \in Data, Used(r) + 1 <= Size
    PROVE  /\ Copied(r, <<x>>) \in Ring(Data) /\ Used(Copied(r, <<x>>)) = Used(r)
           /\ Content(Copied(r, <<x>>)) = Content(r)
           /\ Copied(r, <<x>>).pool[Copied(r, <<x>>).in % Size] = x
  <1> DEFINE c == Copied(r, <<x>>)
             u == Used(r)
  <1>1. <<x>> \in Seq(Data) /\ Len(<<x>>) = 1
    OBVIOUS
  <1>0. u \in Nat
    BY UsedType, SizesTyped
  <1>2. c \in Ring(Data) /\ Used(c) = u /\ u \in Nat
    <2>1. Used(r) + Len(<<x>>) <= Size
      BY <1>1
    <2>2. c \in Ring(Data) /\ Used(c) = u
      BY <1>1, <2>1, WrittenIs, Zenon
    <2> QED BY <2>2, <1>0
  <1>3. c.in = r.in /\ c.out = r.out
    BY DEF Copied, Ring
  <1>4. \A k \in 0 .. u : c.pool[(r.out + k) % Size]
                            = IF k < u THEN r.pool[(r.out + k) % Size] ELSE <<x>>[k - u + 1]
    <2> SUFFICES ASSUME NEW k \in 0 .. u
                 PROVE  c.pool[(r.out + k) % Size]
                          = IF k < u THEN r.pool[(r.out + k) % Size] ELSE <<x>>[k - u + 1]
      OBVIOUS
    <2>1. Used(r) + Len(<<x>>) <= Size
      BY <1>1
    <2>2. k \in 0 .. Used(r) + Len(<<x>>) - 1
      BY <1>1, <1>0
    <2> QED BY <1>1, <2>1, <2>2, CopiedUnit, Zenon
  <1>5. Content(c) = Content(r)
    <2>1. /\ Content(r) \in Seq(Data) /\ Len(Content(r)) = u
          /\ \A k \in 1 .. u : Content(r)[k] = r.pool[(r.out + k - 1) % Size]
      BY ContentType
    <2>2. /\ Content(c) \in Seq(Data) /\ Len(Content(c)) = u
          /\ \A k \in 1 .. u : Content(c)[k] = c.pool[(c.out + k - 1) % Size]
      BY ContentType, <1>2, Zenon
    <2>3. ASSUME NEW k \in 1 .. u
          PROVE  Content(c)[k] = Content(r)[k]
      <3>1. k - 1 \in 0 .. u /\ k - 1 < u /\ r.out + (k - 1) = r.out + k - 1
        BY <1>2 DEF Ring
      <3>2. c.pool[(r.out + (k - 1)) % Size] = r.pool[(r.out + (k - 1)) % Size]
        BY <1>4, <3>1
      <3> QED BY <1>3, <2>1, <2>2, <3>1, <3>2
    <2> QED BY <2>1, <2>2, <2>3, SeqEqual
  <1>6. c.pool[c.in % Size] = x
    <2>1. r.in \in Nat /\ r.in % Size \in 0 .. Size - 1
      BY NextPlace
    <2>2. ((r.in % Size) - r.in) % Size = 0
      <3>1. PICK q \in Int : r.in = Size * q + (r.in % Size)
        BY NextPlace
      <3> DEFINE t == r.in % Size
                 m == Size * q
      <3>2. r.in = m + t /\ m \in Int /\ t \in Int /\ Size * (-q) = -m /\ -q \in Int
        BY <3>1, <2>1, Products, SizesTyped
      <3>3. t - r.in = 0 + Size * (-q)
        <4> HIDE DEF t, m
        <4> QED BY <3>2, <2>1
      <3>4. (0 + Size * (-q)) % Size = 0 % Size
        <4>1. 0 \in Int /\ Size \in Nat \ {0}
          BY SizesTyped
        <4> QED BY <3>2, <4>1, ModShift, Zenon
      <3>5. 0 % Size = 0
        BY SizesTyped
      <3> QED BY <3>3, <3>4, <3>5
    <2>3. c.pool[r.in % Size] = <<x>>[0 + 1]
      BY <2>1, <2>2, <1>1 DEF Copied, Ring
    <2> QED BY <1>3, <2>3
  <1> QED BY <1>2, <1>5, <1>6

LEMMA CopyInPlace ==
    ASSUME NEW Data, NEW r \in Ring(Data), NEW x \in Data, r.pool[r.in % Size] = x
    PROVE  Copied(r, <<x>>) = r
  <1> DEFINE P == [j \in 0 .. Size - 1 |->
                     LET k == (j - r.in) % Size IN IF k < Len(<<x>>) THEN <<x>>[k + 1] ELSE r.pool[j]]
  <1>1. r.in \in Nat /\ r.in % Size \in 0 .. Size - 1
    BY NextPlace
  <1>2. ASSUME NEW j \in 0 .. Size - 1
        PROVE  P[j] = r.pool[j]
    <2> DEFINE k == (j - r.in) % Size
               q == (j - r.in) \div Size
    <2>1. k \in 0 .. Size - 1 /\ q \in Int /\ j - r.in = Size * q + k
      <3>1. j - r.in \in Int
        BY <1>1, SizesTyped
      <3> QED BY <3>1, DivMod, SizesTyped, Zenon
    <2>2. P[j] = IF k < 1 THEN <<x>>[k + 1] ELSE r.pool[j]
      OBVIOUS
    <2> HIDE DEF k, q, P
    <2>3. CASE k = 0
      <3>1. PICK p \in Int : r.in = Size * p + (r.in % Size)
        BY NextPlace
      <3>2. Size * (q + p) = Size * q + Size * p /\ Size * q \in Int /\ Size * p \in Int /\ Size * 0 = 0
        BY <2>1, Products, SizesTyped
      <3>3. Size * 0 + j = Size * (q + p) + (r.in % Size)
        <4> DEFINE a == Size * q
                   b == Size * p
                   e == Size * (q + p)
                   t == r.in % Size
        <4>1. /\ j - r.in = a + k /\ r.in = b + t /\ e = a + b /\ Size * 0 = 0
              /\ a \in Int /\ b \in Int /\ t \in Int
          BY <1>1, <2>1, <3>1, <3>2
        <4> HIDE DEF a, b, e, t
        <4>2. Size * 0 + j = e + t
          BY <4>1, <2>3, <1>1, SizesTyped
        <4> QED BY <4>2 DEF e, t
      <3>4. q + p \in Int /\ 0 \in Int /\ Size \in Nat \ {0}
        BY <2>1, SizesTyped
      <3>5. j = r.in % Size
        BY <3>3, <3>4, <1>1, ModUnique, Zenon
      <3> QED BY <2>2, <2>3, <3>5
    <2>4. CASE k # 0
      BY <2>1, <2>2, <2>4
    <2> QED BY <2>3, <2>4
  <1>3. P = r.pool
    <2>1. P = [j \in 0 .. Size - 1 |-> P[j]] /\ r.pool = [j \in 0 .. Size - 1 |-> r.pool[j]]
      BY DEF Ring
    <2> QED BY <1>2, <2>1
  <1>4. Copied(r, <<x>>) = [r EXCEPT !.pool = P]
    BY DEF Copied
  <1> QED BY <1>3, <1>4 DEF Ring

(* The rings after usb_mempool_create and after usb_mempool_reset.         *)
LEMMA OrderCovers == Order \in Seq(Blocks) /\ Len(Order) = Size /\ Elements(Order) = Frames
  <1>1. ExistsBijection(1 .. Size, Frames)
    BY SizesTyped, FS_CardinalityType
  <1>2. \E s \in [1 .. Size -> Frames] : \A i, j \in 1 .. Size : s[i] = s[j] => i = j
    BY <1>1 DEF ExistsBijection, Bijection, Injection, IsInjective
  <1>3. Order \in [1 .. Size -> Frames] /\ \A i, j \in 1 .. Size : Order[i] = Order[j] => i = j
    BY <1>2 DEF Order
  <1>4. Order \in Injection(1 .. Size, Frames)
    BY <1>3 DEF Injection, IsInjective
  <1>5. Cardinality(1 .. Size) = Size
    BY FS_Interval, SizesTyped
  <1>6. Order \in Surjection(1 .. Size, Frames)
    BY <1>4, <1>5, FS_Injection, SizesTyped
  <1>7. \A f \in Frames : \E i \in 1 .. Size : Order[i] = f
    BY <1>6 DEF Surjection
  <1>8. Elements(Order) = Frames
    BY <1>3, <1>7 DEF Elements
  <1>9. Order \in [1 .. Size -> Blocks]
    BY <1>3 DEF Blocks
  <1>10. Order \in Seq(Blocks) /\ Len(Order) = Size
    BY <1>9, SeqOf, SizesTyped
  <1> QED BY <1>8, <1>10

LEMMA AllFreeIs ==
    ASSUME NEW r \in Ring(Blocks), r.in = r.out
    PROVE  /\ AllFree(r) \in Ring(Blocks) /\ Used(AllFree(r)) = Size
           /\ Elements(Content(AllFree(r))) = Frames
  <1>1. Used(r) = 0
    BY EmptyUsed DEF IsEmpty
  <1>2. Used(r) + Len(Order) <= Size
    BY <1>1, OrderCovers, SizesTyped
  <1>3. /\ AllFree(r) \in Ring(Blocks) /\ Used(AllFree(r)) = Used(r) + Len(Order)
        /\ Content(AllFree(r)) = Content(r) \o Order
    BY <1>2, OrderCovers, WrittenIs, WriteAppends DEF AllFree
  <1>4. Content(r) \in Seq(Blocks) /\ Len(Content(r)) = 0
    BY ContentType, <1>1
  <1>5. Content(r) = <<>>
    BY <1>4
  <1>6. Content(r) \o Order = Order
    BY <1>5, OrderCovers, ConcatEmptySeq
  <1> QED BY <1>1, <1>3, <1>6, OrderCovers, SizesTyped

LEMMA EmptyIs ==
    /\ EmptyRing(None) \in Ring(Blocks) /\ EmptyRing(None).in = EmptyRing(None).out
    /\ \A r \in Ring(Blocks) : ResetRing(r) \in Ring(Blocks) /\ ResetRing(r).in = ResetRing(r).out
  <1>1. EmptyRing(None) \in Ring(Blocks) /\ EmptyRing(None).in = EmptyRing(None).out
    <2>1. [j \in 0 .. Size - 1 |-> None] \in [0 .. Size - 1 -> Blocks]
      BY DEF Blocks
    <2>2. 0 \in 0 .. Wrap - 1
      BY SizesTyped
    <2> QED BY <2>1, <2>2 DEF EmptyRing, Ring
  <1>2. ASSUME NEW r \in Ring(Blocks)
        PROVE  ResetRing(r) \in Ring(Blocks) /\ ResetRing(r).in = ResetRing(r).out
    <2>1. 0 \in 0 .. Wrap - 1
      BY SizesTyped
    <2>2. r \in [in : 0 .. Wrap - 1, out : 0 .. Wrap - 1, pool : [0 .. Size - 1 -> Blocks]]
      BY DEF Ring
    <2>3. ResetRing(r) \in Ring(Blocks)
      BY <2>1, <2>2 DEF ResetRing, Ring
    <2>4. ResetRing(r).in = 0 /\ ResetRing(r).out = 0
      BY <2>2 DEF ResetRing
    <2> QED BY <2>3, <2>4
  <1> QED BY <1>1, <1>2

-----------------------------------------------------------------------------
(* The places a block can be in.                                           *)

\* The sets and the numbers of blocks OnePlace puts together.
Only(x) == IF x = None THEN {} ELSE {x}
One(x)  == IF x = None THEN 0 ELSE 1

InHands == IF Holding THEN {main.block} ELSE {}
Hands   == IF Holding THEN 1 ELSE 0

Places ==
    /\ Used(inRing) + Used(outRing) + One(current) + Hands = Size
    /\ Elements(Content(inRing)) \cup Elements(Content(outRing)) \cup Only(current) \cup InHands = Frames
    /\ Used(outRing) = sem + (IF main.step \in {"peek", "advance"} THEN 1 ELSE 0)

(* Between the steps of the program: the frame it has looked at is still   *)
(* the first one, the block it has copied into the ring is still behind the*)
(* free ones, and a driver that receives has a block to receive into.      *)
BetweenSteps ==
    /\ main.step = "advance" => main.block = Content(outRing)[1]
    /\ main.step = "publish" => inRing.pool[inRing.in % Size] = main.block
    /\ configured > 0 /\ ~ignoring => current # None

PoolTyped ==
    /\ inRing \in Ring(Blocks) /\ outRing \in Ring(Blocks) /\ sem \in Nat
    /\ current \in Blocks /\ main \in [step : Steps, block : Blocks]
    /\ configured \in Nat /\ ignoring \in BOOLEAN

PoolInv == PoolTyped /\ Places /\ BetweenSteps

LEMMA UsedIs ==
    ASSUME PoolTyped
    PROVE  Used(inRing) \in Nat /\ Used(outRing) \in Nat
  BY UsedType, SizesTyped DEF PoolTyped

(* At most one block, as a sequence.                                       *)
LEMMA AtMostOne ==
    ASSUME NEW x \in Blocks, NEW p \in BOOLEAN,
           NEW s, s = IF p THEN <<>> ELSE <<x>>
    PROVE  /\ s \in Seq(Blocks) /\ Len(s) = (IF p THEN 0 ELSE 1)
           /\ Elements(s) = (IF p THEN {} ELSE {x})
  <1>1. CASE p
    BY <1>1, ElementsOfOne, EmptySeq
  <1>2. CASE ~p
    BY <1>2, ElementsOfOne
  <1> QED BY <1>1, <1>2

LEMMA Joined ==
    ASSUME NEW S, NEW s \in Seq(S), NEW t \in Seq(S)
    PROVE  /\ s \o t \in Seq(S) /\ Len(s \o t) = Len(s) + Len(t)
           /\ Elements(s \o t) = Elements(s) \cup Elements(t)
  BY ConcatProperties, ElementsOfConcat

LEMMA PlacesIsOnePlace ==
    ASSUME PoolTyped
    PROVE  Places <=> OnePlace
  <1> DEFINE free    == Content(inRing)
             waiting == Content(outRing)
             a       == IF current = None THEN <<>> ELSE <<current>>
             b       == IF Holding THEN <<main.block>> ELSE <<>>
  <1>1. /\ free \in Seq(Blocks) /\ Len(free) = Used(inRing)
        /\ waiting \in Seq(Blocks) /\ Len(waiting) = Used(outRing)
    BY ContentType DEF PoolTyped
  <1>2. a \in Seq(Blocks) /\ Len(a) = One(current) /\ Elements(a) = Only(current)
    <2>1. current \in Blocks /\ (current = None) \in BOOLEAN
      BY DEF PoolTyped
    <2> QED BY <2>1, AtMostOne DEF One, Only
  <1>3. b \in Seq(Blocks) /\ Len(b) = Hands /\ Elements(b) = InHands
    <2>1. main.block \in Blocks /\ (~Holding) \in BOOLEAN
      BY DEF PoolTyped, Holding
    <2>2. b = IF ~Holding THEN <<>> ELSE <<main.block>>
      OBVIOUS
    <2> HIDE DEF b
    <2>3. /\ b \in Seq(Blocks) /\ Len(b) = (IF ~Holding THEN 0 ELSE 1)
          /\ Elements(b) = (IF ~Holding THEN {} ELSE {main.block})
      BY <2>1, <2>2, AtMostOne
    <2> QED BY <2>3 DEF Hands, InHands
  <1> HIDE DEF free, waiting, a, b
  <1>4. /\ free \o waiting \in Seq(Blocks) /\ Len(free \o waiting) = Len(free) + Len(waiting)
        /\ Elements(free \o waiting) = Elements(free) \cup Elements(waiting)
    BY <1>1, Joined
  <1>5. /\ a \o b \in Seq(Blocks) /\ Len(a \o b) = Len(a) + Len(b)
        /\ Elements(a \o b) = Elements(a) \cup Elements(b)
    BY <1>2, <1>3, Joined
  <1>6. /\ Len(free \o waiting \o (a \o b)) = Len(free \o waiting) + Len(a \o b)
        /\ Elements(free \o waiting \o (a \o b)) = Elements(free \o waiting) \cup Elements(a \o b)
    <2> DEFINE u == free \o waiting
               v == a \o b
    <2>1. u \in Seq(Blocks) /\ v \in Seq(Blocks)
      BY <1>4, <1>5
    <2> HIDE DEF u, v
    <2>2. Len(u \o v) = Len(u) + Len(v) /\ Elements(u \o v) = Elements(u) \cup Elements(v)
      BY <2>1, Joined
    <2> QED BY <2>2 DEF u, v
  <1>7. OnePlace <=>
          /\ Len(free \o waiting \o (a \o b)) = Size /\ Elements(free \o waiting \o (a \o b)) = Frames
          /\ Used(outRing) = sem + (IF main.step \in {"peek", "advance"} THEN 1 ELSE 0)
    BY DEF OnePlace, free, waiting, a, b
  <1>8. Elements(free \o waiting \o (a \o b))
          = Elements(free) \cup Elements(waiting) \cup Only(current) \cup InHands
    BY <1>2, <1>3, <1>4, <1>5, <1>6
  <1>9. Len(free \o waiting \o (a \o b)) = Used(inRing) + Used(outRing) + One(current) + Hands
    <2>1. Used(inRing) \in Nat /\ Used(outRing) \in Nat /\ One(current) \in Nat /\ Hands \in Nat
      BY UsedIs DEF One, Hands
    <2> QED BY <1>1, <1>2, <1>3, <1>4, <1>5, <1>6, <2>1
  <1> QED BY <1>7, <1>8, <1>9 DEF Places, free, waiting

(* What the interrupt does to the pool: it takes the first free block.     *)
LEMMA FirstTaken ==
    ASSUME PoolInv, NextFrame
    PROVE  /\ inRing' \in Ring(Blocks) /\ inRing'.in = inRing.in /\ inRing'.pool = inRing.pool
           /\ current' \in Blocks /\ ignoring' = (current' = None)
           /\ Used(inRing') + One(current') = Used(inRing)
           /\ Elements(Content(inRing')) \cup Only(current') = Elements(Content(inRing))
  <1>1. inRing \in Ring(Blocks) /\ Used(inRing) \in Nat
    BY UsedIs DEF PoolInv, PoolTyped
  <1>2. current' = FirstFree /\ inRing' = Allocated(FirstFree) /\ ignoring' = (FirstFree = None)
    BY DEF NextFrame
  <1>3. CASE Used(inRing) = 0
    <2>1. FirstFree = None
      BY <1>1, <1>3, EmptyUsed DEF FirstFree
    <2>2. inRing' = inRing /\ current' = None
      BY <1>2, <2>1 DEF Allocated
    <2> QED BY <1>1, <1>2, <1>3, <2>1, <2>2 DEF One, Only, Blocks
  <1>4. CASE Used(inRing) # 0
    <2>1. FirstFree = Peeked(inRing, 1)[1]
      BY <1>1, <1>4, EmptyUsed DEF FirstFree
    <2>2. Used(inRing) > 0
      BY <1>1, <1>4
    <2>3. Elements(Content(inRing)) = Elements(Content(Popped(inRing, 1))) \cup {Content(inRing)[1]}
      BY <1>1, <2>2, ElementsOfFront
    <2>4. /\ Popped(inRing, 1) \in Ring(Blocks) /\ Used(Popped(inRing, 1)) = Used(inRing) - 1
          /\ Peeked(inRing, 1)[1] = Content(inRing)[1]
          /\ Popped(inRing, 1).pool = inRing.pool /\ Popped(inRing, 1).in = inRing.in
      BY <1>1, <2>2, FrontTaken
    <2>5. Content(inRing)[1] \in Frames
      BY <2>3 DEF PoolInv, Places
    <2>6. FirstFree \in Frames /\ FirstFree # None
      BY <2>1, <2>4, <2>5, SizesTyped
    <2>7. inRing' = Popped(inRing, 1)
      BY <1>2, <2>6 DEF Allocated
    <2>8. One(current') = 1 /\ Only(current') = {current'} /\ current' = Content(inRing)[1]
      BY <1>2, <2>1, <2>4, <2>6 DEF One, Only
    <2> QED BY <1>1, <1>2, <2>3, <2>4, <2>6, <2>7, <2>8 DEF Blocks
  <1> QED BY <1>3, <1>4

(* A frame goes to the program.                                            *)
LEMMA FrameSent ==
    ASSUME PoolInv, current # None, Send(current)
    PROVE  /\ outRing' \in Ring(Blocks) /\ sem' = sem + 1
           /\ Used(outRing') = Used(outRing) + 1
           /\ Elements(Content(outRing')) = Elements(Content(outRing)) \cup {current}
           /\ Content(outRing') = Content(outRing) \o <<current>>
           /\ Used(outRing) > 0 => Content(outRing')[1] = Content(outRing)[1]
  <1>1. outRing \in Ring(Blocks) /\ current \in Blocks /\ sem \in Nat
    BY DEF PoolInv, PoolTyped
  <1>2. Used(inRing) \in Nat /\ Used(outRing) \in Nat /\ Hands \in Nat /\ One(current) = 1
    BY UsedIs DEF PoolInv, Hands, One
  <1>3. Used(outRing) + 1 <= Size
    BY <1>2, SizesTyped DEF PoolInv, Places
  <1>4. sem < Size
    BY <1>1, <1>2, <1>3, SizesTyped DEF PoolInv, Places
  <1>5. outRing' = Written(outRing, <<current>>) /\ sem' = sem + 1
    BY <1>4 DEF Send
  <1>6. Content(outRing') = Content(outRing) \o <<current>>
    BY <1>1, <1>3, <1>5, OneWritten
  <1>7. Used(outRing) > 0 => Content(outRing')[1] = Content(outRing)[1]
    <2> DEFINE c == Content(outRing)
    <2>1. c \in Seq(Blocks) /\ Len(c) = Used(outRing)
      BY <1>1, ContentType
    <2> HIDE DEF c
    <2>2. Len(c) > 0 => (c \o <<current>>)[1] = c[1]
      BY <1>1, <1>2, <2>1
    <2> QED BY <1>6, <2>1, <2>2 DEF c
  <1>8. /\ Written(outRing, <<current>>) \in Ring(Blocks)
        /\ Used(Written(outRing, <<current>>)) = Used(outRing) + 1
        /\ Elements(Content(Written(outRing, <<current>>))) = Elements(Content(outRing)) \cup {current}
    BY <1>1, <1>3, OneWritten
  <1> QED BY <1>5, <1>6, <1>7, <1>8

(* The three things a packet can do to the pool.                           *)
LEMMA PacketEffect ==
    ASSUME HostPacket
    PROVE  /\ configured > 0 /\ main' = main /\ configured' = configured
           /\ \/ /\ UNCHANGED <<inRing, outRing, sem, current>>
                 /\ ignoring' = ignoring \/ ignoring' = TRUE \/ (ignoring' = FALSE /\ current # None)
              \/ current = None /\ NextFrame /\ UNCHANGED <<outRing, sem>>
              \/ ~ignoring /\ Send(current) /\ NextFrame
  <1>1. configured > 0 /\ main' = main /\ configured' = configured
    BY DEF HostPacket
  <1>2. \/ \E end : WhileIgnoring(end)
        \/ \E B, n, end : WhileReceiving(B, n, end)
        \/ UNCHANGED <<inRing, outRing, sem, current, ignoring>>
    BY DEF HostPacket
  <1>3. ASSUME NEW end, WhileIgnoring(end)
        PROVE  \/ /\ UNCHANGED <<inRing, outRing, sem, current>>
                  /\ ignoring' = ignoring \/ ignoring' = TRUE \/ (ignoring' = FALSE /\ current # None)
               \/ current = None /\ NextFrame /\ UNCHANGED <<outRing, sem>>
    BY <1>3 DEF WhileIgnoring
  <1>4. ASSUME NEW B, NEW n, NEW end, WhileReceiving(B, n, end)
        PROVE  \/ /\ UNCHANGED <<inRing, outRing, sem, current>>
                  /\ ignoring' = ignoring \/ ignoring' = TRUE
               \/ ~ignoring /\ Send(current) /\ NextFrame
    BY <1>4 DEF WhileReceiving
  <1> QED BY <1>1, <1>2, <1>3, <1>4

LEMMA PacketPool == PoolInv /\ HostPacket => PoolInv'
  <1> SUFFICES ASSUME PoolInv, HostPacket PROVE PoolInv'
    OBVIOUS
  <1> USE PacketEffect
  <1>1. /\ main' = main /\ configured' = configured /\ configured > 0 /\ configured \in Nat
        /\ Hands' = Hands /\ InHands' = InHands
        /\ inRing \in Ring(Blocks) /\ outRing \in Ring(Blocks) /\ sem \in Nat
        /\ Used(inRing) \in Nat /\ Used(outRing) \in Nat /\ Hands \in Nat
    BY UsedIs DEF PoolInv, PoolTyped, Hands, InHands, Holding
  <1>2. CASE UNCHANGED <<inRing, outRing, sem, current>>
             /\ (ignoring' = ignoring \/ ignoring' = TRUE \/ (ignoring' = FALSE /\ current # None))
    <2>1. PoolTyped'
      BY <1>1, <1>2 DEF PoolInv, PoolTyped
    <2>2. Places'
      BY <1>1, <1>2 DEF PoolInv, Places
    <2>3. BetweenSteps'
      BY <1>1, <1>2 DEF PoolInv, BetweenSteps
    <2> QED BY <2>1, <2>2, <2>3 DEF PoolInv
  <1>3. ASSUME NextFrame, outRing' \in Ring(Blocks), sem' \in Nat
        PROVE  PoolTyped'
    BY <1>1, <1>3, FirstTaken DEF PoolInv, PoolTyped
  <1>4. CASE current = None /\ NextFrame /\ UNCHANGED <<outRing, sem>>
    <2>1. PoolTyped'
      BY <1>1, <1>3, <1>4
    <2>2. Places'
      <3>1. Used(inRing') + One(current') = Used(inRing)
            /\ Elements(Content(inRing')) \cup Only(current') = Elements(Content(inRing))
        BY <1>4, FirstTaken
      <3>2. One(current) = 0 /\ Only(current) = {} /\ One(current') \in Nat
        BY <1>4 DEF One, Only
      <3>3. Used(inRing') \in Nat
        BY <2>1, UsedType, SizesTyped DEF PoolTyped
      <3>4. Used(inRing') + Used(outRing') + One(current') + Hands' = Size
        BY <1>1, <1>4, <3>1, <3>2, <3>3 DEF PoolInv, Places
      <3>5. Elements(Content(inRing')) \cup Elements(Content(outRing')) \cup Only(current') \cup InHands' = Frames
        BY <1>1, <1>4, <3>1, <3>2 DEF PoolInv, Places
      <3>6. Used(outRing') = sem' + (IF main'.step \in {"peek", "advance"} THEN 1 ELSE 0)
        BY <1>1, <1>4 DEF PoolInv, Places
      <3> QED BY <3>4, <3>5, <3>6 DEF Places
    <2>3. BetweenSteps'
      BY <1>1, <1>4, FirstTaken DEF PoolInv, BetweenSteps
    <2> QED BY <2>1, <2>2, <2>3 DEF PoolInv
  <1>5. CASE ~ignoring /\ Send(current) /\ NextFrame
    <2>0. current # None
      BY <1>1, <1>5 DEF PoolInv, BetweenSteps
    <2>1. PoolTyped'
      BY <1>1, <1>3, <1>5, <2>0, FrameSent
    <2>2. Places'
      <3>1. Used(inRing') + One(current') = Used(inRing)
            /\ Elements(Content(inRing')) \cup Only(current') = Elements(Content(inRing))
        BY <1>5, FirstTaken
      <3>2. One(current) = 1 /\ Only(current) = {current} /\ One(current') \in Nat
        BY <2>0 DEF One, Only
      <3>3. Used(inRing') \in Nat
        BY <2>1, UsedType, SizesTyped DEF PoolTyped
      <3>4. /\ sem' = sem + 1 /\ Used(outRing') = Used(outRing) + 1
            /\ Elements(Content(outRing')) = Elements(Content(outRing)) \cup {current}
        BY <1>5, <2>0, FrameSent
      <3>5. Used(inRing') + Used(outRing') + One(current') + Hands' = Size
        BY <1>1, <3>1, <3>2, <3>3, <3>4 DEF PoolInv, Places
      <3>6. Elements(Content(inRing')) \cup Elements(Content(outRing')) \cup Only(current') \cup InHands' = Frames
        BY <1>1, <3>1, <3>2, <3>4 DEF PoolInv, Places
      <3>7. Used(outRing') = sem' + (IF main'.step \in {"peek", "advance"} THEN 1 ELSE 0)
        BY <1>1, <3>4 DEF PoolInv, Places
      <3> QED BY <3>5, <3>6, <3>7 DEF Places
    <2>3. BetweenSteps'
      <3>1. main.step = "advance" => Used(outRing) > 0
        BY <1>1 DEF PoolInv, Places
      <3> QED BY <1>1, <1>5, <2>0, <3>1, FirstTaken, FrameSent DEF PoolInv, BetweenSteps
    <2> QED BY <2>1, <2>2, <2>3 DEF PoolInv
  <1> QED BY <1>2, <1>4, <1>5

LEMMA ConfiguredPool == PoolInv /\ Quiet /\ Configured => PoolInv'
  <1> SUFFICES ASSUME PoolInv, Quiet, Configured PROVE PoolInv'
    OBVIOUS
  <1>1. /\ inRing \in Ring(Blocks) /\ outRing \in Ring(Blocks) /\ sem = 0 /\ main.step = "idle"
        /\ main \in [step : Steps, block : Blocks] /\ main' = main /\ sem' = sem
        /\ current' = None /\ ignoring' = TRUE /\ configured' = configured + 1 /\ configured \in Nat
    BY DEF PoolInv, PoolTyped, Quiet, Configured
  <1>2. /\ ResetRing(inRing) \in Ring(Blocks) /\ ResetRing(inRing).in = ResetRing(inRing).out
        /\ outRing' \in Ring(Blocks) /\ outRing'.in = outRing'.out
    BY <1>1, EmptyIs DEF Configured
  <1>3. /\ inRing' \in Ring(Blocks) /\ Used(inRing') = Size /\ Elements(Content(inRing')) = Frames
    BY <1>2, AllFreeIs DEF Configured
  <1>4. Used(outRing') = 0
    BY <1>2, EmptyUsed DEF IsEmpty
  <1>5. Elements(Content(outRing')) = {}
    <2>1. Content(outRing') \in Seq(Blocks) /\ Len(Content(outRing')) = 0
      BY <1>2, <1>4, ContentType
    <2>2. Content(outRing') = <<>>
      BY <2>1
    <2> QED BY <2>2, ElementsOfOne
  <1>6. PoolTyped'
    BY <1>1, <1>2, <1>3 DEF PoolTyped, Blocks
  <1>7. Places'
    <2>1. Hands' = 0 /\ InHands' = {} /\ One(current') = 0 /\ Only(current') = {}
      BY <1>1 DEF Hands, InHands, Holding, One, Only
    <2>2. Used(outRing') = sem' + (IF main'.step \in {"peek", "advance"} THEN 1 ELSE 0)
      BY <1>1, <1>4
    <2> QED BY <1>3, <1>4, <1>5, <2>1, <2>2, SizesTyped DEF Places
  <1>8. BetweenSteps'
    BY <1>1 DEF BetweenSteps
  <1> QED BY <1>6, <1>7, <1>8 DEF PoolInv

LEMMA TakeSemPool == PoolInv /\ TakeSem => PoolInv'
  <1> SUFFICES ASSUME PoolInv, TakeSem PROVE PoolInv'
    OBVIOUS
  <1>1. /\ inRing' = inRing /\ outRing' = outRing /\ current' = current /\ ignoring' = ignoring
        /\ configured' = configured /\ sem' = sem - 1 /\ sem > 0 /\ sem \in Nat
        /\ main' = [main EXCEPT !.step = "peek"] /\ main.step = "idle"
        /\ main \in [step : Steps, block : Blocks]
    BY DEF PoolInv, PoolTyped, TakeSem, Idles
  <1>2. main' \in [step : Steps, block : Blocks] /\ main'.step = "peek"
    BY <1>1 DEF Steps
  <1>3. PoolTyped'
    BY <1>1, <1>2 DEF PoolInv, PoolTyped
  <1>4. Places'
    <2>1. Hands' = Hands /\ InHands' = InHands
      BY <1>1, <1>2 DEF Hands, InHands, Holding
    <2>2. Used(outRing') = sem' + 1
      BY <1>1 DEF PoolInv, Places
    <2> QED BY <1>1, <1>2, <2>1, <2>2 DEF PoolInv, Places
  <1>5. BetweenSteps'
    BY <1>1, <1>2 DEF PoolInv, BetweenSteps
  <1> QED BY <1>3, <1>4, <1>5 DEF PoolInv

LEMMA PeekPool == PoolInv /\ PeekFrame => PoolInv'
  <1> SUFFICES ASSUME PoolInv, PeekFrame PROVE PoolInv'
    OBVIOUS
  <1>1. /\ inRing' = inRing /\ outRing' = outRing /\ current' = current /\ ignoring' = ignoring
        /\ configured' = configured /\ sem' = sem /\ sem \in Nat /\ main.step = "peek"
        /\ main \in [step : Steps, block : Blocks] /\ outRing \in Ring(Blocks)
        /\ Used(outRing) = sem + 1
    BY DEF PoolInv, PoolTyped, Places, PeekFrame, Idles
  <1>2. Used(outRing) > 0
    BY <1>1
  <1>3. ~IsEmpty(outRing) /\ Peeked(outRing, 1)[1] = Content(outRing)[1] /\ Content(outRing)[1] \in Blocks
    BY <1>1, <1>2, EmptyUsed, FrontTaken
  <1>4. main' = [step |-> "advance", block |-> Content(outRing)[1]]
    BY <1>3 DEF PeekFrame
  <1>5. PoolTyped'
    BY <1>1, <1>3, <1>4 DEF PoolInv, PoolTyped, Steps
  <1>6. Places'
    <2>1. Hands' = Hands /\ InHands' = InHands
      BY <1>1, <1>4 DEF Hands, InHands, Holding
    <2> QED BY <1>1, <1>4, <2>1 DEF PoolInv, Places
  <1>7. BetweenSteps'
    BY <1>1, <1>4 DEF PoolInv, BetweenSteps
  <1> QED BY <1>5, <1>6, <1>7 DEF PoolInv

LEMMA AdvancePool == PoolInv /\ Advance => PoolInv'
  <1> SUFFICES ASSUME PoolInv, Advance PROVE PoolInv'
    OBVIOUS
  <1>1. /\ inRing' = inRing /\ outRing' = Popped(outRing, 1) /\ current' = current /\ ignoring' = ignoring
        /\ configured' = configured /\ sem' = sem /\ sem \in Nat /\ main.step = "advance"
        /\ main \in [step : Steps, block : Blocks] /\ main' = [main EXCEPT !.step = "hold"]
        /\ outRing \in Ring(Blocks) /\ Used(outRing) = sem + 1 /\ main.block = Content(outRing)[1]
    BY DEF PoolInv, PoolTyped, Places, BetweenSteps, Advance, Idles
  <1>2. main' \in [step : Steps, block : Blocks] /\ main'.step = "hold" /\ main'.block = main.block
    BY <1>1 DEF Steps
  <1>3. Used(outRing) > 0
    BY <1>1
  <1>4. outRing' \in Ring(Blocks) /\ Used(outRing') = Used(outRing) - 1
    BY <1>1, <1>3, FrontTaken
  <1>5. Elements(Content(outRing)) = Elements(Content(outRing')) \cup {main.block}
    BY <1>1, <1>3, ElementsOfFront
  <1>6. PoolTyped'
    BY <1>1, <1>2, <1>4 DEF PoolInv, PoolTyped
  <1>7. Places'
    <2>1. Hands = 0 /\ InHands = {} /\ Hands' = 1 /\ InHands' = {main.block}
      BY <1>1, <1>2 DEF Hands, InHands, Holding
    <2>2. Used(inRing) \in Nat /\ One(current) \in Nat
      BY UsedIs DEF PoolInv, One
    <2>3. Used(inRing') + Used(outRing') + One(current') + Hands' = Size
      BY <1>1, <1>4, <2>1, <2>2 DEF PoolInv, Places
    <2>4. Elements(Content(inRing')) \cup Elements(Content(outRing')) \cup Only(current') \cup InHands' = Frames
      BY <1>1, <1>5, <2>1 DEF PoolInv, Places
    <2>5. Used(outRing') = sem' + (IF main'.step \in {"peek", "advance"} THEN 1 ELSE 0)
      BY <1>1, <1>2, <1>4
    <2> QED BY <2>3, <2>4, <2>5 DEF Places
  <1>8. BetweenSteps'
    BY <1>1, <1>2 DEF PoolInv, BetweenSteps
  <1> QED BY <1>6, <1>7, <1>8 DEF PoolInv

(* There is always room for a block that comes back.                       *)
LEMMA RoomForBlock ==
    ASSUME PoolInv, Holding
    PROVE  Used(inRing) + 1 <= Size /\ Free(inRing) # 0 /\ main.block \in Frames
  <1>1. Used(inRing) \in Nat /\ Used(outRing) \in Nat /\ One(current) \in Nat /\ Hands = 1
    BY UsedIs DEF PoolInv, One, Hands
  <1>2. Used(inRing) + 1 <= Size
    BY <1>1, SizesTyped DEF PoolInv, Places
  <1>3. inRing \in Ring(Blocks)
    BY DEF PoolInv, PoolTyped
  <1>4. Free(inRing) = Size - Used(inRing)
    BY <1>1, <1>2, <1>3, FreeIs, SizesTyped
  <1> QED BY <1>1, <1>2, <1>4, SizesTyped DEF PoolInv, Places, InHands

LEMMA FreePool == PoolInv /\ FreeFrame => PoolInv'
  <1> SUFFICES ASSUME PoolInv, FreeFrame PROVE PoolInv'
    OBVIOUS
  <1>1. /\ outRing' = outRing /\ current' = current /\ ignoring' = ignoring
        /\ configured' = configured /\ sem' = sem /\ main.step = "hold"
        /\ main \in [step : Steps, block : Blocks] /\ inRing \in Ring(Blocks) /\ main.block \in Blocks
    BY DEF PoolInv, PoolTyped, FreeFrame, Idles
  <1>2. Holding /\ Used(inRing) + 1 <= Size /\ Free(inRing) # 0
    BY <1>1, RoomForBlock DEF Holding
  <1>3. inRing' = Copied(inRing, <<main.block>>) /\ main' = [main EXCEPT !.step = "publish"]
    BY <1>2 DEF FreeFrame
  <1>4. main' \in [step : Steps, block : Blocks] /\ main'.step = "publish" /\ main'.block = main.block
    BY <1>1, <1>3 DEF Steps
  <1>5. /\ inRing' \in Ring(Blocks) /\ Used(inRing') = Used(inRing)
        /\ Content(inRing') = Content(inRing) /\ inRing'.pool[inRing'.in % Size] = main.block
    BY <1>1, <1>2, <1>3, OneCopied
  <1>6. PoolTyped'
    BY <1>1, <1>4, <1>5 DEF PoolInv, PoolTyped
  <1>7. Places'
    <2>1. Hands' = Hands /\ InHands' = InHands
      BY <1>1, <1>4 DEF Hands, InHands, Holding
    <2> QED BY <1>1, <1>4, <1>5, <2>1 DEF PoolInv, Places
  <1>8. BetweenSteps'
    BY <1>1, <1>4, <1>5 DEF PoolInv, BetweenSteps
  <1> QED BY <1>6, <1>7, <1>8 DEF PoolInv

LEMMA PublishPool == PoolInv /\ Publish => PoolInv'
  <1> SUFFICES ASSUME PoolInv, Publish PROVE PoolInv'
    OBVIOUS
  <1>1. /\ outRing' = outRing /\ current' = current /\ ignoring' = ignoring
        /\ configured' = configured /\ sem' = sem /\ main.step = "publish"
        /\ main' = [step |-> "idle", block |-> None] /\ inRing' = Pushed(inRing, 1)
        /\ inRing \in Ring(Blocks) /\ main.block \in Blocks
        /\ inRing.pool[inRing.in % Size] = main.block
    BY DEF PoolInv, PoolTyped, BetweenSteps, Publish, Idles
  <1>2. Used(inRing) + 1 <= Size
    BY <1>1, RoomForBlock DEF Holding
  <1>3. Copied(inRing, <<main.block>>) = inRing
    BY <1>1, CopyInPlace
  <1>4. /\ inRing' \in Ring(Blocks) /\ Used(inRing') = Used(inRing) + 1
        /\ Elements(Content(inRing')) = Elements(Content(inRing)) \cup {main.block}
    <2>1. inRing' = Written(inRing, <<main.block>>)
      BY <1>1, <1>2, <1>3, OneWritten
    <2> QED BY <1>1, <1>2, <2>1, OneWritten
  <1>5. PoolTyped'
    BY <1>1, <1>4 DEF PoolInv, PoolTyped, Steps, Blocks
  <1>6. Places'
    <2>1. Hands = 1 /\ InHands = {main.block} /\ Hands' = 0 /\ InHands' = {}
      BY <1>1 DEF Hands, InHands, Holding
    <2>2. Used(inRing) \in Nat /\ Used(outRing) \in Nat /\ One(current) \in Nat
      BY UsedIs DEF PoolInv, One
    <2>3. Used(inRing') + Used(outRing') + One(current') + Hands' = Size
      BY <1>1, <1>4, <2>1, <2>2 DEF PoolInv, Places
    <2>4. Elements(Content(inRing')) \cup Elements(Content(outRing')) \cup Only(current') \cup InHands' = Frames
      BY <1>1, <1>4, <2>1 DEF PoolInv, Places
    <2>5. Used(outRing') = sem' + (IF main'.step \in {"peek", "advance"} THEN 1 ELSE 0)
      BY <1>1 DEF PoolInv, Places
    <2> QED BY <2>3, <2>4, <2>5 DEF Places
  <1>7. BetweenSteps'
    BY <1>1 DEF PoolInv, BetweenSteps
  <1> QED BY <1>5, <1>6, <1>7 DEF PoolInv

LEMMA PoolInit == Init => PoolInv
  <1> SUFFICES ASSUME Init PROVE PoolInv
    OBVIOUS
  <1>1. /\ inRing = AllFree(EmptyRing(None)) /\ outRing = EmptyRing(None) /\ sem = 0 /\ current = None
        /\ ignoring = FALSE /\ main = [step |-> "idle", block |-> None] /\ configured = 0
    BY DEF Init
  <1>2. inRing \in Ring(Blocks) /\ Used(inRing) = Size /\ Elements(Content(inRing)) = Frames
    BY <1>1, EmptyIs, AllFreeIs
  <1>3. outRing \in Ring(Blocks) /\ Used(outRing) = 0
    BY <1>1, EmptyIs, EmptyUsed DEF IsEmpty
  <1>4. Elements(Content(outRing)) = {}
    <2>1. Content(outRing) \in Seq(Blocks) /\ Len(Content(outRing)) = 0
      BY <1>3, ContentType
    <2>2. Content(outRing) = <<>>
      BY <2>1
    <2> QED BY <2>2, ElementsOfOne
  <1>5. PoolTyped
    BY <1>1, <1>2, <1>3 DEF PoolTyped, Steps, Blocks
  <1>6. Hands = 0 /\ InHands = {} /\ One(current) = 0 /\ Only(current) = {}
    BY <1>1 DEF Hands, InHands, Holding, One, Only
  <1>7. Used(outRing) = sem + (IF main.step \in {"peek", "advance"} THEN 1 ELSE 0)
    BY <1>1, <1>3
  <1>8. Places
    BY <1>2, <1>3, <1>4, <1>6, <1>7, SizesTyped DEF Places
  <1>9. BetweenSteps
    BY <1>1 DEF BetweenSteps
  <1> QED BY <1>5, <1>8, <1>9 DEF PoolInv

LEMMA PoolStep == PoolInv /\ [Next]_vars => PoolInv'
  <1>1. PoolInv /\ UNCHANGED vars => PoolInv'
    BY DEF PoolInv, PoolTyped, Places, BetweenSteps, Hands, InHands, Holding, vars
  <1> QED BY <1>1, PacketPool, ConfiguredPool, TakeSemPool, PeekPool, AdvancePool, FreePool, PublishPool
          DEF Next, Program

LEMMA PoolAlways == Spec => []PoolInv
  BY PoolInit, PoolStep, PTL DEF Spec

(* Every block is in one place, whichever call of the program the interrupt*)
(* cuts, for every number of blocks and every range of the counters of the *)
(* rings: the driver never receives into a frame the program holds, and a  *)
(* receive that got the semaphore finds a frame.                           *)
THEOREM OnePlaceEach == Spec => []OnePlace
  <1>1. PoolInv => OnePlace
    BY PlacesIsOnePlace DEF PoolInv
  <1> QED BY PoolAlways, <1>1, PTL

-----------------------------------------------------------------------------
(* No block is in two places.                                              *)

Distinct(s) == \A i, j \in DOMAIN s : s[i] = s[j] => i = j

LEMMA DistinctParts ==
    ASSUME NEW S, NEW s \in Seq(S), NEW t \in Seq(S), Distinct(s \o t)
    PROVE  Distinct(t) /\ Elements(s) \cap Elements(t) = {}
  <1> DEFINE u == s \o t
  <1>1. /\ u \in Seq(S) /\ Len(u) = Len(s) + Len(t)
        /\ \A i \in 1 .. Len(s) + Len(t) : u[i] = IF i <= Len(s) THEN s[i] ELSE t[i - Len(s)]
    BY ConcatProperties
  <1>2. /\ Len(s) \in Nat /\ Len(t) \in Nat
        /\ DOMAIN s = 1 .. Len(s) /\ DOMAIN t = 1 .. Len(t) /\ DOMAIN u = 1 .. Len(u)
    BY <1>1, LenProperties
  <1>3. \A i, j \in DOMAIN u : u[i] = u[j] => i = j
    BY DEF Distinct
  <1> HIDE DEF u
  <1>4. \A i \in DOMAIN s : i \in DOMAIN u /\ u[i] = s[i] /\ i <= Len(s)
    BY <1>1, <1>2
  <1>5. \A j \in DOMAIN t : j + Len(s) \in DOMAIN u /\ u[j + Len(s)] = t[j] /\ j + Len(s) > Len(s)
    BY <1>1, <1>2
  <1>6. Distinct(t)
    <2> SUFFICES ASSUME NEW i \in DOMAIN t, NEW j \in DOMAIN t, t[i] = t[j] PROVE i = j
      BY DEF Distinct
    <2>1. i + Len(s) = j + Len(s)
      BY <1>3, <1>5
    <2> QED BY <1>2, <2>1
  <1>7. ASSUME NEW i \in DOMAIN s, NEW j \in DOMAIN t
        PROVE  s[i] # t[j]
    <2>1. i # j + Len(s)
      BY <1>2, <1>4, <1>5
    <2> QED BY <1>3, <1>4, <1>5, <2>1
  <1> QED BY <1>6, <1>7 DEF Elements

(* As many places as blocks and a place for each: no two places are one.   *)
LEMMA Apart ==
    ASSUME PoolInv
    PROVE  /\ Elements(Content(outRing)) \cap (Only(current) \cup InHands) = {}
           /\ Only(current) \cap InHands = {}
  <1> DEFINE free    == Content(inRing)
             waiting == Content(outRing)
             a       == IF current = None THEN <<>> ELSE <<current>>
             b       == IF Holding THEN <<main.block>> ELSE <<>>
             u       == free \o waiting
             v       == a \o b
  <1>1. free \in Seq(Blocks) /\ waiting \in Seq(Blocks)
    BY ContentType DEF PoolInv, PoolTyped
  <1>2. a \in Seq(Blocks) /\ Elements(a) = Only(current)
    <2>1. current \in Blocks /\ (current = None) \in BOOLEAN
      BY DEF PoolInv, PoolTyped
    <2> QED BY <2>1, AtMostOne DEF Only
  <1>3. b \in Seq(Blocks) /\ Elements(b) = InHands
    <2>1. main.block \in Blocks /\ (~Holding) \in BOOLEAN
      BY DEF PoolInv, PoolTyped, Holding
    <2>2. b = IF ~Holding THEN <<>> ELSE <<main.block>>
      OBVIOUS
    <2> HIDE DEF b
    <2>3. b \in Seq(Blocks) /\ Elements(b) = (IF ~Holding THEN {} ELSE {main.block})
      BY <2>1, <2>2, AtMostOne
    <2> QED BY <2>3 DEF InHands
  <1>4. Len(u \o v) = Size /\ Elements(u \o v) = Frames
    BY PlacesIsOnePlace DEF PoolInv, OnePlace
  <1> HIDE DEF free, waiting, a, b
  <1>5. u \in Seq(Blocks) /\ Elements(u) = Elements(free) \cup Elements(waiting)
    BY <1>1, Joined
  <1>6. v \in Seq(Blocks)
    BY <1>2, <1>3, Joined
  <1> HIDE DEF u
  <1>7. Distinct(u \o v)
    <2> DEFINE w == u \o v
    <2>1. w \in Seq(Blocks) /\ DOMAIN w = 1 .. Size
      <3> HIDE DEF v
      <3>1. w \in Seq(Blocks)
        BY <1>5, <1>6, Joined
      <3> QED BY <1>4, <3>1, LenProperties
    <2>2. Elements(w) = Frames
      BY <1>4
    <2> HIDE DEF w
    <2>3. w \in [1 .. Size -> Frames]
      <3>1. \A k \in 1 .. Size : w[k] \in Frames
        BY <2>1, <2>2 DEF Elements
      <3>2. w = [k \in 1 .. Size |-> w[k]]
        BY <2>1, LenProperties
      <3> QED BY <3>1, <3>2
    <2>4. \A f \in Frames : \E k \in 1 .. Size : w[k] = f
      BY <2>1, <2>2 DEF Elements
    <2>5. w \in Surjection(1 .. Size, Frames)
      BY <2>3, <2>4 DEF Surjection
    <2>6. IsFiniteSet(1 .. Size) /\ Cardinality(1 .. Size) = Size
      BY FS_Interval, SizesTyped
    <2>7. w \in Injection(1 .. Size, Frames)
      BY <2>5, <2>6, FS_Surjection, SizesTyped
    <2>8. Distinct(w)
      BY <2>1, <2>7 DEF Injection, IsInjective, Distinct
    <2> QED BY <2>8 DEF w
  <1>8. Distinct(v) /\ Elements(u) \cap Elements(v) = {}
    <2> HIDE DEF v
    <2> QED BY <1>5, <1>6, <1>7, DistinctParts
  <1>9. Elements(a) \cap Elements(b) = {} /\ Elements(v) = Elements(a) \cup Elements(b)
    BY <1>2, <1>3, <1>8, DistinctParts, Joined
  <1> QED BY <1>2, <1>3, <1>5, <1>8, <1>9 DEF waiting

-----------------------------------------------------------------------------
(* Types.                                                                  *)

\* What HostPacket works out of a packet.
Last      == host.sent = host.len \div 2
EmptyLast == Last /\ host.len % 2 = 0
Count     == IF Last THEN reading.got ELSE reading.got + 1
End       == Last /\ (~EmptyLast \/ Count = 0)
NewBuf    == IF reading.block = None \/ EmptyLast THEN buf
             ELSE [buf EXCEPT ![reading.block][reading.at + reading.got] =
                                  <<host.no, host.len, host.sent>>]
ReadEnds  == Last \/ Count = (IF reading.block = None THEN 1 ELSE ReadLen)

LEMMA PacketIs ==
    ASSUME HostPacket
    PROVE  /\ configured > 0 /\ ~asserted /\ buf' = NewBuf
           /\ IF Last THEN \E len \in Lengths : host' = [no |-> (host.no + 1) % Numbers, len |-> len, sent |-> 0]
              ELSE host' = [host EXCEPT !.sent = @ + 1]
           /\ IF ReadEnds THEN WhileIgnoring(End) \/ WhileReceiving(NewBuf, Count, End)
              ELSE /\ reading' = [reading EXCEPT !.got = Count]
                   /\ UNCHANGED <<inRing, outRing, sem, current, offset, ignoring, asserted>>
           /\ UNCHANGED <<main, configured>>
  BY DEF HostPacket, Last, EmptyLast, Count, End, NewBuf, ReadEnds

Images    == [0 .. BufLen - 1 -> Packets \cup {Blank}]
HostType  == [no : 0 .. Numbers - 1, len : Lengths, sent : Nat]

ReadTyped ==
    /\ offset \in Nat /\ reading \in [block : Blocks, at : Nat, got : Nat]
    /\ buf \in [Frames -> Images] /\ host \in HostType
    /\ configured \in 0 .. MaxConfigured /\ asserted \in BOOLEAN

LEMMA DisplaySizes ==
    /\ ReadLen \in Nat \ {0} /\ BufLen \in Nat \ {0}
    /\ Lengths \subseteq Nat \ {0} /\ Numbers \in Nat \ {0, 1} /\ MaxConfigured \in Nat
    /\ None \notin 0 .. Numbers
  BY DisplayAssumption

LEMMA NextNumber ==
    ASSUME ReadTyped
    PROVE  (host.no + 1) % Numbers \in 0 .. Numbers - 1
  <1>1. host.no + 1 \in Int /\ Numbers \in Nat \ {0}
    BY DisplaySizes DEF ReadTyped, HostType
  <1> QED BY <1>1, DivMod

LEMMA ReadInit == Init => ReadTyped
  <1> SUFFICES ASSUME Init PROVE ReadTyped
    OBVIOUS
  <1>1. buf \in [Frames -> Images]
    BY DEF Init, Images, Unused
  <1>2. reading \in [block : Blocks, at : Nat, got : Nat]
    BY DEF Init, Blocks
  <1>3. host \in HostType
    BY DisplaySizes DEF Init, HostType
  <1>4. offset = 0 /\ configured = 0 /\ asserted = FALSE
    BY DEF Init
  <1>5. offset \in Nat /\ configured \in 0 .. MaxConfigured
    BY <1>4, DisplaySizes
  <1>6. asserted \in BOOLEAN
    BY <1>4
  <1> QED BY <1>1, <1>2, <1>3, <1>5, <1>6 DEF ReadTyped

LEMMA PacketTyped == PoolInv /\ ReadTyped /\ HostPacket => ReadTyped'
  <1> SUFFICES ASSUME PoolInv, ReadTyped, HostPacket PROVE ReadTyped'
    OBVIOUS
  <1>1. /\ offset \in Nat /\ reading \in [block : Blocks, at : Nat, got : Nat]
        /\ buf \in [Frames -> Images] /\ host \in HostType
        /\ configured \in 0 .. MaxConfigured /\ asserted \in BOOLEAN /\ current \in Blocks
    BY DEF ReadTyped, PoolInv, PoolTyped
  <1>2. host' \in HostType
    <2>1. CASE Last
      BY <1>1, <2>1, PacketIs, NextNumber DEF HostType
    <2>2. CASE ~Last
      <3>1. host' = [host EXCEPT !.sent = @ + 1]
        BY <2>2, PacketIs
      <3> QED BY <1>1, <3>1 DEF HostType
    <2> QED BY <2>1, <2>2
  <1>3. Count \in Nat
    BY <1>1 DEF Count
  <1>4. buf' \in [Frames -> Images]
    <2>1. buf' = NewBuf
      BY PacketIs
    <2>2. <<host.no, host.len, host.sent>> \in Packets
      BY <1>1 DEF HostType, Packets
    <2>3. CASE reading.block = None \/ EmptyLast
      BY <1>1, <2>1, <2>3 DEF NewBuf
    <2>4. CASE ~(reading.block = None \/ EmptyLast)
      <3>1. reading.block \in Frames
        BY <1>1, <2>4 DEF Blocks
      <3>2. [buf[reading.block] EXCEPT ![reading.at + reading.got] = <<host.no, host.len, host.sent>>] \in Images
        BY <1>1, <2>2, <3>1 DEF Images
      <3> QED BY <1>1, <2>1, <2>4, <3>1, <3>2 DEF NewBuf
    <2> QED BY <2>3, <2>4
  <1>5. ASSUME NEW block \in Blocks, NEW at \in Nat, GetFrame(block, at)
        PROVE  reading' \in [block : Blocks, at : Nat, got : Nat] /\ asserted' \in BOOLEAN
    BY <1>5 DEF GetFrame
  <1>6. ASSUME DropFrame
        PROVE  reading' \in [block : Blocks, at : Nat, got : Nat] /\ asserted' \in BOOLEAN
    BY <1>1, <1>6 DEF DropFrame, Blocks
  <1>7. ASSUME NextFrame
        PROVE  /\ offset' \in Nat /\ reading' \in [block : Blocks, at : Nat, got : Nat]
               /\ asserted' \in BOOLEAN
    <2>1. current' \in Blocks /\ current' = FirstFree
      BY <1>7, FirstTaken DEF NextFrame
    <2>2. CASE FirstFree = None
      BY <1>1, <1>6, <1>7, <2>2 DEF NextFrame
    <2>3. CASE FirstFree # None
      BY <1>5, <1>7, <2>1, <2>3 DEF NextFrame
    <2> QED BY <2>2, <2>3
  <1>8. offset' \in Nat /\ reading' \in [block : Blocks, at : Nat, got : Nat] /\ asserted' \in BOOLEAN
    <2>1. CASE WhileIgnoring(End)
      <3>1. CASE NextFrame
        BY <1>7, <3>1
      <3>2. CASE offset' = 0 /\ GetFrame(current, 0)
        BY <1>1, <1>5, <3>2
      <3>3. CASE DropFrame /\ UNCHANGED offset
        BY <1>1, <1>6, <3>3
      <3> QED BY <2>1, <3>1, <3>2, <3>3 DEF WhileIgnoring
    <2>2. CASE WhileReceiving(NewBuf, Count, End)
      <3>1. CASE UNCHANGED offset /\ DropFrame
        BY <1>1, <1>6, <3>1
      <3>2. CASE NextFrame
        BY <1>7, <3>2
      <3>3. CASE offset' = offset + Count /\ GetFrame(current, offset')
        BY <1>1, <1>3, <1>5, <3>3
      <3> QED BY <2>2, <3>1, <3>2, <3>3 DEF WhileReceiving, PartEnd
    <2>3. CASE reading' = [reading EXCEPT !.got = Count] /\ UNCHANGED <<offset, asserted>>
      BY <1>1, <1>3, <2>3
    <2> QED BY <2>1, <2>2, <2>3, PacketIs
  <1>9. configured' = configured
    BY PacketIs
  <1> QED BY <1>1, <1>2, <1>4, <1>8, <1>9 DEF ReadTyped

LEMMA ConfiguredTyped == PoolInv /\ ReadTyped /\ Configured => ReadTyped'
  <1> SUFFICES ASSUME PoolInv, ReadTyped, Configured PROVE ReadTyped'
    OBVIOUS
  <1>1. host' \in HostType
    BY NextNumber DEF Configured, HostType
  <1>2. buf' \in [Frames -> Images]
    <2>1. Unused \in Images
      BY DEF Unused, Images
    <2> QED BY <2>1 DEF Configured, ReadTyped
  <1>3. reading' \in [block : Blocks, at : Nat, got : Nat] /\ offset' \in Nat
    BY DEF Configured, Blocks
  <1>4. configured' \in 0 .. MaxConfigured /\ asserted' \in BOOLEAN
    BY DisplaySizes DEF Configured, ReadTyped
  <1> QED BY <1>1, <1>2, <1>3, <1>4 DEF ReadTyped

LEMMA ProgramTyped == ReadTyped /\ Program => ReadTyped'
  <1> SUFFICES ASSUME ReadTyped, Program PROVE ReadTyped'
    OBVIOUS
  <1>1. Idles
    BY DEF Program, TakeSem, PeekFrame, Advance, FreeFrame, Publish
  <1>2. buf' \in [Frames -> Images]
    <2>1. CASE Publish
      <3>1. Unused \in Images
        BY DEF Unused, Images
      <3> QED BY <2>1, <3>1 DEF Publish, ReadTyped
    <2>2. CASE UNCHANGED buf
      BY <2>2 DEF ReadTyped
    <2> QED BY <2>1, <2>2 DEF Program, TakeSem, PeekFrame, Advance, FreeFrame
  <1> QED BY <1>1, <1>2 DEF Idles, ReadTyped

LEMMA ReadStep == PoolInv /\ ReadTyped /\ [Next]_vars => ReadTyped'
  <1>1. ReadTyped /\ UNCHANGED vars => ReadTyped'
    BY DEF ReadTyped, vars
  <1> QED BY <1>1, PacketTyped, ConfiguredTyped, ProgramTyped DEF Next

LEMMA TypesAlways == Spec => [](PoolInv /\ ReadTyped)
  <1>1. Init => PoolInv /\ ReadTyped
    BY PoolInit, ReadInit
  <1>2. PoolInv /\ ReadTyped /\ [Next]_vars => (PoolInv /\ ReadTyped)'
    BY PoolStep, ReadStep
  <1> QED BY <1>1, <1>2, PTL DEF Spec

(* Every variable of the display driver and its pool keeps its type, and   *)
(* the semaphore its limit, for every number and size of frames.           *)
THEOREM TypeCorrect == Spec => []TypeOK
  <1>1. ASSUME PoolInv, ReadTyped PROVE TypeOK
    <2>1. sem \in 0 .. Size
      <3>1. /\ sem \in Nat /\ Used(inRing) \in Nat /\ Used(outRing) \in Nat
            /\ One(current) \in Nat /\ Hands \in Nat
        BY <1>1, UsedIs DEF PoolInv, PoolTyped, One, Hands
      <3> QED BY <1>1, <3>1, SizesTyped DEF PoolInv, Places
    <2> QED BY <1>1, <2>1 DEF PoolInv, PoolTyped, ReadTyped, TypeOK, Blocks, Images, HostType
  <1> QED BY TypesAlways, <1>1, PTL

-----------------------------------------------------------------------------
(* What has been received of the frame in progress.                        *)

(* No frame of the host fills its last packet, unless it fills its last    *)
(* read as well: the end of any other is not seen (usbd_display.c:100), and*)
(* the next frame is appended to it.                                       *)
FramesEnd == \A n \in Lengths : n % 2 = 0 => (n \div 2) % ReadLen = 0

(* A frame that is not dropped is in its block up to the packet that came  *)
(* last, and the read in progress goes on from there.                      *)
Received ==
    /\ reading.block = current /\ reading.at = offset /\ reading.got < ReadLen
    /\ offset % ReadLen = 0 /\ offset + ReadLen <= BufLen /\ host.sent = offset + reading.got
    /\ \A p \in 0 .. host.sent - 1 : buf[current][p] = <<host.no, host.len, p>>

Receiving ==
    configured > 0 /\ ~asserted =>
        /\ ignoring => reading.block = None /\ reading.got = 0
        /\ ~ignoring => Received

DisplayInv == PoolInv /\ ReadTyped /\ Receiving

LEMMA FreshRead ==
    ASSUME PoolInv, NextFrame, host'.sent = 0
    PROVE  Receiving'
  <1>1. CASE FirstFree = None
    <2>1. ignoring' /\ reading' = [block |-> None, at |-> 0, got |-> 0]
      BY <1>1 DEF NextFrame, DropFrame
    <2>2. reading'.block = None /\ reading'.got = 0
      BY <2>1
    <2> QED BY <2>1, <2>2 DEF Receiving
  <1>2. CASE FirstFree # None
    <2>1. /\ current' = FirstFree /\ ignoring' = FALSE /\ offset' = 0
          /\ asserted' = (0 + ReadLen > BufLen) /\ reading' = [block |-> FirstFree, at |-> 0, got |-> 0]
      BY <1>2 DEF NextFrame, GetFrame
    <2>2. ASSUME ~asserted' PROVE Received'
      <3>1. 0 % ReadLen = 0 /\ 0 < ReadLen /\ 0 + ReadLen <= BufLen /\ 0 .. 0 - 1 = {}
        <4>1. ~(0 + ReadLen > BufLen)
          BY <2>1, <2>2
        <4> QED BY <4>1, DisplaySizes
      <3>2. reading'.block = current' /\ reading'.at = 0 /\ reading'.got = 0
        BY <2>1
      <3>3. host'.sent = offset' + reading'.got
        BY <2>1, <3>2
      <3>4. \A p \in 0 .. host'.sent - 1 : buf'[current'][p] = <<host'.no, host'.len, p>>
        BY <3>1
      <3> QED BY <2>1, <3>1, <3>2, <3>3, <3>4 DEF Received
    <2> QED BY <2>1, <2>2 DEF Receiving
  <1> QED BY <1>1, <1>2

LEMMA SameRead ==
    ASSUME NEW block \in Frames, block = current', GetFrame(block, 0), offset' = 0, host'.sent = 0
    PROVE  ~asserted' => Received'
  <1>1. reading' = [block |-> block, at |-> 0, got |-> 0] /\ asserted' = (0 + ReadLen > BufLen)
    BY DEF GetFrame
  <1>2. SUFFICES ASSUME ~asserted' PROVE Received'
    OBVIOUS
  <1>3. 0 % ReadLen = 0 /\ 0 < ReadLen /\ 0 + ReadLen <= BufLen /\ 0 .. 0 - 1 = {}
    <2>1. ~(0 + ReadLen > BufLen)
      BY <1>1, <1>2
    <2> QED BY <2>1, DisplaySizes
  <1>4. reading'.block = current' /\ reading'.at = 0 /\ reading'.got = 0
    BY <1>1
  <1>5. host'.sent = offset' + reading'.got
    BY <1>4
  <1>6. \A p \in 0 .. host'.sent - 1 : buf'[current'][p] = <<host'.no, host'.len, p>>
    BY <1>3
  <1> QED BY <1>3, <1>4, <1>5, <1>6 DEF Received

(* The packet lands behind those that came before it.                      *)
LEMMA Landed ==
    ASSUME DisplayInv, HostPacket, ~ignoring
    PROVE  /\ current \in Frames /\ host.sent \in 0 .. BufLen - 1
           /\ host.no \in 0 .. Numbers - 1 /\ host.len \in Lengths /\ reading.got \in Nat
           /\ \A b \in Frames : b # current => NewBuf[b] = buf[b]
           /\ \A p \in 0 .. BufLen - 1 : p < host.sent \/ (p = host.sent /\ ~EmptyLast)
                  => NewBuf[current][p] = <<host.no, host.len, p>>
  <1>1. /\ offset \in Nat /\ reading \in [block : Blocks, at : Nat, got : Nat]
        /\ buf \in [Frames -> Images] /\ host \in HostType /\ current \in Blocks
    BY DEF DisplayInv, ReadTyped, PoolInv, PoolTyped
  <1>2. configured > 0 /\ ~asserted
    BY PacketIs
  <1>3. Received
    BY <1>2 DEF DisplayInv, Receiving
  <1>4. current \in Frames
    BY <1>1, <1>2 DEF DisplayInv, PoolInv, BetweenSteps, Blocks
  <1>5. host.sent \in 0 .. BufLen - 1 /\ reading.at + reading.got = host.sent
    BY <1>1, <1>3, DisplaySizes DEF Received, HostType
  <1>6. host.no \in 0 .. Numbers - 1 /\ host.len \in Lengths /\ reading.got \in Nat
    BY <1>1 DEF HostType
  <1>7. NewBuf = IF EmptyLast THEN buf
                 ELSE [buf EXCEPT ![current][host.sent] = <<host.no, host.len, host.sent>>]
    BY <1>3, <1>4, <1>5, SizesTyped DEF Received, NewBuf
  <1>8. \A b \in Frames : b # current => NewBuf[b] = buf[b]
    BY <1>1, <1>7
  <1>9. ASSUME NEW p \in 0 .. BufLen - 1, p < host.sent \/ (p = host.sent /\ ~EmptyLast)
        PROVE  NewBuf[current][p] = <<host.no, host.len, p>>
    <2>1. p < host.sent => buf[current][p] = <<host.no, host.len, p>>
      <3>1. p < host.sent => p \in 0 .. host.sent - 1
        BY <1>5
      <3> QED BY <1>3, <3>1 DEF Received
    <2>2. CASE EmptyLast
      BY <1>7, <1>9, <2>1, <2>2
    <2>3. CASE ~EmptyLast
      <3>1. NewBuf[current] = [buf[current] EXCEPT ![host.sent] = <<host.no, host.len, host.sent>>]
        BY <1>1, <1>4, <1>7, <2>3
      <3>2. DOMAIN buf[current] = 0 .. BufLen - 1
        BY <1>1, <1>4 DEF Images
      <3> QED BY <1>9, <2>1, <3>1, <3>2
    <2> QED BY <2>2, <2>3
  <1> QED BY <1>4, <1>5, <1>6, <1>8, <1>9

(* An empty last packet is a read of its own.                              *)
LEMMA EmptyAlone ==
    ASSUME DisplayInv, HostPacket, ~ignoring, FramesEnd, EmptyLast
    PROVE  reading.got = 0 /\ End
  <1>1. /\ offset \in Nat /\ reading.got \in Nat /\ host.len \in Lengths
    BY DEF DisplayInv, ReadTyped, HostType
  <1>2. reading.got < ReadLen /\ offset % ReadLen = 0 /\ host.sent = offset + reading.got
    BY PacketIs DEF DisplayInv, Receiving, Received
  <1>3. host.sent = host.len \div 2 /\ host.len % 2 = 0
    BY DEF EmptyLast, Last
  <1>4. (offset + reading.got) % ReadLen = 0
    BY <1>1, <1>2, <1>3 DEF FramesEnd
  <1>5. PICK q \in Int : offset = ReadLen * q
    <2>1. offset \in Int /\ ReadLen \in Nat \ {0}
      BY <1>1, DisplaySizes
    <2>2. offset \div ReadLen \in Int /\ offset = ReadLen * (offset \div ReadLen) + (offset % ReadLen)
      BY <2>1, DivMod, Zenon
    <2>3. ReadLen * (offset \div ReadLen) \in Int
      BY <2>1, <2>2, Products
    <2> DEFINE m == ReadLen * (offset \div ReadLen)
    <2>4. offset = m
      <3> HIDE DEF m
      <3>1. offset = m + 0 /\ m \in Int
        BY <1>2, <2>2, <2>3 DEF m
      <3> QED BY <3>1
    <2> QED BY <2>2, <2>4
  <1>6. (reading.got + ReadLen * q) % ReadLen = reading.got % ReadLen
    <2>1. ReadLen \in Nat \ {0} /\ reading.got \in Int
      BY <1>1, DisplaySizes
    <2> QED BY <2>1, <1>5, ModShift, Zenon
  <1>7. reading.got + ReadLen * q = offset + reading.got
    BY <1>1, <1>5
  <1>8. reading.got % ReadLen = reading.got
    BY <1>1, <1>2, DisplaySizes, ModSmall
  <1>9. reading.got = 0
    BY <1>4, <1>6, <1>7, <1>8
  <1> QED BY <1>9 DEF End, EmptyLast, Count

LEMMA LandsReceiving ==
    ASSUME DisplayInv, HostPacket, FramesEnd
    PROVE  Receiving'
  <1>1. End => host'.sent = 0
    <2>1. End => Last
      BY DEF End
    <2> QED BY <2>1, PacketIs
  <1>2. PoolInv
    BY DEF DisplayInv
  <1>3. ASSUME ignoring PROVE ReadEnds
    <2>1. reading.block = None /\ reading.got = 0
      BY <1>3, PacketIs DEF DisplayInv, Receiving
    <2> QED BY <2>1 DEF ReadEnds, Count
  <1>4. CASE ignoring
    <2>1. WhileIgnoring(End)
      BY <1>3, <1>4, PacketIs DEF WhileReceiving
    <2>2. CASE End /\ NextFrame
      BY <1>1, <1>2, <2>2, FreshRead
    <2>3. CASE /\ End /\ current # None
               /\ ignoring' = FALSE /\ offset' = 0 /\ GetFrame(current, 0) /\ UNCHANGED <<inRing, current>>
      <3>1. current \in Frames /\ current = current'
        BY <1>2, <2>3 DEF PoolInv, PoolTyped, Blocks
      <3> QED BY <1>1, <2>3, <3>1, SameRead DEF Receiving
    <2>4. CASE DropFrame /\ ignoring' = ignoring
      <3>1. ignoring' /\ reading'.block = None /\ reading'.got = 0
        BY <1>4, <2>4 DEF DropFrame
      <3> QED BY <3>1 DEF Receiving
    <2> QED BY <2>1, <2>2, <2>3, <2>4 DEF WhileIgnoring, StartsOver
  <1>5. CASE ~ignoring
    <2>1. /\ offset \in Nat /\ reading \in [block : Blocks, at : Nat, got : Nat] /\ host \in HostType
          /\ reading.got < ReadLen /\ offset % ReadLen = 0 /\ offset + ReadLen <= BufLen
          /\ host.sent = offset + reading.got /\ reading.block = current /\ reading.at = offset
      BY <1>5, PacketIs DEF DisplayInv, ReadTyped, Receiving, Received
    <2>2. current \in Frames /\ current # None
      BY <1>5, Landed, SizesTyped
    <2>3. Last => End
      BY <1>5, EmptyAlone DEF End
    <2>4. ASSUME ~Last
          PROVE  /\ host'.sent = host.sent + 1 /\ host'.no = host.no /\ host'.len = host.len
                 /\ Count = reading.got + 1
                 /\ \A p \in 0 .. host'.sent - 1 : buf'[current][p] = <<host'.no, host'.len, p>>
      <3>1. host' = [host EXCEPT !.sent = @ + 1]
        BY <2>4, PacketIs
      <3>2. host'.sent = host.sent + 1 /\ host'.no = host.no /\ host'.len = host.len
        BY <2>1, <3>1 DEF HostType
      <3>3. buf' = NewBuf /\ ~EmptyLast
        BY <2>4, PacketIs DEF EmptyLast
      <3>4. ASSUME NEW p \in 0 .. host'.sent - 1
            PROVE  buf'[current][p] = <<host'.no, host'.len, p>>
        <4>1. p \in 0 .. BufLen - 1 /\ (p < host.sent \/ p = host.sent)
          <5>1. host.sent \in 0 .. BufLen - 1
            BY <1>5, Landed
          <5>2. p \in 0 .. host.sent
            BY <3>2, <5>1, DisplaySizes
          <5> QED BY <5>1, <5>2, DisplaySizes
        <4> QED BY <1>5, <3>2, <3>3, <4>1, Landed
      <3> QED BY <2>4, <3>2, <3>4 DEF Count
    <2>5. CASE ReadEnds
      <3>1. WhileReceiving(NewBuf, Count, End)
        BY <1>5, <2>5, PacketIs DEF WhileIgnoring
      <3>2. CASE ignoring' = TRUE /\ DropFrame
        <4>1. ignoring' /\ reading'.block = None /\ reading'.got = 0
          BY <3>2 DEF DropFrame
        <4> QED BY <4>1 DEF Receiving
      <3>3. CASE End /\ NextFrame
        BY <1>1, <1>2, <3>3, FreshRead
      <3>4. CASE /\ ~End /\ offset' = PartEnd(Count) /\ GetFrame(current, offset')
                 /\ UNCHANGED <<inRing, outRing, sem, current, ignoring>>
        <4>1. ~Last /\ Count = ReadLen
          BY <2>2, <2>3, <2>1, <2>5, <3>4 DEF ReadEnds
        <4>2. /\ host'.sent = host.sent + 1 /\ Count = reading.got + 1
              /\ \A p \in 0 .. host'.sent - 1 : buf'[current][p] = <<host'.no, host'.len, p>>
          BY <2>4, <4>1
        <4>3. offset' = offset + ReadLen
          BY <3>4, <4>1 DEF PartEnd
        <4>4. reading' = [block |-> current, at |-> offset', got |-> 0]
              /\ asserted' = (offset' + ReadLen > BufLen)
          BY <3>4 DEF GetFrame
        <4>5. host'.sent = offset' + 0
          <5>1. /\ offset \in Nat /\ reading.got \in Nat /\ host.sent = offset + reading.got
                /\ host'.sent = host.sent + 1 /\ reading.got + 1 = ReadLen /\ offset' = offset + ReadLen
            BY <2>1, <4>1, <4>2, <4>3
          <5> QED BY <5>1, DisplaySizes
        <4>6. offset' % ReadLen = 0
          <5>1. (offset + ReadLen * 1) % ReadLen = offset % ReadLen
            <6>1. ReadLen \in Nat \ {0} /\ offset \in Int /\ 1 \in Int
              BY <2>1, DisplaySizes
            <6> QED BY <6>1, ModShift, Zenon
          <5>2. ReadLen * 1 = ReadLen
            BY DisplaySizes
          <5> QED BY <2>1, <4>3, <5>1, <5>2
        <4>7. offset' \in Nat /\ (~asserted' => offset' + ReadLen <= BufLen)
          <5>1. offset' \in Nat
            BY <2>1, <4>3, DisplaySizes
          <5>2. ~asserted' => ~(offset' + ReadLen > BufLen)
            BY <4>4
          <5>3. ~(offset' + ReadLen > BufLen) => offset' + ReadLen <= BufLen
            <6>1. \A m \in Nat, n \in Nat : ~(m > n) => m <= n
              OBVIOUS
            <6>2. offset' + ReadLen \in Nat /\ BufLen \in Nat
              BY <2>1, <4>3, DisplaySizes
            <6> QED BY <6>1, <6>2, Zenon
          <5> QED BY <5>1, <5>2, <5>3
        <4>8. reading'.block = current' /\ reading'.at = offset' /\ reading'.got = 0 /\ 0 < ReadLen
          BY <3>4, <4>4, DisplaySizes
        <4>9. \A p \in 0 .. host'.sent - 1 : buf'[current'][p] = <<host'.no, host'.len, p>>
          BY <3>4, <4>2
        <4>10. ~asserted' => Received'
          BY <4>5, <4>6, <4>7, <4>8, <4>9 DEF Received
        <4>11. ignoring' = FALSE
          BY <1>5, <3>4 DEF DisplayInv, PoolInv, PoolTyped
        <4> QED BY <4>10, <4>11 DEF Receiving
      <3> QED BY <3>1, <3>2, <3>3, <3>4 DEF WhileReceiving
    <2>6. CASE ~ReadEnds
      <3>1. /\ reading' = [reading EXCEPT !.got = Count]
            /\ UNCHANGED <<inRing, outRing, sem, current, offset, ignoring, asserted>>
        BY <2>6, PacketIs
      <3>2. ~Last /\ Count # ReadLen
        BY <2>1, <2>2, <2>6 DEF ReadEnds
      <3>3. /\ host'.sent = host.sent + 1 /\ Count = reading.got + 1
            /\ \A p \in 0 .. host'.sent - 1 : buf'[current][p] = <<host'.no, host'.len, p>>
        BY <2>4, <3>2
      <3>4. reading'.block = reading.block /\ reading'.at = reading.at /\ reading'.got = Count
        BY <2>1, <3>1
      <3>5. reading'.got < ReadLen /\ host'.sent = offset' + reading'.got
        <4>1. /\ offset \in Nat /\ reading.got \in Nat /\ host.sent = offset + reading.got
              /\ reading.got < ReadLen /\ host'.sent = host.sent + 1 /\ reading'.got = reading.got + 1
              /\ reading.got + 1 # ReadLen /\ offset' = offset
          BY <2>1, <3>1, <3>2, <3>3, <3>4
        <4> QED BY <4>1, DisplaySizes
      <3>6. \A p \in 0 .. host'.sent - 1 : buf'[current'][p] = <<host'.no, host'.len, p>>
        BY <3>1, <3>3
      <3>7. Received'
        BY <2>1, <3>1, <3>4, <3>5, <3>6 DEF Received
      <3>8. ignoring' = ignoring
        BY <3>1
      <3> QED BY <1>5, <3>7, <3>8 DEF Receiving
    <2> QED BY <2>5, <2>6
  <1> QED BY <1>4, <1>5

LEMMA ProgramReceiving == DisplayInv /\ Program => Receiving'
  <1> SUFFICES ASSUME DisplayInv, Program PROVE Receiving'
    OBVIOUS
  <1>1. UNCHANGED <<current, offset, ignoring, reading, host, configured, asserted>>
    BY DEF Program, TakeSem, PeekFrame, Advance, FreeFrame, Publish, Idles
  <1>2. CASE UNCHANGED buf
    BY <1>1, <1>2 DEF DisplayInv, Receiving, Received
  <1>3. CASE Publish
    <2>1. Holding /\ Only(current) \cap {main.block} = {}
      BY <1>3, Apart DEF DisplayInv, Publish, Holding, InHands
    <2>2. ASSUME configured > 0, ~asserted, ~ignoring
          PROVE  buf'[current] = buf[current]
      <3>1. current \in Frames /\ current # None /\ main.block # current
        BY <2>1, <2>2 DEF DisplayInv, PoolInv, PoolTyped, BetweenSteps, Blocks, Only
      <3> QED BY <1>3, <3>1 DEF Publish, DisplayInv, ReadTyped
    <2>3. ASSUME configured' > 0, ~asserted', ~ignoring'
          PROVE  Received'
      <3>1. configured > 0 /\ ~asserted /\ ~ignoring
        BY <1>1, <2>3
      <3>2. Received /\ buf'[current] = buf[current]
        BY <2>2, <3>1 DEF DisplayInv, Receiving
      <3> QED BY <1>1, <3>2 DEF Received
    <2>4. ASSUME configured' > 0, ~asserted', ignoring'
          PROVE  reading'.block = None /\ reading'.got = 0
      BY <1>1, <2>4 DEF DisplayInv, Receiving
    <2> QED BY <2>3, <2>4 DEF Receiving
  <1> QED BY <1>2, <1>3 DEF Program, TakeSem, PeekFrame, Advance, FreeFrame

LEMMA DisplayInit == Init => DisplayInv
  <1>1. Init => Receiving
    BY DEF Init, Receiving
  <1> QED BY <1>1, PoolInit, ReadInit DEF DisplayInv

LEMMA DisplayStep ==
    ASSUME FramesEnd
    PROVE  DisplayInv /\ [Next]_vars => DisplayInv'
  <1>1. DisplayInv /\ UNCHANGED vars => Receiving'
    BY DEF DisplayInv, Receiving, Received, vars
  <1>2. DisplayInv /\ Configured => Receiving'
    <2>1. Configured => ignoring' /\ reading'.block = None /\ reading'.got = 0
      BY DEF Configured
    <2> QED BY <2>1 DEF Receiving
  <1>3. DisplayInv /\ [Next]_vars => Receiving'
    BY <1>1, <1>2, LandsReceiving, ProgramReceiving DEF Next
  <1> QED BY <1>3, PoolStep, ReadStep DEF DisplayInv

-----------------------------------------------------------------------------
(* The queue of frames.                                                    *)

\* The frame in an image, if it is one frame of the host and all of it.
Whole(f) ==
    LET count == (f[0][2] + 1) \div 2
    IN  IF \A p \in 0 .. BufLen - 1 : p < count => f[p] = <<f[0][1], f[0][2], p>>
        THEN f[0][1] ELSE Torn

Waits == [k \in 1 .. Used(outRing) |-> Delivered(Content(outRing)[k])]
Kept  == IF Holding THEN Delivered(main.block) ELSE None

LEMMA DeliveredIs ==
    /\ \A b : Delivered(b) = Whole(buf[b])
    /\ Waits = [k \in 1 .. Used(outRing) |-> Whole(buf[Content(outRing)[k]])]
    /\ Waits' = [k \in 1 .. Used(outRing') |-> Whole(buf'[Content(outRing')[k]])]
    /\ Kept = IF Holding THEN Whole(buf[main.block]) ELSE None
    /\ Kept' = IF Holding' THEN Whole(buf'[main'.block]) ELSE None
  BY DEF Delivered, Whole, Waits, Kept

LEMMA WholeType ==
    ASSUME NEW f \in Images
    PROVE  Whole(f) \in 0 .. Numbers
  <1>1. 0 \in 0 .. BufLen - 1
    BY DisplaySizes
  <1>2. f[0] \in Packets \cup {Blank}
    BY <1>1 DEF Images
  <1>3. f[0][1] \in 0 .. Numbers - 1
    BY <1>2, DisplaySizes DEF Packets, Blank
  <1> QED BY <1>3, DisplaySizes DEF Whole, Torn

LEMMA WaitsTyped ==
    ASSUME PoolInv, ReadTyped
    PROVE  /\ \A k \in 1 .. Used(outRing) : Content(outRing)[k] \in Elements(Content(outRing))
           /\ \A k \in 1 .. Used(outRing) : Content(outRing)[k] \in Frames
           /\ Waits \in Seq(0 .. Numbers) /\ Len(Waits) = Used(outRing)
           /\ Used(outRing) \in Nat
  <1> DEFINE c == Content(outRing)
  <1>1. c \in Seq(Blocks) /\ Len(c) = Used(outRing) /\ Used(outRing) \in Nat
    BY ContentType, UsedIs DEF PoolInv, PoolTyped
  <1>2. DOMAIN c = 1 .. Used(outRing)
    BY <1>1
  <1>3. \A k \in 1 .. Used(outRing) : c[k] \in Elements(c)
    BY <1>2 DEF Elements
  <1>4. \A k \in 1 .. Used(outRing) : c[k] \in Frames
    BY <1>3 DEF PoolInv, Places
  <1>5. \A k \in 1 .. Used(outRing) : Whole(buf[c[k]]) \in 0 .. Numbers
    BY <1>4, WholeType DEF ReadTyped
  <1>6. Waits \in [1 .. Used(outRing) -> 0 .. Numbers]
    BY <1>5, DeliveredIs
  <1> QED BY <1>1, <1>3, <1>4, <1>6, SeqOf

LEMMA WaitsSame ==
    ASSUME PoolInv, ReadTyped, outRing' = outRing,
           \A b \in Elements(Content(outRing)) : buf'[b] = buf[b]
    PROVE  Waits' = Waits
  <1>1. \A k \in 1 .. Used(outRing) : Whole(buf'[Content(outRing)[k]]) = Whole(buf[Content(outRing)[k]])
    BY WaitsTyped
  <1>2. Waits' = [k \in 1 .. Used(outRing) |-> Whole(buf'[Content(outRing)[k]])]
    BY DeliveredIs
  <1>3. Waits = [k \in 1 .. Used(outRing) |-> Whole(buf[Content(outRing)[k]])]
    BY DeliveredIs
  <1> QED BY <1>1, <1>2, <1>3

(* A frame that ends is in its block, all of it.                           *)
LEMMA WholeFrame ==
    ASSUME DisplayInv, HostPacket, ~ignoring, End
    PROVE  Whole(NewBuf[current]) = host.no
  <1> DEFINE f == NewBuf[current]
             n == host.len \div 2
  <1>1. /\ host.sent \in 0 .. BufLen - 1 /\ host.no \in 0 .. Numbers - 1 /\ host.len \in Nat \ {0}
        /\ \A p \in 0 .. BufLen - 1 : p < host.sent \/ (p = host.sent /\ ~EmptyLast)
               => f[p] = <<host.no, host.len, p>>
    BY Landed, DisplaySizes
  <1>2. host.sent = n /\ (EmptyLast <=> host.len % 2 = 0)
    BY DEF End, EmptyLast, Last
  <1>3. /\ host.len % 2 = 0 => (host.len + 1) \div 2 = n /\ n > 0
        /\ host.len % 2 # 0 => (host.len + 1) \div 2 = n + 1
    BY <1>1
  <1>4. 0 \in 0 .. BufLen - 1 /\ (0 < host.sent \/ (0 = host.sent /\ ~EmptyLast))
    <2>1. 0 \in 0 .. BufLen - 1
      BY DisplaySizes
    <2>2. CASE host.sent = 0
      <3>1. host.len % 2 # 0
        BY <1>2, <1>3, <2>2
      <3> QED BY <1>2, <2>1, <2>2, <3>1
    <2>3. CASE host.sent # 0
      <3>1. 0 < host.sent
        BY <1>1, <2>3, DisplaySizes
      <3> QED BY <2>1, <3>1
    <2> QED BY <2>2, <2>3
  <1>5. f[0] = <<host.no, host.len, 0>>
    BY <1>1, <1>4
  <1>6. f[0][1] = host.no /\ f[0][2] = host.len
    BY <1>5
  <1>7. ASSUME NEW p \in 0 .. BufLen - 1, p < (host.len + 1) \div 2
        PROVE  f[p] = <<host.no, host.len, p>>
    <2>1. p < host.sent \/ (p = host.sent /\ ~EmptyLast)
      BY <1>1, <1>2, <1>3, <1>7
    <2> QED BY <1>1, <2>1
  <1> HIDE DEF f
  <1>8. \A p \in 0 .. BufLen - 1 : p < (f[0][2] + 1) \div 2 => f[p] = <<f[0][1], f[0][2], p>>
    BY <1>6, <1>7
  <1>9. Whole(f) = host.no
    BY <1>6, <1>8 DEF Whole
  <1> QED BY <1>9 DEF f

LEMMA PacketQueue ==
    ASSUME DisplayInv, HostPacket, FramesEnd
    PROVE  Queue!Arrive
  <1>1. PoolInv /\ ReadTyped /\ main' = main /\ buf' = NewBuf /\ configured > 0 /\ ~asserted
    BY PacketIs DEF DisplayInv
  <1>2. host'.no \in 0 .. Numbers - 1
    <2>1. host' \in HostType
      BY <1>1, PacketTyped DEF ReadTyped
    <2> QED BY <2>1 DEF HostType
  <1>3. \/ outRing' = outRing
        \/ ~ignoring /\ End /\ Send(current) /\ current # None
    <2>1. WhileIgnoring(End) => outRing' = outRing
      BY DEF WhileIgnoring
    <2>2. WhileReceiving(NewBuf, Count, End) => outRing' = outRing \/ (~ignoring /\ End /\ Send(current))
      BY DEF WhileReceiving
    <2>3. ~ignoring => current # None
      BY <1>1 DEF PoolInv, BetweenSteps
    <2> QED BY <2>1, <2>2, <2>3, PacketIs
  <1>4. ASSUME NEW b \in Frames, b \notin Only(current)
        PROVE  buf'[b] = buf[b]
    <2>1. CASE ignoring
      <3>1. reading.block = None
        BY <1>1, <2>1 DEF DisplayInv, Receiving
      <3> QED BY <1>1, <3>1 DEF NewBuf
    <2>2. CASE ~ignoring
      <3>1. b # current
        BY <1>4, SizesTyped DEF Only
      <3> QED BY <1>1, <2>2, <3>1, Landed
    <2> QED BY <2>1, <2>2
  <1>5. \A k \in 1 .. Used(outRing) :
           Content(outRing)[k] \in Frames /\ buf'[Content(outRing)[k]] = buf[Content(outRing)[k]]
    BY <1>1, <1>4, Apart, WaitsTyped
  <1>6. Kept' = Kept
    <2>1. CASE Holding
      <3>1. main.block \in Frames /\ main.block \notin Only(current)
        BY <1>1, <2>1, Apart, RoomForBlock DEF InHands
      <3>2. buf'[main.block] = buf[main.block] /\ Holding'
        BY <1>1, <1>4, <2>1, <3>1 DEF Holding
      <3> QED BY <1>1, <2>1, <3>2, DeliveredIs
    <2>2. CASE ~Holding
      BY <1>1, <2>2 DEF Kept, Holding
    <2> QED BY <2>1, <2>2
  <1>7. CASE outRing' = outRing
    <2>1. Waits' = [k \in 1 .. Used(outRing) |-> Whole(buf'[Content(outRing)[k]])]
      BY <1>7, DeliveredIs
    <2>2. Waits' = Waits
      BY <1>5, <2>1, DeliveredIs
    <2> QED BY <1>2, <1>6, <2>2 DEF Queue!Arrive, Waits, Kept
  <1>8. CASE ~ignoring /\ End /\ Send(current) /\ current # None
    <2>1. /\ outRing' \in Ring(Blocks) /\ Used(outRing') = Used(outRing) + 1
          /\ Content(outRing') = Content(outRing) \o <<current>>
      BY <1>1, <1>8, FrameSent
    <2>2. Waits \in Seq(0 .. Numbers) /\ Len(Waits) = Used(outRing) /\ Used(outRing) \in Nat
      BY <1>1, WaitsTyped
    <2>3. Content(outRing) \in Seq(Blocks) /\ Len(Content(outRing)) = Used(outRing) /\ current \in Blocks
      BY <1>1, ContentType DEF PoolInv, PoolTyped
    <2> DEFINE c == Content(outRing)
               d == Content(outRing')
               u == Used(outRing)
    <2>4. (\A k \in 1 .. u : d[k] = c[k]) /\ d[u + 1] = current
      <3> HIDE DEF c
      <3>1. c \in Seq(Blocks) /\ Len(c) = u /\ d = c \o <<current>>
        BY <2>1, <2>3 DEF c
      <3> HIDE DEF d, u
      <3> QED BY <2>3, <3>1
    <2>5. Whole(buf'[current]) = host.no
      BY <1>1, <1>8, WholeFrame
    <2>6. Waits' = [k \in 1 .. u + 1 |-> Whole(buf'[d[k]])]
      BY <2>1, DeliveredIs
    <2>7. Waits = [k \in 1 .. u |-> Whole(buf[c[k]])]
      BY DeliveredIs
    <2>8. host.no \in 0 .. Numbers
      BY <1>8, Landed, DisplaySizes
    <2>9. Waits' = Append(Waits, host.no)
      <3>1. \A k \in 1 .. u + 1 : Whole(buf'[d[k]]) = IF k = u + 1 THEN host.no ELSE Waits[k]
        <4> SUFFICES ASSUME NEW k \in 1 .. u + 1
                     PROVE  Whole(buf'[d[k]]) = IF k = u + 1 THEN host.no ELSE Waits[k]
          OBVIOUS
        <4>1. CASE k = u + 1
          BY <2>4, <2>5, <4>1
        <4>2. CASE k # u + 1
          <5>1. k \in 1 .. u
            BY <2>2, <4>2
          <5> QED BY <1>5, <2>4, <2>7, <4>2, <5>1
        <4> QED BY <4>1, <4>2
      <3>2. Append(Waits, host.no) = [k \in 1 .. u + 1 |-> IF k = u + 1 THEN host.no ELSE Waits[k]]
        <4> DEFINE w == Waits
                   n == u
        <4>1. w \in Seq(0 .. Numbers) /\ Len(w) = n /\ n \in Nat
          BY <2>2
        <4> HIDE DEF w, n
        <4>2. Append(w, host.no) = [k \in 1 .. n + 1 |-> IF k = n + 1 THEN host.no ELSE w[k]]
          BY <4>1
        <4> QED BY <4>2 DEF w, n
      <3> QED BY <2>6, <3>1, <3>2
    <2>10. Len(Waits) + (IF Kept = None THEN 0 ELSE 1) < Size
      <3>1. Kept = None \/ Holding
        BY DEF Kept
      <3>2. /\ Used(inRing) \in Nat /\ One(current) = 1 /\ Hands = (IF Holding THEN 1 ELSE 0)
            /\ Used(inRing) + u + One(current) + Hands = Size
        BY <1>1, <1>8, UsedIs DEF PoolInv, Places, One, Hands
      <3> QED BY <2>2, <3>1, <3>2, SizesTyped
    <2> QED BY <1>2, <1>6, <2>9, <2>10 DEF Queue!Arrive, Queue!Room, Waits, Kept
  <1> QED BY <1>3, <1>7, <1>8

LEMMA ConfiguredQueue ==
    ASSUME DisplayInv, Quiet, Configured
    PROVE  Queue!Clear
  <1>1. host'.no \in 0 .. Numbers - 1
    <2>1. host' \in HostType
      BY ConfiguredTyped DEF DisplayInv, ReadTyped
    <2> QED BY <2>1 DEF HostType
  <1>2. Kept' = Kept
    BY DEF Quiet, Configured, Kept, Holding
  <1>3. Used(outRing') = 0
    <2>1. outRing' \in Ring(Blocks) /\ outRing'.in = outRing'.out
      BY EmptyIs DEF Configured, DisplayInv, PoolInv, PoolTyped
    <2> QED BY <2>1, EmptyUsed DEF IsEmpty
  <1>4. Waits' = <<>>
    <2>1. Waits' = [k \in 1 .. 0 |-> Whole(buf'[Content(outRing')[k]])]
      BY <1>3, DeliveredIs
    <2> QED BY <2>1
  <1> QED BY <1>1, <1>2, <1>4 DEF Queue!Clear, Waits, Kept

LEMMA AdvanceQueue ==
    ASSUME DisplayInv, Advance
    PROVE  Queue!Take
  <1>1. /\ PoolInv /\ ReadTyped /\ buf' = buf /\ host' = host /\ outRing' = Popped(outRing, 1)
        /\ main' = [main EXCEPT !.step = "hold"] /\ main.step = "advance"
        /\ outRing \in Ring(Blocks) /\ main \in [step : Steps, block : Blocks]
        /\ Used(outRing) = sem + 1 /\ sem \in Nat /\ main.block = Content(outRing)[1]
    BY DEF DisplayInv, PoolInv, PoolTyped, Places, BetweenSteps, Advance, Idles
  <1> DEFINE u == Used(outRing)
             c == Content(outRing)
             d == Content(outRing')
  <1>2. u \in Nat /\ u > 0
    BY <1>1
  <1>3. Used(outRing') = u - 1 /\ d = SubSeq(c, 2, u)
    BY <1>1, <1>2, FrontTaken
  <1>4. Waits \in Seq(0 .. Numbers) /\ Len(Waits) = u
    BY <1>1, WaitsTyped
  <1>5. Waits = [k \in 1 .. u |-> Whole(buf[c[k]])] /\ Waits' = [k \in 1 .. u - 1 |-> Whole(buf[d[k]])]
    BY <1>1, <1>3, DeliveredIs
  <1>6. Kept = None /\ Kept' = Whole(buf[c[1]])
    <2>1. main'.step = "hold" /\ main'.block = main.block
      BY <1>1
    <2>2. ~Holding /\ Holding'
      BY <1>1, <2>1 DEF Holding
    <2> QED BY <1>1, <2>1, <2>2, DeliveredIs
  <1>7. c \in Seq(Blocks) /\ Len(c) = u
    BY <1>1, ContentType
  <1>8. \A k \in 1 .. u - 1 : d[k] = c[k + 1]
    <2> HIDE DEF c, d, u
    <2> QED BY <1>2, <1>3, <1>7
  <1> DEFINE w == Waits
  <1>9. w # <<>> /\ Head(w) = Whole(buf[c[1]])
    <2>1. w[1] = Whole(buf[c[1]])
      BY <1>2, <1>5
    <2>2. w \in Seq(0 .. Numbers) /\ Len(w) = u
      BY <1>4
    <2> HIDE DEF w, u
    <2>3. w # <<>> /\ Head(w) = w[1]
      BY <1>2, <2>2
    <2> QED BY <2>1, <2>3
  <1>10. Tail(w) = Waits'
    <2>1. w \in Seq(0 .. Numbers) /\ Len(w) = u
      BY <1>4
    <2>2. \A k \in 1 .. u - 1 : w[k + 1] = Whole(buf[d[k]])
      <3>1. \A k \in 1 .. u - 1 : k + 1 \in 1 .. u
        BY <1>2
      <3> QED BY <1>5, <1>8, <3>1
    <2>3. Tail(w) = [k \in 1 .. u - 1 |-> w[k + 1]]
      <3>1. w # <<>>
        BY <1>9
      <3> HIDE DEF w, u
      <3>2. Tail(w) \in Seq(0 .. Numbers) /\ Len(Tail(w)) = u - 1 /\ u - 1 \in Nat
        BY <1>2, <2>1, <3>1, HeadTailProperties
      <3>3. \A k \in 1 .. u - 1 : Tail(w)[k] = w[k + 1]
        BY <1>2, <2>1, <3>1, HeadTailProperties
      <3> DEFINE t == Tail(w)
      <3>4. t = [k \in 1 .. u - 1 |-> t[k]]
        <4>1. t \in Seq(0 .. Numbers) /\ Len(t) = u - 1
          BY <3>2
        <4> HIDE DEF t
        <4> QED BY <4>1, LenProperties
      <3> QED BY <3>3, <3>4
    <2> QED BY <1>5, <2>2, <2>3
  <1> QED BY <1>1, <1>6, <1>9, <1>10 DEF Queue!Take, Waits, Kept

LEMMA PublishQueue ==
    ASSUME DisplayInv, Publish
    PROVE  Queue!Release
  <1>1. /\ PoolInv /\ ReadTyped /\ buf' = [buf EXCEPT ![main.block] = Unused] /\ host' = host
        /\ outRing' = outRing /\ main.step = "publish" /\ main' = [step |-> "idle", block |-> None]
    BY DEF DisplayInv, Publish, Idles
  <1>2. Holding /\ main.block \in Frames
    BY <1>1, RoomForBlock DEF Holding
  <1>3. \A b \in Elements(Content(outRing)) : b \in Frames /\ b # main.block
    BY <1>1, <1>2, Apart DEF InHands, PoolInv, Places
  <1>4. Waits' = Waits
    BY <1>1, <1>3, WaitsSame DEF ReadTyped
  <1>5. Kept # None
    <2>1. Kept \in 0 .. Numbers
      BY <1>1, <1>2, DeliveredIs, WholeType DEF ReadTyped
    <2> QED BY <2>1, DisplaySizes
  <1>6. Kept' = None
    BY <1>1 DEF Kept, Holding
  <1> QED BY <1>1, <1>4, <1>5, <1>6 DEF Queue!Release, Waits, Kept

\* The other steps of the program are not seen from outside.
LEMMA HiddenSteps ==
    ASSUME DisplayInv, TakeSem \/ PeekFrame \/ FreeFrame
    PROVE  Waits' = Waits /\ Kept' = Kept /\ host' = host
  <1>1. outRing' = outRing /\ buf' = buf /\ host' = host
    BY DEF TakeSem, PeekFrame, FreeFrame, Idles
  <1>2. Waits' = Waits
    BY <1>1 DEF Waits, Delivered
  <1>3. main \in [step : Steps, block : Blocks]
    BY DEF DisplayInv, PoolInv, PoolTyped
  <1>4. CASE TakeSem
    <2>1. ~Holding /\ ~Holding'
      BY <1>3, <1>4 DEF TakeSem, Holding
    <2> QED BY <1>1, <1>2, <2>1 DEF Kept
  <1>5. CASE PeekFrame
    <2>1. ~Holding /\ ~Holding'
      BY <1>3, <1>5 DEF PeekFrame, Holding
    <2> QED BY <1>1, <1>2, <2>1 DEF Kept
  <1>6. CASE FreeFrame
    <2>1. Holding
      BY <1>6 DEF FreeFrame, Holding
    <2>2. Free(inRing) # 0
      BY <2>1, RoomForBlock DEF DisplayInv
    <2>3. main' = [main EXCEPT !.step = "publish"]
      BY <1>6, <2>2 DEF FreeFrame
    <2>4. Holding' /\ main'.block = main.block
      BY <1>3, <2>3 DEF Holding
    <2> QED BY <1>1, <1>2, <2>1, <2>4, DeliveredIs
  <1> QED BY <1>4, <1>5, <1>6

(* The program sees a queue of whole frames, each in the order of the host,*)
(* at most once, and untouched while it holds one - for every number and   *)
(* size of frames, and whichever call of the program the interrupt cuts.   *)
THEOREM DisplayImplementsQueue ==
    ASSUME FramesEnd
    PROVE  Spec => ImplementsQueue
  <1>1. Init => Queue!Init
    <2> SUFFICES ASSUME Init PROVE Queue!Init
      OBVIOUS
    <2>1. host.no \in 0 .. Numbers - 1
      <3>1. host \in HostType
        BY ReadInit DEF ReadTyped
      <3> QED BY <3>1 DEF HostType
    <2>2. Used(outRing) = 0
      BY EmptyIs, EmptyUsed DEF Init, IsEmpty
    <2>3. Waits = <<>>
      <3>1. Waits = [k \in 1 .. 0 |-> Whole(buf[Content(outRing)[k]])]
        BY <2>2, DeliveredIs
      <3> QED BY <3>1
    <2>4. Kept = None
      BY DEF Init, Kept, Holding
    <2> QED BY <2>1, <2>3, <2>4 DEF Queue!Init, Waits, Kept
  <1>2. Init => DisplayInv
    BY DisplayInit
  <1>3. DisplayInv /\ [Next]_vars => DisplayInv'
    BY DisplayStep
  <1>4. DisplayInv /\ [Next]_vars => [Queue!Next]_<<host.no, Waits, Kept>>
    <2>1. UNCHANGED vars => UNCHANGED <<host.no, Waits, Kept>>
      BY DEF vars, Waits, Kept, Delivered, Holding
    <2>2. DisplayInv /\ (TakeSem \/ PeekFrame \/ FreeFrame) => UNCHANGED <<host.no, Waits, Kept>>
      BY HiddenSteps
    <2> QED BY <2>1, <2>2, PacketQueue, ConfiguredQueue, AdvanceQueue, PublishQueue
            DEF Next, Program, Queue!Next
  <1> QED BY <1>1, <1>2, <1>3, <1>4, PTL DEF Spec, ImplementsQueue, Queue!Spec, Waits, Kept

-----------------------------------------------------------------------------
(* The assertion.                                                          *)

\* No frame fills the buffer exactly: its last packet is empty, and has no room.
FramesFit == 2 * BufLen \notin Lengths

NotAsserted == ~asserted /\ host.sent <= host.len \div 2

LEMMA ReadFits == ReadLen <= BufLen
  <1>1. /\ BufLen \div ReadLen \in Int /\ BufLen % ReadLen = 0 /\ BufLen \in Nat \ {0} /\ ReadLen \in Nat \ {0}
        /\ BufLen = ReadLen * (BufLen \div ReadLen) + (BufLen % ReadLen)
    <2>1. BufLen \in Int /\ ReadLen \in Nat \ {0} /\ BufLen \in Nat \ {0} /\ BufLen % ReadLen = 0
      BY DisplayAssumption
    <2> QED BY <2>1, DivMod, Zenon
  <1>2. SUFFICES ASSUME BufLen < ReadLen PROVE FALSE
    BY <1>1
  <1>3. BufLen \in 0 .. ReadLen - 1
    BY <1>1, <1>2
  <1>4. BufLen % ReadLen = BufLen
    BY <1>1, <1>3, ModSmall
  <1> QED BY <1>1, <1>4

LEMMA NextReadFits ==
    ASSUME NEW m \in Nat, m < BufLen, m % ReadLen = 0
    PROVE  m + ReadLen <= BufLen
  <1> DEFINE a == m \div ReadLen
             b == BufLen \div ReadLen
  <1>1. m \in Int /\ BufLen \in Int /\ ReadLen \in Nat \ {0} /\ BufLen % ReadLen = 0
    BY DisplayAssumption
  <1>2. a \in Int /\ b \in Int /\ m = ReadLen * a + (m % ReadLen) /\ BufLen = ReadLen * b + (BufLen % ReadLen)
    BY <1>1, DivMod, Zenon
  <1>3. /\ ReadLen * (b + (-a)) = ReadLen * b + ReadLen * (-a) /\ ReadLen * (-a) = -(ReadLen * a)
        /\ ReadLen * a \in Int /\ ReadLen * b \in Int /\ -a \in Int /\ b + (-a) \in Int
    <2>1. ReadLen \in Nat /\ a \in Int /\ b \in Int /\ -a \in Int /\ b + (-a) \in Int
      BY <1>1, <1>2
    <2> HIDE DEF a, b
    <2>2. ReadLen * (b + (-a)) = ReadLen * b + ReadLen * (-a)
      BY <2>1, Products, Zenon
    <2>3. ReadLen * (-a) = -(ReadLen * a) /\ ReadLen * a \in Int /\ ReadLen * b \in Int
      BY <2>1, Products, Zenon
    <2> QED BY <2>1, <2>2, <2>3
  <1> DEFINE d == b + (-a)
             x == ReadLen * a
             y == ReadLen * b
             z == ReadLen * d
  <1>4. m = x + 0 /\ BufLen = y + 0 /\ z = y + (-x) /\ x \in Int /\ y \in Int /\ d \in Int
    BY <1>1, <1>2, <1>3
  <1>5. d >= 1 => z >= ReadLen
    BY <1>1, <1>4, Multiple
  <1>6. d <= 0 => z <= 0
    <2>1. d <= 0 => ReadLen * d <= 0
      <3> HIDE DEF d
      <3> QED BY <1>1, <1>4
    <2> QED BY <2>1
  <1> HIDE DEF d, x, y, z
  <1> QED BY <1>1, <1>4, <1>5, <1>6

LEMMA ReadsAdd ==
    ASSUME NEW m \in Nat, m % ReadLen = 0
    PROVE  (m + ReadLen) % ReadLen = 0
  <1>1. ReadLen \in Nat \ {0} /\ m \in Int /\ 1 \in Int
    BY DisplaySizes
  <1>2. (m + ReadLen * 1) % ReadLen = m % ReadLen
    BY <1>1, ModShift, Zenon
  <1>3. ReadLen * 1 = ReadLen
    BY <1>1
  <1> QED BY <1>2, <1>3

LEMMA PacketAsserts ==
    ASSUME DisplayInv, NotAsserted, HostPacket, FramesEnd, FramesFit
    PROVE  NotAsserted'
  <1>1. /\ PoolInv /\ ReadTyped /\ ~asserted /\ host.sent <= host.len \div 2
        /\ host \in HostType /\ host' \in HostType /\ asserted' \in BOOLEAN
    BY PacketTyped DEF DisplayInv, NotAsserted, ReadTyped
  <1>2. host'.sent <= host'.len \div 2
    <2>1. CASE Last
      <3>1. host'.sent = 0 /\ host'.len \in Nat
        BY <1>1, <2>1, PacketIs, DisplaySizes DEF HostType
      <3> QED BY <3>1
    <2>2. CASE ~Last
      <3>1. host' = [host EXCEPT !.sent = @ + 1]
        BY <2>2, PacketIs
      <3>2. host'.sent = host.sent + 1 /\ host'.len = host.len /\ host.sent \in Nat /\ host.len \in Nat
        BY <1>1, <3>1, DisplaySizes DEF HostType
      <3>3. host.sent # host.len \div 2
        BY <2>2 DEF Last
      <3> QED BY <1>1, <3>2, <3>3
    <2> QED BY <2>1, <2>2
  <1>3. ASSUME NEW block, GetFrame(block, 0) PROVE ~asserted'
    <2>1. ~(0 + ReadLen > BufLen)
      BY ReadFits, DisplaySizes
    <2> QED BY <1>3, <2>1 DEF GetFrame
  <1>4. DropFrame => ~asserted'
    BY <1>1 DEF DropFrame
  <1>5. NextFrame => ~asserted'
    BY <1>3, <1>4 DEF NextFrame
  <1>6. CASE WhileIgnoring(End)
    BY <1>2, <1>3, <1>4, <1>5, <1>6 DEF WhileIgnoring, NotAsserted
  <1>7. CASE ReadEnds /\ WhileReceiving(NewBuf, Count, End)
    <2>1. CASE DropFrame \/ NextFrame
      BY <1>2, <1>4, <1>5, <2>1 DEF NotAsserted
    <2>2. CASE /\ ~Oversized(NewBuf) /\ ~End /\ offset' = PartEnd(Count) /\ GetFrame(current, offset')
               /\ UNCHANGED <<inRing, outRing, sem, current, ignoring>>
      <3>1. ~ignoring /\ ~Last /\ ~EmptyLast
        BY <1>7, <2>2, EmptyAlone DEF WhileReceiving, End, EmptyLast
      <3>2. NewBuf[current][0] = <<host.no, host.len, 0>>
        <4>1. host.sent \in 0 .. BufLen - 1 /\ 0 \in 0 .. BufLen - 1
          BY <3>1, Landed, DisplaySizes
        <4>2. 0 < host.sent \/ 0 = host.sent
          BY <4>1
        <4> QED BY <3>1, <4>1, <4>2, Landed
      <3>3. host.len \in Nat /\ host.len <= 2 * BufLen /\ host.len # 2 * BufLen
        <4>1. host.len \in Nat /\ host.len \in Lengths
          BY <1>1, DisplaySizes DEF HostType
        <4>2. ~(host.len > 2 * BufLen)
          BY <2>2, <3>2 DEF Oversized
        <4> QED BY <4>1, <4>2, DisplaySizes DEF FramesFit
      <3>4. host.len \div 2 < BufLen /\ host.len \div 2 \in Nat
        BY <3>3, DisplaySizes
      <3>5. Count = ReadLen /\ Count = reading.got + 1
        <4>1. reading.block # None
          BY <1>1, <3>1, PacketIs, SizesTyped DEF DisplayInv, PoolInv, BetweenSteps, Receiving, Received
        <4> QED BY <1>7, <3>1, <4>1 DEF ReadEnds, Count
      <3>6. /\ offset \in Nat /\ reading.got \in Nat /\ host.sent = offset + reading.got
            /\ offset % ReadLen = 0 /\ host.sent \in Nat
        BY <1>1, <3>1, PacketIs DEF DisplayInv, ReadTyped, Receiving, Received, HostType
      <3>7. host.sent # host.len \div 2
        BY <3>1 DEF Last
      <3>8. offset' = offset + ReadLen
        BY <2>2, <3>5 DEF PartEnd
      <3>9. offset + ReadLen \in Nat /\ offset + ReadLen < BufLen
        <4> DEFINE n == host.len \div 2
        <4>1. n \in Nat /\ n < BufLen /\ host.sent <= n /\ host.sent # n /\ ReadLen = reading.got + 1
          BY <1>1, <3>4, <3>5, <3>7
        <4> HIDE DEF n
        <4>2. host.sent + 1 <= n /\ offset + ReadLen = host.sent + 1
          BY <3>6, <4>1, DisplaySizes
        <4> QED BY <3>6, <4>1, <4>2, DisplaySizes
      <3>10. (offset + ReadLen) % ReadLen = 0
        BY <3>6, ReadsAdd
      <3>11. offset + ReadLen + ReadLen <= BufLen
        BY <3>9, <3>10, NextReadFits
      <3>12. ~(offset' + ReadLen > BufLen)
        BY <3>8, <3>9, <3>11, DisplaySizes
      <3>13. ~asserted'
        BY <2>2, <3>12 DEF GetFrame
      <3> QED BY <1>2, <3>13 DEF NotAsserted
    <2> QED BY <1>7, <2>1, <2>2 DEF WhileReceiving
  <1>8. CASE UNCHANGED asserted
    BY <1>1, <1>2, <1>8 DEF NotAsserted
  <1> QED BY <1>6, <1>7, <1>8, PacketIs

(* The assertion of the driver (usbd_display.c:130) holds as long as the   *)
(* end of every frame is seen and no frame fills the buffer exactly: the   *)
(* run that violates it needs a frame of the first kind.                   *)
THEOREM AssertsNothing ==
    ASSUME FramesEnd, FramesFit
    PROVE  Spec => []AssertionHolds
  <1>1. Init => DisplayInv /\ NotAsserted
    <2>1. Init => ReadTyped /\ asserted = FALSE /\ host.sent = 0
      BY ReadInit DEF Init
    <2>2. Init => host.len \in Nat
      BY ReadInit, DisplaySizes DEF ReadTyped, HostType
    <2>3. \A m \in Nat : 0 <= m \div 2
      OBVIOUS
    <2> QED BY <2>1, <2>2, <2>3, DisplayInit DEF NotAsserted
  <1>2. DisplayInv /\ NotAsserted /\ [Next]_vars => (DisplayInv /\ NotAsserted)'
    <2>1. NotAsserted /\ UNCHANGED vars => NotAsserted'
      BY DEF NotAsserted, vars
    <2>2. NotAsserted /\ Program => NotAsserted'
      BY DEF NotAsserted, Program, TakeSem, PeekFrame, Advance, FreeFrame, Publish, Idles
    <2>3. DisplayInv /\ NotAsserted /\ Configured => NotAsserted'
      <3> SUFFICES ASSUME DisplayInv, NotAsserted, Configured PROVE NotAsserted'
        OBVIOUS
      <3>1. host'.sent = 0 /\ host'.len \in Nat /\ asserted' = asserted
        BY DisplaySizes DEF Configured
      <3>2. 0 <= host'.len \div 2
        BY <3>1
      <3> QED BY <3>1, <3>2 DEF NotAsserted
    <2> QED BY <2>1, <2>2, <2>3, PacketAsserts, DisplayStep DEF Next
  <1>3. NotAsserted => AssertionHolds
    BY DEF NotAsserted, AssertionHolds
  <1> QED BY <1>1, <1>2, <1>3, PTL DEF Spec
=============================================================================
