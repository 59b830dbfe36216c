--------------------------- MODULE RingBuffer_proofs ---------------------------
(***************************************************************************)
(* The ring buffer is a queue: what a write and a read do to the number of *)
(* units in use and to the content, although the counters run over and the *)
(* places in the pool are taken modulo its size.                           *)
(***************************************************************************)
EXTENDS RingBuffer, SequenceTheorems, TLAPS

(* A remainder of a number in the first, the second or the negative range. *)
LEMMA ModSmall ==
    ASSUME NEW w \in Nat \ {0}, NEW a \in 0 .. w - 1
    PROVE  a % w = a
OBVIOUS

LEMMA ModOver ==
    ASSUME NEW w \in Nat \ {0}, NEW a \in w .. 2 * w - 1
    PROVE  a % w = a - w
OBVIOUS

LEMMA ModUnder ==
    ASSUME NEW w \in Nat \ {0}, NEW a \in -w .. -1
    PROVE  a % w = a + w
OBVIOUS

(* The difference of two counters, and a counter that moves on.            *)
LEMMA Difference ==
    ASSUME NEW w \in Nat \ {0}, NEW a \in 0 .. w - 1, NEW b \in 0 .. w - 1
    PROVE  (a - b) % w = IF a >= b THEN a - b ELSE a - b + w
<1>1. CASE a >= b
  <2>1. a - b \in 0 .. w - 1
    BY <1>1
  <2> QED
    BY <1>1, <2>1, ModSmall
<1>2. CASE ~(a >= b)
  <2>1. a - b \in -w .. -1
    BY <1>2
  <2>2. (a - b) % w = a - b + w
    BY <2>1, ModUnder
  <2> QED
    BY <1>2, <2>2
<1> QED
  BY <1>1, <1>2

LEMMA CounterMoves ==
    ASSUME NEW w \in Nat \ {0}, NEW a \in 0 .. w - 1, NEW n \in 0 .. w
    PROVE  (a + n) % w = IF a + n < w THEN a + n ELSE a + n - w
<1>1. CASE a + n < w
  <2>1. a + n \in 0 .. w - 1
    BY <1>1
  <2> QED
    BY <1>1, <2>1, ModSmall
<1>2. CASE ~(a + n < w)
  <2>1. a + n \in w .. 2 * w - 1
    BY <1>2
  <2>2. (a + n) % w = a + n - w
    BY <2>1, ModOver
  <2> QED
    BY <1>2, <2>2
<1> QED
  BY <1>1, <1>2

(* usb_ringbuffer_get_used and usb_ringbuffer_get_free, of a ring that is  *)
(* not overfull.                                                           *)
LEMMA UsedType ==
    ASSUME NEW Data, NEW r \in Ring(Data)
    PROVE  Used(r) \in 0 .. Wrap - 1
<1> DEFINE u == (r.in - r.out) % Wrap
<1>1. /\ Wrap \in Nat \ {0} /\ r.in \in 0 .. Wrap - 1 /\ r.out \in 0 .. Wrap - 1
  BY RingAssumption DEF Ring
<1>2. u = IF r.in >= r.out THEN r.in - r.out ELSE r.in - r.out + Wrap
  BY <1>1, Difference
<1> HIDE DEF u
<1>3. u \in 0 .. Wrap - 1
  BY <1>1, <1>2
<1> QED
  BY <1>3 DEF Used, u

LEMMA FreeIs ==
    ASSUME NEW Data, NEW r \in Ring(Data), Used(r) <= Size
    PROVE  Free(r) = Size - Used(r) /\ Free(r) \in 0 .. Size
<1>1. Used(r) \in 0 .. Wrap - 1
  BY UsedType
<1>2. Wrap \in Nat \ {0} /\ Size \in Nat /\ Size < Wrap
  BY RingAssumption
<1>3. Size - Used(r) \in 0 .. Wrap - 1
  BY <1>1, <1>2
<1>4. (Size - Used(r)) % Wrap = Size - Used(r)
  BY <1>2, <1>3, ModSmall
<1> QED
  BY <1>1, <1>2, <1>4 DEF Free

(* A write that fits and a read of what is there.                          *)
LEMMA UsedPushed ==
    ASSUME NEW Data, NEW r \in Ring(Data), NEW n \in Nat, Used(r) + n <= Size
    PROVE  Pushed(r, n) \in Ring(Data) /\ Used(Pushed(r, n)) = Used(r) + n
<1> DEFINE s == Pushed(r, n)
<1>1. /\ Wrap \in Nat \ {0} /\ Size \in Nat /\ Size < Wrap
      /\ r.in \in 0 .. Wrap - 1 /\ r.out \in 0 .. Wrap - 1
  BY RingAssumption DEF Ring
<1>2. Used(r) = IF r.in >= r.out THEN r.in - r.out ELSE r.in - r.out + Wrap
  BY <1>1, Difference DEF Used
<1>3. n \in 0 .. Wrap
  BY <1>1, <1>2
<1>4. s.in = (r.in + n) % Wrap /\ s.out = r.out /\ s.pool = r.pool
  BY DEF Pushed, Ring
<1>5. s.in = IF r.in + n < Wrap THEN r.in + n ELSE r.in + n - Wrap
  BY <1>1, <1>3, <1>4, CounterMoves
<1>6. s.in \in 0 .. Wrap - 1
  BY <1>1, <1>3, <1>5
<1>7. s \in Ring(Data)
  BY <1>6 DEF Pushed, Ring
<1>8. Used(s) = IF s.in >= s.out THEN s.in - s.out ELSE s.in - s.out + Wrap
  BY <1>1, <1>4, <1>6, Difference DEF Used
<1>9. Used(s) = Used(r) + n
  <2> HIDE DEF s
  <2>1. s.out = r.out
    BY <1>4
  <2>2. CASE r.in >= r.out
    BY <1>1, <1>2, <1>5, <1>8, <2>1, <2>2
  <2>3. CASE ~(r.in >= r.out)
    BY <1>1, <1>2, <1>5, <1>8, <2>1, <2>3
  <2> QED
    BY <2>2, <2>3
<1> QED
  BY <1>7, <1>9

LEMMA UsedPopped ==
    ASSUME NEW Data, NEW r \in Ring(Data), NEW n \in Nat, n <= Used(r)
    PROVE  Popped(r, n) \in Ring(Data) /\ Used(Popped(r, n)) = Used(r) - n
<1> DEFINE s == Popped(r, n)
<1>1. /\ Wrap \in Nat \ {0}
      /\ r.in \in 0 .. Wrap - 1 /\ r.out \in 0 .. Wrap - 1
  BY RingAssumption DEF Ring
<1>2. Used(r) = IF r.in >= r.out THEN r.in - r.out ELSE r.in - r.out + Wrap
  BY <1>1, Difference DEF Used
<1>3. n \in 0 .. Wrap
  BY <1>1, <1>2
<1>4. s.out = (r.out + n) % Wrap /\ s.in = r.in /\ s.pool = r.pool
  BY DEF Popped, Ring
<1>5. s.out = IF r.out + n < Wrap THEN r.out + n ELSE r.out + n - Wrap
  BY <1>1, <1>3, <1>4, CounterMoves
<1>6. s.out \in 0 .. Wrap - 1
  BY <1>1, <1>3, <1>5
<1>7. s \in Ring(Data)
  BY <1>6 DEF Popped, Ring
<1>8. Used(s) = IF s.in >= s.out THEN s.in - s.out ELSE s.in - s.out + Wrap
  BY <1>1, <1>4, <1>6, Difference DEF Used
<1>9. Used(s) = Used(r) - n
  <2> HIDE DEF s
  <2>1. s.in = r.in
    BY <1>4
  <2>2. CASE r.in >= r.out
    BY <1>1, <1>2, <1>5, <1>8, <2>1, <2>2
  <2>3. CASE ~(r.in >= r.out)
    BY <1>1, <1>2, <1>5, <1>8, <2>1, <2>3
  <2> QED
    BY <2>2, <2>3
<1> QED
  BY <1>7, <1>9

-----------------------------------------------------------------------------
(* Quotient and remainder, and that a remainder is what it is.             *)
LEMMA DivMod ==
    ASSUME NEW w \in Nat \ {0}, NEW a \in Int
    PROVE  a \div w \in Int /\ a % w \in 0 .. w - 1 /\ a = w * (a \div w) + (a % w)
OBVIOUS

LEMMA Multiple ==
    ASSUME NEW w \in Nat \ {0}, NEW d \in Int
    PROVE  w * d \in Int /\ (d >= 1 => w * d >= w)
OBVIOUS

LEMMA ModUnique ==
    ASSUME NEW w \in Nat \ {0}, NEW q \in Int, NEW p \in Int, NEW r \in 0 .. w - 1, NEW t \in 0 .. w - 1,
           w * q + r = w * p + t
    PROVE  r = t
<1>1. w * q \in Int /\ w * p \in Int
  BY Multiple
<1>2. CASE q = p
  BY <1>1, <1>2
<1>3. CASE q > p
  <2>1. w * (q - p) >= w
    BY <1>3, Multiple
  <2>2. w * (q - p) = w * q - w * p
    OBVIOUS
  <2> QED
    BY <1>1, <2>1, <2>2
<1>4. CASE p > q
  <2>1. w * (p - q) >= w
    BY <1>4, Multiple
  <2>2. w * (p - q) = w * p - w * q
    OBVIOUS
  <2> QED
    BY <1>1, <2>1, <2>2
<1> QED
  BY <1>2, <1>3, <1>4

(* A multiple of w makes no difference.                                    *)
LEMMA ModShift ==
    ASSUME NEW w \in Nat \ {0}, NEW a \in Int, NEW m \in Int
    PROVE  (a + w * m) % w = a % w
<1> DEFINE q == a \div w
           r == a % w
           p == (a + w * m) \div w
           t == (a + w * m) % w
<1>1. a + w * m \in Int
  BY Multiple
<1>2. q \in Int /\ r \in 0 .. w - 1 /\ a = w * q + r
  BY DivMod
<1>3. p \in Int /\ t \in 0 .. w - 1 /\ a + w * m = w * p + t
  BY <1>1, DivMod
<1> HIDE DEF q, r, p, t
<1>4. w * (q + m) = w * q + w * m
  BY <1>2
<1>5. w * q \in Int /\ w * m \in Int /\ w * p \in Int
  BY <1>2, <1>3, Multiple
<1>6. w * (q + m) + r = w * p + t /\ q + m \in Int
  BY <1>2, <1>3, <1>4, <1>5
<1>7. r = t
  BY <1>2, <1>3, <1>6, ModUnique
<1> QED
  BY <1>7 DEF r, t

(* The range of the counters is a multiple of the size of the pool.        *)
LEMMA WrapMultiple == \E m \in Int : Wrap = Size * m
<1>1. Wrap \in Int /\ Size \in Nat \ {0} /\ Wrap % Size = 0
  BY RingAssumption
<1>2. Wrap = Size * (Wrap \div Size) + (Wrap % Size) /\ Wrap \div Size \in Int
  BY <1>1, DivMod
<1>3. Size * (Wrap \div Size) \in Int
  BY <1>1, <1>2, Multiple
<1> DEFINE q == Wrap \div Size
<1>4. q \in Int /\ Wrap = Size * q
  BY <1>1, <1>2, <1>3
<1> HIDE DEF q
<1> QED
  BY <1>4

(* The k-th unit of the content, from 0, lies k - Used(r) places behind the*)
(* place that is written next.                                             *)
LEMMA PlaceOf ==
    ASSUME NEW Data, NEW r \in Ring(Data), NEW k \in Int
    PROVE  (((r.out + k) % Size) - r.in) % Size = (k - Used(r)) % Size
<1> DEFINE j == (r.out + k) % Size
           q == (r.out + k) \div Size
           b == k - Used(r)
<1>1. /\ Size \in Nat \ {0} /\ Wrap \in Nat \ {0}
      /\ r.in \in 0 .. Wrap - 1 /\ r.out \in 0 .. Wrap - 1 /\ Used(r) \in 0 .. Wrap - 1
  BY RingAssumption, UsedType DEF Ring
<1>2. r.out + k \in Int
  BY <1>1
<1>3. q \in Int /\ j \in 0 .. Size - 1 /\ r.out + k = Size * q + j
  BY <1>1, <1>2, DivMod
<1>4. PICK m \in Int : Wrap = Size * m
  BY WrapMultiple
<1>5. Used(r) = IF r.in >= r.out THEN r.in - r.out ELSE r.in - r.out + Wrap
  BY <1>1, Difference DEF Used
<1> HIDE DEF j, q
<1>6. b \in Int
  BY <1>1
<1>7. Size * q \in Int /\ Size * (-q) = -(Size * q) /\ Size * (m - q) = Wrap - Size * q
  BY <1>1, <1>3, <1>4
<1>8. CASE r.in >= r.out
  <2>1. j - r.in = b + Size * (-q)
    BY <1>1, <1>2, <1>3, <1>5, <1>7, <1>8
  <2>2. -q \in Int
    BY <1>3
  <2> HIDE DEF b
  <2>3. (j - r.in) % Size = b % Size
    BY <1>1, <1>6, <2>1, <2>2, ModShift
  <2> QED
    BY <2>3 DEF b, j
<1>9. CASE ~(r.in >= r.out)
  <2>1. j - r.in = b + Size * (m - q)
    BY <1>1, <1>2, <1>3, <1>5, <1>7, <1>9
  <2>2. m - q \in Int
    BY <1>3, <1>4
  <2> HIDE DEF b
  <2>3. (j - r.in) % Size = b % Size
    BY <1>1, <1>6, <2>1, <2>2, ModShift
  <2> QED
    BY <2>3 DEF b, j
<1> QED
  BY <1>8, <1>9

(* Units that are in the ring are not touched by a copy that fits behind   *)
(* them, and the copied ones come right after them.                        *)
LEMMA CopiedUnit ==
    ASSUME NEW Data, NEW r \in Ring(Data), NEW data \in Seq(Data), Used(r) + Len(data) <= Size,
           NEW k \in 0 .. Used(r) + Len(data) - 1
    PROVE  Copied(r, data).pool[(r.out + k) % Size]
             = IF k < Used(r) THEN r.pool[(r.out + k) % Size] ELSE data[k - Used(r) + 1]
<1> DEFINE j == (r.out + k) % Size
<1>1. /\ Size \in Nat \ {0} /\ Len(data) \in Nat /\ Used(r) \in Nat /\ r.out \in Int
      /\ k \in Nat /\ k < Used(r) + Len(data)
  BY RingAssumption, UsedType DEF Ring
<1>2. j \in 0 .. Size - 1
  <2>1. r.out + k \in Int
    BY <1>1
  <2> QED
    BY <1>1, <2>1, DivMod
<1>3. (j - r.in) % Size = (k - Used(r)) % Size
  BY <1>1, PlaceOf
<1>4. Copied(r, data).pool[j]
        = IF (j - r.in) % Size < Len(data) THEN data[((j - r.in) % Size) + 1] ELSE r.pool[j]
  BY <1>2 DEF Copied, Ring
<1> HIDE DEF j
<1>5. CASE k < Used(r)
  <2>1. k - Used(r) \in -Size .. -1
    BY <1>1, <1>5
  <2>2. (k - Used(r)) % Size = k - Used(r) + Size
    BY <1>1, <2>1, ModUnder
  <2>3. ~((j - r.in) % Size < Len(data))
    BY <1>1, <1>3, <2>2
  <2> QED
    BY <1>4, <1>5, <2>3 DEF j
<1>6. CASE ~(k < Used(r))
  <2>1. k - Used(r) \in 0 .. Size - 1
    BY <1>1, <1>6
  <2>2. (k - Used(r)) % Size = k - Used(r)
    BY <1>1, <2>1, ModSmall
  <2>3. (j - r.in) % Size < Len(data)
    BY <1>1, <1>3, <2>2
  <2> QED
    BY <1>3, <1>4, <1>6, <2>2, <2>3 DEF j
<1> QED
  BY <1>5, <1>6

(* A function on 1 .. n is a sequence of that length.                      *)
LEMMA SeqOf ==
    ASSUME NEW S, NEW n \in Nat, NEW f \in [1 .. n -> S]
    PROVE  f \in Seq(S) /\ Len(f) = n
<1>1. f \in Seq(S)
  BY SeqDef
<1>2. Len(f) \in Nat /\ DOMAIN f = 1 .. Len(f)
  BY <1>1
<1>3. DOMAIN f = 1 .. n
  OBVIOUS
<1>4. Len(f) = n
  BY <1>2, <1>3
<1> QED
  BY <1>1, <1>4

(* The content is a sequence of as many units as are in use.               *)
LEMMA ContentType ==
    ASSUME NEW Data, NEW r \in Ring(Data)
    PROVE  /\ Content(r) \in Seq(Data) /\ Len(Content(r)) = Used(r)
           /\ \A k \in 1 .. Used(r) : Content(r)[k] = r.pool[(r.out + k - 1) % Size]
<1> DEFINE c == Content(r)
<1>1. Used(r) \in Nat /\ r.out \in Int /\ Size \in Nat \ {0}
  <2>1. Used(r) \in 0 .. Wrap - 1
    BY UsedType
  <2> QED
    BY <2>1, RingAssumption DEF Ring
<1>2. c = [k \in 1 .. Used(r) |-> r.pool[(r.out + k - 1) % Size]]
  BY DEF Content, Peeked
<1>3. \A k \in 1 .. Used(r) : r.pool[(r.out + k - 1) % Size] \in Data
  <2> TAKE k \in 1 .. Used(r)
  <2>1. r.out + k - 1 \in Int
    BY <1>1
  <2>2. (r.out + k - 1) % Size \in 0 .. Size - 1
    BY <1>1, <2>1, DivMod
  <2> QED
    BY <2>2 DEF Ring
<1>4. c \in [1 .. Used(r) -> Data]
  BY <1>2, <1>3
<1>5. c \in Seq(Data) /\ Len(c) = Used(r)
  <2> HIDE DEF c
  <2> QED
    BY <1>1, <1>4, SeqOf
<1> QED
  BY <1>2, <1>5

-----------------------------------------------------------------------------
(* A whole write that fits is a copy and a move of the counter.            *)
LEMMA WrittenIs ==
    ASSUME NEW Data, NEW r \in Ring(Data), NEW data \in Seq(Data), Used(r) + Len(data) <= Size
    PROVE  /\ Written(r, data) = Pushed(Copied(r, data), Len(data))
           /\ Copied(r, data) \in Ring(Data) /\ Used(Copied(r, data)) = Used(r)
           /\ Written(r, data) \in Ring(Data) /\ Used(Written(r, data)) = Used(r) + Len(data)
<1> DEFINE c == Copied(r, data)
<1>1. Used(r) \in 0 .. Wrap - 1 /\ Len(data) \in Nat
  BY UsedType
<1>2. Size \in Nat \ {0}
  BY RingAssumption
<1>3. Free(r) = Size - Used(r)
  BY <1>1, <1>2, FreeIs
<1>4. Writable(r, Len(data)) = Len(data)
  BY <1>1, <1>2, <1>3 DEF Writable
<1>5. SubSeq(data, 1, Len(data)) = data
  OBVIOUS
<1>6. Written(r, data) = Pushed(c, Len(data))
  BY <1>4, <1>5 DEF Written
<1>7. c.in = r.in /\ c.out = r.out /\ c \in Ring(Data)
  <2>1. \A j \in 0 .. Size - 1 :
          (IF (j - r.in) % Size < Len(data) THEN data[((j - r.in) % Size) + 1] ELSE r.pool[j]) \in Data
    <3> TAKE j \in 0 .. Size - 1
    <3>1. (j - r.in) % Size \in 0 .. Size - 1
      <4>1. j - r.in \in Int
        BY DEF Ring
      <4> QED
        BY <1>2, <4>1, DivMod
    <3>2. CASE (j - r.in) % Size < Len(data)
      <4>1. ((j - r.in) % Size) + 1 \in 1 .. Len(data)
        BY <1>1, <1>2, <3>1, <3>2
      <4> QED
        BY <3>2, <4>1
    <3>3. CASE ~((j - r.in) % Size < Len(data))
      BY <3>3 DEF Ring
    <3> QED
      BY <3>2, <3>3
  <2> QED
    BY <2>1 DEF Copied, Ring
<1>8. Used(c) = Used(r)
  BY <1>7 DEF Used
<1> QED
  BY <1>1, <1>6, <1>7, <1>8, UsedPushed

(* usb_ringbuffer_write of what fits appends it to the content: nothing in *)
(* the ring is touched, wherever the counters and the places run over.     *)
THEOREM WriteAppends ==
    ASSUME NEW Data, NEW r \in Ring(Data), NEW data \in Seq(Data), Used(r) + Len(data) <= Size
    PROVE  Content(Written(r, data)) = Content(r) \o data
<1> DEFINE w == Written(r, data)
           c == Copied(r, data)
           u == Used(r)
           n == Len(data)
<1>1. u \in Nat /\ n \in Nat
  <2>1. Used(r) \in 0 .. Wrap - 1
    BY UsedType
  <2> QED
    BY <2>1
<1>2. w \in Ring(Data) /\ Used(w) = u + n
  BY WrittenIs
<1>3. w.out = r.out /\ w.pool = c.pool
  <2>1. w = Pushed(c, n) /\ c \in Ring(Data)
    BY WrittenIs
  <2>2. c.out = r.out
    BY DEF Copied, Ring
  <2> HIDE DEF w, c
  <2> QED
    BY <2>1, <2>2 DEF Pushed, Ring
<1>4. /\ Content(w) \in Seq(Data) /\ Len(Content(w)) = u + n
      /\ \A k \in 1 .. u + n : Content(w)[k] = c.pool[(r.out + k - 1) % Size]
  <2> HIDE DEF w
  <2> QED
    BY <1>2, <1>3, ContentType
<1>5. /\ Content(r) \in Seq(Data) /\ Len(Content(r)) = u
      /\ \A k \in 1 .. u : Content(r)[k] = r.pool[(r.out + k - 1) % Size]
  BY ContentType
<1>6. /\ Content(r) \o data \in Seq(Data) /\ Len(Content(r) \o data) = u + n
      /\ \A k \in 1 .. u + n :
           (Content(r) \o data)[k] = IF k <= u THEN Content(r)[k] ELSE data[k - u]
  <2> DEFINE d == Content(r)
  <2>1. d \in Seq(Data) /\ Len(d) = u
    BY <1>5
  <2> HIDE DEF d, u
  <2>2. /\ d \o data \in Seq(Data) /\ Len(d \o data) = u + n
        /\ \A k \in 1 .. u + n : (d \o data)[k] = IF k <= u THEN d[k] ELSE data[k - u]
    BY <2>1, ConcatProperties
  <2> QED
    BY <2>2 DEF d
<1>7. \A k \in 1 .. u + n : Content(w)[k] = (Content(r) \o data)[k]
  <2> TAKE k \in 1 .. u + n
  <2>1. k - 1 \in 0 .. u + n - 1 /\ r.out + (k - 1) = r.out + k - 1 /\ k - 1 - u + 1 = k - u
    BY <1>1 DEF Ring
  <2>2. c.pool[(r.out + (k - 1)) % Size]
          = IF k - 1 < u THEN r.pool[(r.out + (k - 1)) % Size] ELSE data[k - 1 - u + 1]
    BY <2>1, CopiedUnit
  <2>3. CASE k <= u
    BY <1>1, <1>4, <1>5, <1>6, <2>1, <2>2, <2>3
  <2>4. CASE ~(k <= u)
    BY <1>1, <1>4, <1>6, <2>1, <2>2, <2>4
  <2> QED
    BY <2>3, <2>4
<1> HIDE DEF w
<1> QED
  BY <1>4, <1>6, <1>7, SeqEqual DEF w

(* A read takes units from the front of the content, and those only.       *)
THEOREM ReadTakesFront ==
    ASSUME NEW Data, NEW r \in Ring(Data), NEW n \in Nat, n <= Used(r)
    PROVE  /\ Peeked(r, n) = SubSeq(Content(r), 1, n)
           /\ Content(Popped(r, n)) = SubSeq(Content(r), n + 1, Used(r))
<1> DEFINE p == Popped(r, n)
           u == Used(r)
           c == Content(r)
<1>1. /\ Size \in Nat \ {0} /\ Wrap \in Nat \ {0} /\ u \in Nat /\ u < Wrap
      /\ r.out \in 0 .. Wrap - 1
  <2>1. Used(r) \in 0 .. Wrap - 1
    BY UsedType
  <2> QED
    BY <2>1, RingAssumption DEF Ring
<1>2. p \in Ring(Data) /\ Used(p) = u - n
  BY UsedPopped
<1>3. p.pool = r.pool /\ p.out = (r.out + n) % Wrap
  BY DEF Popped, Ring
<1>4. /\ c \in Seq(Data) /\ Len(c) = u
      /\ \A k \in 1 .. u : c[k] = r.pool[(r.out + k - 1) % Size]
  BY ContentType
<1>5. /\ Content(p) \in Seq(Data) /\ Len(Content(p)) = u - n
      /\ \A k \in 1 .. u - n : Content(p)[k] = r.pool[(p.out + k - 1) % Size]
  <2> HIDE DEF p
  <2> QED
    BY <1>2, <1>3, ContentType
<1>6. \A k \in 1 .. u - n : (p.out + k - 1) % Size = (r.out + (n + k) - 1) % Size
  <2> TAKE k \in 1 .. u - n
  <2>1. p.out = IF r.out + n < Wrap THEN r.out + n ELSE r.out + n - Wrap
    <3>1. n \in 0 .. Wrap
      BY <1>1
    <3> QED
      BY <1>1, <1>3, <3>1, CounterMoves
  <2>2. PICK m \in Int : Wrap = Size * m
    BY WrapMultiple
  <2>3. CASE r.out + n < Wrap
    BY <1>1, <2>1, <2>3
  <2>4. CASE ~(r.out + n < Wrap)
    <3>1. Size * (-m) = -Wrap /\ -m \in Int
      BY <1>1, <2>2
    <3>2. p.out + k - 1 = (r.out + (n + k) - 1) + Size * (-m)
      BY <1>1, <2>1, <2>4, <3>1
    <3>3. r.out + (n + k) - 1 \in Int
      BY <1>1
    <3> QED
      BY <1>1, <3>1, <3>2, <3>3, ModShift
  <2> QED
    BY <2>3, <2>4
<1> HIDE DEF p, c
<1>7. /\ SubSeq(c, n + 1, u) \in Seq(Data) /\ Len(SubSeq(c, n + 1, u)) = u - n
      /\ \A k \in 1 .. u - n : SubSeq(c, n + 1, u)[k] = c[n + k]
  BY <1>1, <1>4
<1>8. Content(p) = SubSeq(c, n + 1, u)
  <2>1. \A k \in 1 .. u - n : Content(p)[k] = SubSeq(c, n + 1, u)[k]
    <3> TAKE k \in 1 .. u - n
    <3>1. n + k \in 1 .. u
      BY <1>1
    <3>2. c[n + k] = r.pool[(r.out + (n + k) - 1) % Size]
      BY <1>4, <3>1
    <3> QED
      BY <1>5, <1>6, <1>7, <3>2
  <2> QED
    BY <1>1, <1>5, <1>7, <2>1, SeqEqual
<1>9. Peeked(r, n) = SubSeq(c, 1, n)
  <2> DEFINE q == Peeked(r, n)
             s == SubSeq(c, 1, n)
  <2>1. q = [k \in 1 .. n |-> r.pool[(r.out + k - 1) % Size]]
    BY DEF Peeked
  <2>2. s \in Seq(Data) /\ Len(s) = n /\ \A k \in 1 .. n : s[k] = c[k]
    BY <1>1, <1>4
  <2>3. \A k \in 1 .. n : q[k] = s[k] /\ q[k] \in Data
    <3> TAKE k \in 1 .. n
    <3>1. k \in 1 .. u
      BY <1>1
    <3>2. c[k] \in Data /\ c[k] = r.pool[(r.out + k - 1) % Size]
      BY <1>4, <3>1
    <3>3. q[k] = r.pool[(r.out + k - 1) % Size] /\ s[k] = c[k]
      BY <2>1, <2>2
    <3> QED
      BY <3>2, <3>3
  <2>4. q \in [1 .. n -> Data]
    BY <2>1, <2>3
  <2> HIDE DEF q, s
  <2>5. q \in Seq(Data) /\ Len(q) = n
    BY <2>4, SeqOf
  <2> QED
    BY <2>2, <2>3, <2>5, SeqEqual DEF q, s
<1> QED
  BY <1>8, <1>9 DEF p, c

(* Dropping no more than the first of two sequences has.                   *)
LEMMA DropOfConcat ==
    ASSUME NEW S, NEW s \in Seq(S), NEW t \in Seq(S), NEW n \in 0 .. Len(s)
    PROVE  SubSeq(s \o t, n + 1, Len(s) + Len(t)) = SubSeq(s, n + 1, Len(s)) \o t
<1> DEFINE a == SubSeq(s \o t, n + 1, Len(s) + Len(t))
           b == SubSeq(s, n + 1, Len(s))
           m == Len(s) - n
<1>1. Len(s) \in Nat /\ Len(t) \in Nat /\ n \in Nat /\ m \in Nat
  OBVIOUS
<1>2. /\ s \o t \in Seq(S) /\ Len(s \o t) = Len(s) + Len(t)
      /\ \A k \in 1 .. Len(s) + Len(t) : (s \o t)[k] = IF k <= Len(s) THEN s[k] ELSE t[k - Len(s)]
  BY ConcatProperties
<1>3. /\ a \in Seq(S) /\ Len(a) = m + Len(t)
      /\ \A k \in 1 .. m + Len(t) : a[k] = (s \o t)[n + k]
  <2>1. \A k \in n + 1 .. Len(s) + Len(t) : (s \o t)[k] \in S
    BY <1>1, <1>2
  <2> QED
    BY <1>1, <2>1, SubSeqProperties
<1>4. b \in Seq(S) /\ Len(b) = m /\ \A k \in 1 .. m : b[k] = s[n + k]
  <2>1. \A k \in n + 1 .. Len(s) : s[k] \in S
    BY <1>1
  <2> QED
    BY <1>1, <2>1, SubSeqProperties
<1> HIDE DEF a, b
<1>5. /\ b \o t \in Seq(S) /\ Len(b \o t) = m + Len(t)
      /\ \A k \in 1 .. m + Len(t) : (b \o t)[k] = IF k <= m THEN b[k] ELSE t[k - m]
  <2> HIDE DEF m
  <2> QED
    BY <1>4, ConcatProperties
<1>6. \A k \in 1 .. m + Len(t) : a[k] = (b \o t)[k]
  <2> TAKE k \in 1 .. m + Len(t)
  <2>1. n + k \in 1 .. Len(s) + Len(t) /\ n + k - Len(s) = k - m
    BY <1>1
  <2>2. CASE k <= m
    BY <1>1, <1>2, <1>3, <1>4, <1>5, <2>1, <2>2
  <2>3. CASE ~(k <= m)
    <3>1. a[k] = (s \o t)[n + k] /\ (b \o t)[k] = t[k - m]
      BY <1>3, <1>5, <2>3
    <3>2. ~(n + k <= Len(s))
      BY <1>1, <2>3
    <3>3. (s \o t)[n + k] = t[n + k - Len(s)]
      BY <1>2, <2>1, <3>2
    <3> QED
      BY <2>1, <3>1, <3>3
  <2> QED
    BY <2>2, <2>3
<1>7. a = b \o t
  BY <1>3, <1>5, <1>6, SeqEqual
<1> QED
  BY <1>7 DEF a, b

(* A write in the middle of a read: the units the reader is copying stay   *)
(* where they are, and what it then takes away is what it has copied.      *)
THEOREM WriteDuringRead ==
    ASSUME NEW Data, NEW r \in Ring(Data), NEW data \in Seq(Data), Used(r) + Len(data) <= Size,
           NEW n \in Nat, n <= Used(r)
    PROVE  /\ Peeked(Written(r, data), n) = Peeked(r, n)
           /\ Content(Popped(Written(r, data), n)) = Content(Popped(r, n)) \o data
<1> DEFINE w == Written(r, data)
           c == Content(r)
           u == Used(r)
           m == Len(data)
<1>1. u \in Nat /\ m \in Nat /\ c \in Seq(Data) /\ Len(c) = u
  <2>1. Used(r) \in 0 .. Wrap - 1
    BY UsedType
  <2> QED
    BY <2>1, ContentType
<1>2. w \in Ring(Data) /\ Used(w) = u + m /\ n <= Used(w)
  BY <1>1, WrittenIs
<1>3. Content(w) = c \o data
  BY WriteAppends
<1>4. Peeked(r, n) = SubSeq(c, 1, n) /\ Content(Popped(r, n)) = SubSeq(c, n + 1, u)
  BY ReadTakesFront
<1> HIDE DEF w, c
<1>5. /\ Peeked(w, n) = SubSeq(c \o data, 1, n)
      /\ Content(Popped(w, n)) = SubSeq(c \o data, n + 1, u + m)
  BY <1>2, <1>3, ReadTakesFront
<1>6. SubSeq(c \o data, 1, n) = SubSeq(c, 1, n)
  BY <1>1
<1>7. SubSeq(c \o data, n + 1, u + m) = SubSeq(c, n + 1, u) \o data
  <2>1. n \in 0 .. Len(c)
    BY <1>1
  <2> QED
    BY <1>1, <2>1, DropOfConcat
<1> QED
  BY <1>4, <1>5, <1>6, <1>7 DEF w, c

-----------------------------------------------------------------------------
(* usb_ringbuffer_overwrite leaves the newest units of the ring, as many   *)
(* as still have room, and behind them the data, or as much of the start   *)
(* of it as the ring can hold.                                             *)
THEOREM OverwriteKeepsNewest ==
    ASSUME NEW Data, NEW r \in Ring(Data), Used(r) <= Size, NEW data \in Seq(Data),
           NEW n \in Nat, n = IF Len(data) > Size THEN Size ELSE Len(data),
           NEW lost \in Nat, lost = IF Used(r) + n > Size THEN Used(r) + n - Size ELSE 0
    PROVE  Content(Overwritten(r, data))
             = SubSeq(Content(r), lost + 1, Used(r)) \o SubSeq(data, 1, n)
<1> DEFINE p == Popped(r, lost)
           d == SubSeq(data, 1, n)
<1>1. /\ Size \in Nat \ {0} /\ Wrap \in Nat /\ Size < Wrap /\ Len(data) \in Nat
      /\ Used(r) \in Nat /\ lost <= Used(r) /\ n <= Len(data)
  <2>1. Used(r) \in 0 .. Wrap - 1
    BY UsedType
  <2> QED
    BY <2>1, RingAssumption
<1>2. Free(r) = Size - Used(r) /\ Free(r) \in 0 .. Size
  BY FreeIs
<1>3. n = IF Len(data) > Free(r) /\ Len(data) > Size THEN Size ELSE Len(data)
  BY <1>1, <1>2
<1>4. lost = IF Len(data) > Free(r) THEN (n - Free(r)) % Wrap ELSE 0
  <2>1. CASE Len(data) > Free(r)
    <3> DEFINE a == n - Free(r)
    <3>1. a \in 0 .. Wrap - 1 /\ lost = a
      BY <1>1, <1>2, <2>1
    <3> HIDE DEF a
    <3>2. Wrap \in Nat \ {0}
      BY <1>1
    <3>3. a % Wrap = a
      BY <3>1, <3>2, ModSmall
    <3> QED
      BY <2>1, <3>1, <3>3 DEF a
  <2>2. CASE ~(Len(data) > Free(r))
    BY <1>1, <1>2, <2>2
  <2> QED
    BY <2>1, <2>2
<1>5. Overwritten(r, data) = Pushed(Copied(p, d), n)
  BY <1>3, <1>4 DEF Overwritten
<1>6. d \in Seq(Data) /\ Len(d) = n
  BY <1>1
<1>7. p \in Ring(Data) /\ Used(p) = Used(r) - lost /\ Used(p) + n <= Size
  BY <1>1, UsedPopped
<1>8. Content(p) = SubSeq(Content(r), lost + 1, Used(r))
  BY <1>1, ReadTakesFront
<1> HIDE DEF p, d
<1>9. Written(p, d) = Pushed(Copied(p, d), n)
  BY <1>6, <1>7, WrittenIs
<1>10. Content(Written(p, d)) = Content(p) \o d
  BY <1>6, <1>7, WriteAppends
<1> QED
  BY <1>5, <1>8, <1>9, <1>10 DEF p, d

(* What usb_ringbuffer_linear_read_setup points at is the front of the     *)
(* content, and something unless the ring is empty.                        *)
THEOREM LinearReadIsFront ==
    ASSUME NEW Data, NEW r \in Ring(Data), Used(r) <= Size
    PROVE  /\ LinearRead(r).n \in 0 .. Used(r) /\ (LinearRead(r).n = 0 => IsEmpty(r))
           /\ \A k \in 1 .. LinearRead(r).n : Content(r)[k] = r.pool[LinearRead(r).at + k - 1]
<1> DEFINE at == r.out % Size
           n == IF Size - at > Used(r) THEN Used(r) ELSE Size - at
<1>1. /\ Size \in Nat \ {0} /\ Wrap \in Nat \ {0} /\ Used(r) \in Nat
      /\ r.out \in 0 .. Wrap - 1 /\ r.in \in 0 .. Wrap - 1
  <2>1. Used(r) \in 0 .. Wrap - 1
    BY UsedType
  <2> QED
    BY <2>1, RingAssumption DEF Ring
<1>2. CASE IsEmpty(r)
  BY <1>1, <1>2 DEF LinearRead
<1>3. CASE ~IsEmpty(r)
  <2>1. LinearRead(r) = [at |-> at, n |-> n]
    BY <1>3 DEF LinearRead, OnePiece
  <2>2. at \in 0 .. Size - 1
    <3>1. r.out \in Int
      BY <1>1
    <3> QED
      BY <1>1, <3>1, DivMod
  <2>3. Used(r) > 0
    <3>1. Used(r) = IF r.in >= r.out THEN r.in - r.out ELSE r.in - r.out + Wrap
      BY <1>1, Difference DEF Used
    <3> QED
      BY <1>1, <1>3, <3>1 DEF IsEmpty
  <2>4. \A k \in 1 .. n : (r.out + k - 1) % Size = at + k - 1
    <3> TAKE k \in 1 .. n
    <3> DEFINE q == r.out \div Size
    <3>1. r.out \in Int
      BY <1>1
    <3>2. q \in Int /\ r.out = Size * q + at
      BY <1>1, <3>1, DivMod
    <3> HIDE DEF q, at
    <3> DEFINE b == at + k - 1
    <3>3. b \in 0 .. Size - 1
      BY <1>1, <2>2
    <3>4. Size * q \in Int
      BY <1>1, <3>2, Multiple
    <3>5. r.out + k - 1 = b + Size * q
      BY <1>1, <2>2, <3>2, <3>4
    <3> HIDE DEF b
    <3>6. b \in Int
      BY <1>1, <3>3
    <3>7. (b + Size * q) % Size = b % Size
      BY <1>1, <3>2, <3>6, ModShift
    <3>8. b % Size = b
      BY <1>1, <3>3, ModSmall
    <3> QED
      BY <3>5, <3>7, <3>8 DEF b
  <2> HIDE DEF at
  <2>5. n \in 1 .. Used(r)
    BY <1>1, <2>2, <2>3
  <2>6. \A k \in 1 .. Used(r) : Content(r)[k] = r.pool[(r.out + k - 1) % Size]
    BY ContentType
  <2> HIDE DEF n
  <2>7. \A k \in 1 .. n : Content(r)[k] = r.pool[at + k - 1]
    BY <1>1, <2>4, <2>5, <2>6
  <2> QED
    BY <1>1, <2>1, <2>5, <2>7
<1> QED
  BY <1>2, <1>3

(* Data put where usb_ringbuffer_linear_write_setup points, no more than   *)
(* it says, and then reported done, are what a write would have appended.  *)
THEOREM LinearWriteAppends ==
    ASSUME NEW Data, NEW r \in Ring(Data), Used(r) <= Size,
           NEW data \in Seq(Data), Len(data) <= LinearWrite(r).n, Free(r) > 0
    PROVE  Content(LinearWritten(Filled(r, LinearWrite(r).at, data), Len(data))) = Content(r) \o data
<1> DEFINE at == r.in % Size
           q == r.in \div Size
           f == Filled(r, at, data)
           c == Copied(r, data)
<1>1. /\ Size \in Nat \ {0} /\ Wrap \in Nat /\ Size < Wrap /\ Len(data) \in Nat
      /\ Used(r) \in Nat /\ r.in \in 0 .. Wrap - 1 /\ r.out \in 0 .. Wrap - 1
  <2>1. Used(r) \in 0 .. Wrap - 1
    BY UsedType
  <2> QED
    BY <2>1, RingAssumption DEF Ring
<1>2. Free(r) = Size - Used(r)
  BY FreeIs
<1>3. at \in 0 .. Size - 1 /\ q \in Int /\ r.in = Size * q + at /\ Size * q \in Int
  <2>1. r.in \in Int
    BY <1>1
  <2> HIDE DEF q
  <2>2. at \in 0 .. Size - 1 /\ q \in Int /\ r.in = Size * q + at
    BY <1>1, <2>1, DivMod DEF q
  <2> QED
    BY <1>1, <2>2, Multiple
<1> HIDE DEF at, q
<1>4. LinearWrite(r).at = at /\ at + Len(data) <= Size /\ Used(r) + Len(data) <= Size
  <2>1. LinearWrite(r) = [at |-> at, n |-> IF Size - at > Free(r) THEN Free(r) ELSE Size - at]
    BY DEF LinearWrite, OnePiece, at
  <2> QED
    BY <1>1, <1>2, <1>3, <2>1
<1>5. \A j \in 0 .. Size - 1 :
        (j - r.in) % Size = IF j >= at THEN j - at ELSE j - at + Size
  <2> TAKE j \in 0 .. Size - 1
  <2>1. -q \in Int /\ Size * (-q) = -(Size * q)
    BY <1>1, <1>3
  <2>2. j - r.in = (j - at) + Size * (-q) /\ j - at \in Int
    BY <1>1, <1>3, <2>1
  <2>3. (j - r.in) % Size = (j - at) % Size
    BY <1>1, <2>1, <2>2, ModShift
  <2> QED
    BY <1>1, <1>3, <2>3, Difference
<1>6. f = c
  <2>1. \A j \in 0 .. Size - 1 :
          (IF j \in at .. at + Len(data) - 1 THEN data[j - at + 1] ELSE r.pool[j])
            = (IF (j - r.in) % Size < Len(data) THEN data[((j - r.in) % Size) + 1] ELSE r.pool[j])
    <3> TAKE j \in 0 .. Size - 1
    <3>1. CASE j >= at
      <4>1. (j - r.in) % Size = j - at
        BY <1>5, <3>1
      <4>2. j \in at .. at + Len(data) - 1 <=> j - at < Len(data)
        BY <1>1, <1>3, <3>1
      <4> QED
        BY <4>1, <4>2
    <3>2. CASE ~(j >= at)
      <4>1. ~((j - r.in) % Size < Len(data)) /\ j \notin at .. at + Len(data) - 1
        BY <1>1, <1>3, <1>4, <1>5, <3>2
      <4> QED
        BY <4>1
    <3> QED
      BY <3>1, <3>2
  <2> QED
    BY <2>1 DEF Filled, Copied
<1>7. /\ Written(r, data) = Pushed(c, Len(data))
      /\ c \in Ring(Data) /\ Used(c) = Used(r)
  BY <1>4, WrittenIs
<1> HIDE DEF f, c
<1>8. Writable(c, Len(data)) = Len(data)
  <2>1. Free(c) = Size - Used(r)
    BY <1>7, FreeIs
  <2> QED
    BY <1>1, <1>4, <2>1 DEF Writable
<1>9. LinearWritten(f, Len(data)) = Written(r, data)
  BY <1>6, <1>7, <1>8 DEF LinearWritten
<1>10. Content(Written(r, data)) = Content(r) \o data
  BY <1>4, WriteAppends
<1> QED
  BY <1>4, <1>9, <1>10 DEF f
=============================================================================
