-------------------------- MODULE EventLoopProofs --------------------------
(***************************************************************************)
(* Theorems about EventLoop for every size of the ring, any number of CPUs *)
(* and every modulus of the positions.                                     *)
(***************************************************************************)
EXTENDS EventLoop, Sequences, TLAPS

-----------------------------------------------------------------------------
(***************************************************************************)
(* Arithmetic of positions.                                                *)
(***************************************************************************)
\* Numbers less than c apart have different remainders.
LEMMA RemaindersDiffer ==
  ASSUME NEW c \in Nat \ {0}, NEW a \in Nat, NEW b \in Nat, a < b, b - a < c
  PROVE  a % c # b % c
<1> SUFFICES ASSUME a % c = b % c PROVE FALSE
  OBVIOUS
<1>1. PICK qa \in Int : a = c * qa + (a % c)
  <2>1. a \div c \in Int /\ a = c * (a \div c) + (a % c)
    OBVIOUS
  <2> QED BY <2>1
<1>2. PICK qb \in Int : b = c * qb + (b % c)
  <2>1. b \div c \in Int /\ b = c * (b \div c) + (b % c)
    OBVIOUS
  <2> QED BY <2>1
<1>3. a % c \in Int
  OBVIOUS
<1>4. b - a = c * (qb - qa)
  BY <1>1, <1>2, <1>3
<1>5. qb - qa >= 1
  <2> SUFFICES ASSUME qb - qa <= 0 PROVE FALSE
    OBVIOUS
  <2>1. c * (qb - qa) <= 0
    OBVIOUS
  <2> QED BY <1>4, <2>1
<1>6. c * (qb - qa) >= c
  BY <1>5
<1> QED BY <1>4, <1>6

\* Adding M does not change the place: M is a multiple of Size.
LEMMA PlacePeriodic ==
  ASSUME NEW a \in Nat
  PROVE  (a + M) % Size = a % Size
<1>1. Size \in Nat /\ Size > 0 /\ M \in Nat /\ M % Size = 0
  BY SizeAssumption, MAssumption
<1>2. PICK m \in Int : M = Size * m
  <2>1. M \div Size \in Int /\ M = Size * (M \div Size) + (M % Size)
    BY <1>1
  <2> QED BY <1>1, <2>1
<1>3. PICK q \in Int, r \in 0 .. Size - 1 : a = Size * q + r /\ r = a % Size
  <2>1. /\ a \div Size \in Int /\ a % Size \in 0 .. Size - 1
        /\ a = Size * (a \div Size) + (a % Size)
    BY <1>1
  <2> QED BY <2>1
<1>4. PICK p \in Int, s \in 0 .. Size - 1 : a + M = Size * p + s /\ s = (a + M) % Size
  <2>1. /\ (a + M) \div Size \in Int /\ (a + M) % Size \in 0 .. Size - 1
        /\ a + M = Size * ((a + M) \div Size) + ((a + M) % Size)
    BY <1>1
  <2> QED BY <2>1
<1>5. Size * (q + m - p) = s - r
  BY <1>1, <1>2, <1>3, <1>4
<1>6. q + m - p = 0
  <2>1. s - r < Size /\ s - r > - Size
    BY <1>1
  <2>2. q + m - p >= 1 => Size * (q + m - p) >= Size
    BY <1>1
  <2>3. q + m - p <= -1 => Size * (q + m - p) <= - Size
    BY <1>1
  <2> QED BY <1>1, <1>5, <2>1, <2>2, <2>3
<1>7. s = r
  <2>1. Size * (q + m - p) = 0
    BY <1>1, <1>6
  <2> QED BY <1>5, <2>1
<1> QED BY <1>3, <1>4, <1>7

\* Distance and After without remainders.
LEMMA DistanceIs ==
  ASSUME NEW p \in Positions, NEW q \in Positions
  PROVE  /\ Distance(p, q) = IF p <= q THEN q - p ELSE q - p + M
         /\ Distance(p, q) \in 0 .. M - 1
<1>1. M \in Nat /\ M > 0 /\ p \in 0 .. M - 1 /\ q \in 0 .. M - 1
  BY SizeAssumption, MAssumption DEF Positions
<1>2. CASE p <= q
  <2>1. (q - p) % M = q - p
    BY <1>1, <1>2
  <2> QED BY <1>1, <1>2, <2>1 DEF Distance
<1>3. CASE ~ (p <= q)
  <2>1. (q - p) % M = q - p + M
    BY <1>1, <1>3
  <2> QED BY <1>1, <1>3, <2>1 DEF Distance
<1> QED BY <1>2, <1>3

\* The position k records after p.
LEMMA StepIs ==
  ASSUME NEW p \in Positions, NEW k \in 0 .. M - 1
  PROVE  /\ (p + k) % M = IF p + k < M THEN p + k ELSE p + k - M
         /\ (p + k) % M \in Positions
         /\ Distance(p, (p + k) % M) = k
         /\ Place((p + k) % M) = (p + k) % Size
<1>1. M \in Nat /\ M > 0 /\ p \in 0 .. M - 1
  BY SizeAssumption, MAssumption DEF Positions
<1>2. (p + k) % M = IF p + k < M THEN p + k ELSE p + k - M
  <2>1. CASE p + k < M
    BY <1>1, <2>1
  <2>2. CASE ~ (p + k < M)
    BY <1>1, <2>2
  <2> QED BY <2>1, <2>2
<1>3. (p + k) % M \in Positions
  BY <1>1, <1>2 DEF Positions
<1>4. Distance(p, (p + k) % M) = k
  BY <1>1, <1>2, <1>3, DistanceIs
<1>5. Place((p + k) % M) = (p + k) % Size
  <2>1. CASE p + k < M
    BY <1>2, <2>1 DEF Place
  <2>2. CASE ~ (p + k < M)
    <3>1. p + k - M \in Nat /\ (p + k - M) + M = p + k
      BY <1>1, <2>2
    <3> QED BY <1>2, <2>2, <3>1, PlacePeriodic DEF Place
  <2> QED BY <2>1, <2>2
<1> QED BY <1>2, <1>3, <1>4, <1>5

\* A position is as far after p as its distance says.
LEMMA StepBack ==
  ASSUME NEW p \in Positions, NEW q \in Positions
  PROVE  /\ (p + Distance(p, q)) % M = q
         /\ Place(q) = (p + Distance(p, q)) % Size
<1>1. M \in Nat /\ M > 0 /\ p \in 0 .. M - 1 /\ q \in 0 .. M - 1
  BY SizeAssumption, MAssumption DEF Positions
<1>2. /\ Distance(p, q) = IF p <= q THEN q - p ELSE q - p + M
      /\ Distance(p, q) \in 0 .. M - 1
  BY DistanceIs
<1>3. PICK d \in 0 .. M - 1 : d = Distance(p, q)
  BY <1>2
<1>4. /\ (p + d) % M = IF p + d < M THEN p + d ELSE p + d - M
      /\ Place((p + d) % M) = (p + d) % Size
  BY StepIs
<1>5. (IF p + d < M THEN p + d ELSE p + d - M) = q
  BY <1>1, <1>2, <1>3
<1> QED BY <1>3, <1>4, <1>5

\* Two positions of a window as long as the ring have places of their own.
LEMMA PlacesDiffer ==
  ASSUME NEW p \in Positions, NEW q \in Positions, NEW r \in Positions, q # r,
         Distance(p, q) < Size, Distance(p, r) < Size
  PROVE  Place(q) # Place(r)
<1>1. Size \in Nat \ {0} /\ p \in Nat
  BY SizeAssumption, MAssumption DEF Positions
<1>2. Distance(p, q) \in Nat /\ Distance(p, r) \in Nat
  BY DistanceIs, MAssumption
<1>3. PICK j \in Nat, k \in Nat : j = Distance(p, q) /\ k = Distance(p, r)
  BY <1>2
<1>4. Place(q) = (p + j) % Size /\ Place(r) = (p + k) % Size /\ j # k
  BY <1>3, StepBack
<1> DEFINE x == p + j
           y == p + k
<1>5. CASE j < k
  <2>1. x \in Nat /\ y \in Nat /\ x < y /\ y - x < Size
    BY <1>1, <1>3, <1>5
  <2> HIDE DEF x, y
  <2>2. x % Size # y % Size
    BY <1>1, <2>1, RemaindersDiffer
  <2> QED BY <1>4, <2>2 DEF x, y
<1>6. CASE k < j
  <2>1. x \in Nat /\ y \in Nat /\ y < x /\ x - y < Size
    BY <1>1, <1>3, <1>6
  <2> HIDE DEF x, y
  <2>2. y % Size # x % Size
    BY <1>1, <2>1, RemaindersDiffer
  <2> QED BY <1>4, <2>2 DEF x, y
<1> QED BY <1>3, <1>4, <1>5, <1>6

\* A position has a place.
LEMMA PlaceType == \A p \in Positions : Place(p) \in Places
<1> SUFFICES ASSUME NEW p \in Positions PROVE p % Size \in 0 .. Size - 1
  BY DEF Place, Places
<1> QED BY SizeAssumption, MAssumption DEF Positions

\* Moving p and q on by one.
LEMMA AfterIs ==
  ASSUME NEW p \in Positions, NEW q \in Positions
  PROVE  /\ After(p) \in Positions
         /\ Distance(p, After(p)) = 1
         /\ Distance(p, q) < M - 1 => Distance(p, After(q)) = Distance(p, q) + 1
         /\ p # q => Distance(After(p), q) = Distance(p, q) - 1
<1>1. M \in Nat /\ M >= 2 /\ p \in 0 .. M - 1 /\ q \in 0 .. M - 1
  BY SizeAssumption, MAssumption DEF Positions
<1>2. \A x \in Positions : After(x) = (IF x + 1 < M THEN x + 1 ELSE 0) /\ After(x) \in Positions
  <2> SUFFICES ASSUME NEW x \in Positions
               PROVE  After(x) = (IF x + 1 < M THEN x + 1 ELSE 0) /\ After(x) \in Positions
    OBVIOUS
  <2>1. x \in 0 .. M - 1 /\ 1 \in 0 .. M - 1
    BY <1>1 DEF Positions
  <2>2. (x + 1) % M = IF x + 1 < M THEN x + 1 ELSE x + 1 - M
    BY <2>1, StepIs
  <2> QED BY <1>1, <2>1, <2>2 DEF After, Positions
<1>3. /\ Distance(p, q) = IF p <= q THEN q - p ELSE q - p + M
      /\ Distance(p, After(q)) = IF p <= After(q) THEN After(q) - p ELSE After(q) - p + M
      /\ Distance(After(p), q) = IF After(p) <= q THEN q - After(p) ELSE q - After(p) + M
      /\ Distance(p, After(p)) = IF p <= After(p) THEN After(p) - p ELSE After(p) - p + M
  BY <1>2, DistanceIs
<1> QED BY <1>1, <1>2, <1>3
-----------------------------------------------------------------------------
(***************************************************************************)
(* The inductive invariant.  A record that is in the ring and not busy has *)
(* its content; CPUs write into the ring, each into a record of its own;   *)
(* and the reader's local positions are what the shared ones were.         *)
(***************************************************************************)
Committed ==
  \A p \in Positions : InRing(p) /\ Place(p) \notin busy => data[Place(p)] = p

WritersApart ==
  \A c \in CPUs : reserved[c] # None =>
    /\ InRing(reserved[c])
    /\ \A d \in CPUs : reserved[d] = reserved[c] => d = c

ReaderWithin ==
  /\ pc \in {"load", "scan", "callback"} => cons_pos = consumer_pos
  /\ pc \in {"scan", "callback", "release"} =>
       Distance(consumer_pos, prod_pos) <= Distance(consumer_pos, producer_pos)
  /\ pc \in {"callback", "release"} =>
       /\ consumer_pos # prod_pos
       /\ InRing(consumer_pos)
       /\ Place(consumer_pos) \notin busy
  /\ pc = "release" => cons_pos = After(consumer_pos)

RingInv == TypeOK /\ Committed /\ WritersApart /\ ReaderWithin

\* The positions and distances of a state, as numbers.
LEMMA RingNumbers ==
  ASSUME TypeOK
  PROVE  /\ Size \in Nat /\ Size > 0 /\ M \in Nat /\ M >= 2 * Size
         /\ producer_pos \in Positions /\ consumer_pos \in Positions
         /\ cons_pos \in Positions /\ prod_pos \in Positions
         /\ Distance(consumer_pos, producer_pos) \in 0 .. Size
         /\ \A p, q \in Positions : Distance(p, q) \in 0 .. M - 1
<1>1. /\ producer_pos \in Positions /\ consumer_pos \in Positions
      /\ cons_pos \in Positions /\ prod_pos \in Positions
      /\ Distance(consumer_pos, producer_pos) <= Size
  BY DEF TypeOK
<1>2. Size \in Nat /\ Size > 0 /\ M \in Nat /\ M >= 2 * Size
  BY SizeAssumption, MAssumption
<1>3. \A p, q \in Positions : Distance(p, q) \in 0 .. M - 1
  BY DistanceIs
<1> QED BY <1>1, <1>2, <1>3

\* Positions at one distance are one position; a position is at distance 0 of
\* itself only.
LEMMA DistanceInjective ==
  ASSUME NEW p \in Positions, NEW q \in Positions, NEW r \in Positions,
         Distance(p, q) = Distance(p, r)
  PROVE  q = r
BY StepBack

\* There are records in the ring exactly if the positions differ
\* (ringbuf.c:213-216).
LEMMA NotEmptyIs ==
  ASSUME NEW p \in Positions, NEW q \in Positions
  PROVE  /\ Distance(p, p) = 0
         /\ p # q => Distance(p, q) > 0
<1>1. M \in Nat /\ p \in Int /\ q \in Int
  BY MAssumption DEF Positions
<1>2. Distance(p, p) = 0
  BY <1>1, DistanceIs
<1>3. p # q => Distance(p, q) # 0
  BY <1>2, DistanceInjective
<1> QED BY <1>1, <1>2, <1>3, DistanceIs

\* Records in the ring have places of their own, also from the one that is
\* reserved next if there is room.
LEMMA RingPlaces ==
  ASSUME TypeOK, NEW p \in Positions, InRing(p)
  PROVE  /\ \A q \in Positions : InRing(q) /\ q # p => Place(q) # Place(p)
         /\ p # producer_pos
         /\ Room => Place(p) # Place(producer_pos)
<1> DEFINE D(x) == Distance(consumer_pos, x)
<1>1. /\ Size \in Nat /\ D(producer_pos) \in 0 .. Size /\ consumer_pos \in Positions
      /\ producer_pos \in Positions
      /\ \A x \in Positions : D(x) \in 0 .. M - 1
  BY RingNumbers
<1>2. D(p) < D(producer_pos)
  BY DEF InRing
<1>3. p # producer_pos
  BY <1>1, <1>2
<1>4. M \in Nat
  BY MAssumption
<1>5. ASSUME NEW q \in Positions, InRing(q), q # p PROVE Place(q) # Place(p)
  <2>1. D(q) < D(producer_pos)
    BY <1>5 DEF InRing
  <2>2. D(q) < Size /\ D(p) < Size
    BY <1>1, <1>2, <1>4, <2>1
  <2> QED BY <1>1, <1>5, <2>2, PlacesDiffer
<1>6. ASSUME Room PROVE Place(p) # Place(producer_pos)
  <2>1. D(producer_pos) < Size
    BY <1>6 DEF Room
  <2>2. D(p) < Size
    BY <1>1, <1>2, <1>4, <2>1
  <2> QED BY <1>1, <1>3, <2>1, <2>2, PlacesDiffer
<1> QED BY <1>3, <1>5, <1>6

\* A reservation adds one record at the end.
LEMMA ReserveWindow ==
  ASSUME TypeOK, Room, producer_pos' = After(producer_pos), consumer_pos' = consumer_pos
  PROVE  /\ producer_pos' \in Positions
         /\ Distance(consumer_pos, producer_pos)' = Distance(consumer_pos, producer_pos) + 1
         /\ \A p \in Positions : InRing(p)' <=> InRing(p) \/ p = producer_pos
<1>1. /\ Size \in Nat /\ Size > 0 /\ M \in Nat /\ M >= 2 * Size
      /\ producer_pos \in Positions /\ consumer_pos \in Positions
      /\ Distance(consumer_pos, producer_pos) \in 0 .. Size
      /\ Distance(consumer_pos, producer_pos) < Size
      /\ \A p, q \in Positions : Distance(p, q) \in 0 .. M - 1
  BY RingNumbers DEF Room
<1>2. /\ producer_pos' \in Positions
      /\ Distance(consumer_pos, producer_pos') = Distance(consumer_pos, producer_pos) + 1
  <2>1. Distance(consumer_pos, producer_pos) < M - 1
    BY <1>1
  <2> QED BY <1>1, <2>1, AfterIs
<1>3. ASSUME NEW p \in Positions
      PROVE  InRing(p)' <=> InRing(p) \/ p = producer_pos
  <2>1. InRing(p)' <=> Distance(consumer_pos, p) < Distance(consumer_pos, producer_pos) + 1
    BY <1>2 DEF InRing, Distance
  <2>2. Distance(consumer_pos, p) = Distance(consumer_pos, producer_pos) => p = producer_pos
    BY <1>1, DistanceInjective
  <2>3. Distance(consumer_pos, p) \in Int
    BY <1>1
  <2> QED BY <1>1, <2>1, <2>2, <2>3 DEF InRing
<1> QED BY <1>2, <1>3 DEF Distance

\* Giving room back takes the first record out.
LEMMA ReleaseWindow ==
  ASSUME TypeOK, InRing(consumer_pos), consumer_pos' = After(consumer_pos),
         producer_pos' = producer_pos
  PROVE  /\ consumer_pos' \in Positions
         /\ Distance(consumer_pos, producer_pos)' = Distance(consumer_pos, producer_pos) - 1
         /\ \A p \in Positions : InRing(p)' <=> InRing(p) /\ p # consumer_pos
<1>1. /\ Size \in Nat /\ Size > 0 /\ M \in Nat /\ M >= 2 * Size
      /\ producer_pos \in Positions /\ consumer_pos \in Positions
      /\ Distance(consumer_pos, producer_pos) \in 0 .. Size
      /\ \A p, q \in Positions : Distance(p, q) \in 0 .. M - 1
  BY RingNumbers
<1>2. consumer_pos # producer_pos
  BY <1>1, RingPlaces
<1>3. /\ consumer_pos' \in Positions
      /\ \A p \in Positions : p # consumer_pos =>
           Distance(consumer_pos', p) = Distance(consumer_pos, p) - 1
  BY <1>1, AfterIs
<1>4. Distance(consumer_pos', consumer_pos) = M - 1
  <2>1. consumer_pos' = IF consumer_pos + 1 < M THEN consumer_pos + 1 ELSE consumer_pos + 1 - M
    <3>1. 1 \in 0 .. M - 1
      BY <1>1
    <3> QED BY <1>1, <3>1, StepIs DEF After
  <2>2. Distance(consumer_pos', consumer_pos)
          = IF consumer_pos' <= consumer_pos THEN consumer_pos - consumer_pos'
            ELSE consumer_pos - consumer_pos' + M
    BY <1>1, <1>3, DistanceIs
  <2>3. consumer_pos \in 0 .. M - 1
    BY <1>1 DEF Positions
  <2> QED BY <1>1, <2>1, <2>2, <2>3
<1>5. Distance(consumer_pos', producer_pos) = Distance(consumer_pos, producer_pos) - 1
  BY <1>1, <1>2, <1>3
<1>6. ASSUME NEW p \in Positions
      PROVE  InRing(p)' <=> InRing(p) /\ p # consumer_pos
  <2>1. InRing(p)' <=> Distance(consumer_pos', p) < Distance(consumer_pos, producer_pos) - 1
    BY <1>5 DEF InRing, Distance
  <2>2. Distance(consumer_pos, p) \in Int /\ Distance(consumer_pos, producer_pos) <= M - 1
    BY <1>1
  <2>3. CASE p = consumer_pos
    BY <1>1, <1>4, <2>1, <2>2, <2>3
  <2>4. CASE p # consumer_pos
    BY <1>1, <1>3, <2>1, <2>2, <2>4 DEF InRing
  <2> QED BY <2>3, <2>4
<1> QED BY <1>3, <1>5, <1>6 DEF Distance
-----------------------------------------------------------------------------
\* The places some CPU is writing to.
Written == {Place(reserved[c]) : c \in {d \in CPUs : reserved[d] # None}}

\* An empty ring satisfies the invariant.
LEMMA RingInit == Init => RingInv
<1> SUFFICES ASSUME Init PROVE RingInv
  OBVIOUS
<1>1. 0 \in Positions /\ M - 1 \in Positions /\ M \in Nat /\ Size \in Nat
  BY SizeAssumption, MAssumption DEF Positions
<1>2. Distance(0, 0) = 0
  BY <1>1, NotEmptyIs
<1>3. TypeOK
  <2>1. busy = {Place(reserved[c]) : c \in {d \in CPUs : reserved[d] # None}}
    BY DEF Init
  <2>2. Distance(consumer_pos, producer_pos) <= Size
    BY <1>1, <1>2 DEF Init
  <2>3. {paused, exiting, got_new_data} \subseteq BOOLEAN
    BY DEF Init
  <2>4. data \in [Places -> Positions] /\ reserved \in [CPUs -> Positions \cup {None}]
    BY <1>1 DEF Init
  <2> QED BY <1>1, <2>1, <2>2, <2>3, <2>4 DEF Init, TypeOK
<1>4. \A p \in Positions : ~ InRing(p)
  BY <1>1, <1>2, DistanceIs DEF Init, InRing
<1>5. Committed /\ WritersApart
  BY <1>4 DEF Init, Committed, WritersApart
<1>6. ReaderWithin
  BY DEF Init, ReaderWithin
<1> QED BY <1>3, <1>5, <1>6 DEF RingInv

\* A CPU reserves a record.
LEMMA ReserveStep == ASSUME RingInv, NEW c \in CPUs, Reserve(c) PROVE RingInv'
<1>t. TypeOK /\ Room /\ producer_pos \in Positions /\ consumer_pos \in Positions
      /\ prod_pos \in Positions
      /\ Distance(consumer_pos, producer_pos) \in 0 .. Size
      /\ Distance(consumer_pos, producer_pos) < Size
      /\ Distance(consumer_pos, prod_pos) \in Int
      /\ Size \in Nat /\ M \in Nat /\ None \notin Positions
  BY RingNumbers, NoneAssumption DEF RingInv, Reserve, Room, Positions
<1>1. /\ producer_pos' = After(producer_pos) /\ consumer_pos' = consumer_pos
      /\ busy' = busy \cup {Place(producer_pos)}
      /\ reserved' = [reserved EXCEPT ![c] = producer_pos]
      /\ reserved[c] = None
      /\ data' = data /\ pc' = pc /\ cons_pos' = cons_pos /\ prod_pos' = prod_pos
      /\ UNCHANGED <<paused, exiting, got_new_data, got>>
  BY DEF Reserve, locals
<1>2. /\ producer_pos' \in Positions
      /\ Distance(consumer_pos, producer_pos)' = Distance(consumer_pos, producer_pos) + 1
      /\ \A p \in Positions : InRing(p)' <=> InRing(p) \/ p = producer_pos
  BY <1>1, <1>t, ReserveWindow
<1>3. /\ reserved \in [CPUs -> Positions \cup {None}]
      /\ busy = Written
      /\ reserved' \in [CPUs -> Positions \cup {None}]
      /\ reserved'[c] = producer_pos
      /\ \A d \in CPUs : d # c => reserved'[d] = reserved[d]
  BY <1>1, <1>t DEF TypeOK, Written
<1>4. busy' = Written'
  <2>1. \A d \in CPUs : d # c => (reserved'[d] # None <=> reserved[d] # None)
    BY <1>3
  <2>2. Written' = Written \cup {Place(producer_pos)}
    BY <1>1, <1>3, <1>t, <2>1 DEF Written
  <2> QED BY <1>1, <1>3, <2>2
<1>5. TypeOK'
  <2>1. Distance(consumer_pos, producer_pos)' <= Size
    BY <1>2, <1>t
  <2> QED BY <1>1, <1>2, <1>3, <1>4, <1>t, <2>1 DEF TypeOK, Written
<1>6. Committed'
  <2> SUFFICES ASSUME NEW p \in Positions, InRing(p)', Place(p) \notin busy'
               PROVE  data[Place(p)] = p
    BY <1>1 DEF Committed, Place
  <2>1. InRing(p) /\ Place(p) \notin busy
    BY <1>1, <1>2
  <2> QED BY <2>1 DEF RingInv, Committed
<1>7. WritersApart'
  <2>1. ASSUME NEW d \in CPUs, reserved[d] # None
        PROVE  /\ InRing(reserved[d]) /\ reserved[d] \in Positions
               /\ reserved[d] # producer_pos
               /\ \A b \in CPUs : reserved[b] = reserved[d] => b = d
    <3>1. InRing(reserved[d]) /\ \A b \in CPUs : reserved[b] = reserved[d] => b = d
      BY <2>1 DEF RingInv, WritersApart
    <3>2. reserved[d] \in Positions
      BY <1>3, <2>1
    <3> QED BY <1>t, <3>1, <3>2, RingPlaces
  <2> SUFFICES ASSUME NEW d \in CPUs, reserved'[d] # None,
                      NEW r \in Positions, r = reserved'[d]
               PROVE  /\ InRing(r)'
                      /\ \A b \in CPUs : reserved'[b] = r => b = d
    BY <1>3 DEF WritersApart, InRing
  <2>2. CASE d = c
    <3>1. r = producer_pos
      BY <1>3, <2>2
    <3>2. ASSUME NEW b \in CPUs, b # c PROVE reserved'[b] # producer_pos
      BY <1>3, <1>t, <2>1, <3>2
    <3> QED BY <1>2, <2>2, <3>1, <3>2
  <2>3. CASE d # c
    BY <1>2, <1>3, <2>1, <2>3
  <2> QED BY <2>2, <2>3
<1>8. ReaderWithin'
  <2>1. Distance(consumer_pos, prod_pos)' = Distance(consumer_pos, prod_pos)
        /\ After(consumer_pos)' = After(consumer_pos)
        /\ Place(consumer_pos)' = Place(consumer_pos)
    BY <1>1 DEF Distance, After, Place
  <2>2. InRing(consumer_pos) =>
          InRing(consumer_pos)' /\ Place(consumer_pos) # Place(producer_pos)
    <3>1. InRing(consumer_pos)' <=> 
            Distance(consumer_pos, consumer_pos) < Distance(consumer_pos, producer_pos)'
      BY <1>1 DEF InRing, Distance
    <3>2. Distance(consumer_pos, consumer_pos) \in Int
      BY <1>t, DistanceIs
    <3> QED BY <1>2, <1>t, <3>1, <3>2, RingPlaces DEF InRing
  <2>3. pc \in {"scan", "callback", "release"} =>
          Distance(consumer_pos, prod_pos) <= Distance(consumer_pos, producer_pos) + 1
    BY <1>t DEF RingInv, ReaderWithin
  <2> QED BY <1>1, <1>2, <2>1, <2>2, <2>3 DEF RingInv, ReaderWithin
<1> QED BY <1>5, <1>6, <1>7, <1>8 DEF RingInv

\* A CPU commits its record.
LEMMA CommitStep == ASSUME RingInv, NEW c \in CPUs, Commit(c) PROVE RingInv'
<1> DEFINE p == reserved[c]
<1>t. TypeOK /\ reserved \in [CPUs -> Positions \cup {None}] /\ busy = Written
      /\ data \in [Places -> Positions]
  BY DEF RingInv, TypeOK, Written
<1>1. /\ p # None /\ p \in Positions /\ InRing(p) /\ Place(p) \in Places
      /\ \A d \in CPUs : reserved[d] = p => d = c
  BY <1>t, PlaceType DEF RingInv, WritersApart, Commit
<1> HIDE DEF p
<1>2. /\ producer_pos' = producer_pos /\ consumer_pos' = consumer_pos
      /\ data' = [data EXCEPT ![Place(p)] = p]
      /\ busy' = busy \ {Place(p)}
      /\ reserved' = [reserved EXCEPT ![c] = None]
      /\ pc' = pc /\ cons_pos' = cons_pos /\ prod_pos' = prod_pos
      /\ UNCHANGED <<paused, exiting, got_new_data, got>>
  BY DEF Commit, locals, p
<1>3. /\ reserved' \in [CPUs -> Positions \cup {None}] /\ reserved'[c] = None
      /\ \A d \in CPUs : d # c => reserved'[d] = reserved[d]
  BY <1>2, <1>t
<1>4. ASSUME NEW d \in CPUs, d # c, reserved[d] # None PROVE Place(reserved[d]) # Place(p)
  <2>1. InRing(reserved[d]) /\ reserved[d] \in Positions /\ reserved[d] # p
    BY <1>1, <1>4, <1>t DEF RingInv, WritersApart
  <2> QED BY <1>1, <1>t, <2>1, RingPlaces
<1>5. busy' = Written'
  <2>1. Written = {Place(p)} \cup {Place(reserved[d]) : d \in {b \in CPUs \ {c} : reserved[b] # None}}
    BY <1>1 DEF Written, p
  <2>2. Written' = {Place(reserved[d]) : d \in {b \in CPUs \ {c} : reserved[b] # None}}
    BY <1>3 DEF Written, Place
  <2> QED BY <1>2, <1>4, <1>t, <2>1, <2>2
<1>6. /\ \A q \in Positions : InRing(q)' <=> InRing(q)
      /\ InRing(consumer_pos)' <=> InRing(consumer_pos)
      /\ Distance(consumer_pos, producer_pos)' = Distance(consumer_pos, producer_pos)
      /\ Distance(consumer_pos, prod_pos)' = Distance(consumer_pos, prod_pos)
  BY <1>2 DEF InRing, Distance
<1>7. TypeOK'
  <2>1. data' \in [Places -> Positions]
    BY <1>1, <1>2, <1>t
  <2> QED BY <1>2, <1>3, <1>5, <1>6, <1>t, <2>1 DEF TypeOK, Written
<1>8. Committed'
  <2> SUFFICES ASSUME NEW q \in Positions, InRing(q), Place(q) \notin busy'
               PROVE  data'[Place(q)] = q
    BY <1>6 DEF Committed, Place
  <2>0. Place(q) \in Places
    BY PlaceType
  <2>1. CASE q = p
    BY <1>1, <1>2, <1>t, <2>1
  <2>2. CASE q # p
    <3>1. Place(q) # Place(p)
      BY <1>1, <1>t, <2>2, RingPlaces
    <3>2. Place(q) \notin busy
      BY <1>2, <3>1
    <3> QED BY <1>2, <1>t, <2>0, <3>1, <3>2 DEF RingInv, Committed
  <2> QED BY <2>1, <2>2
<1>9. WritersApart'
  <2> SUFFICES ASSUME NEW d \in CPUs, reserved'[d] # None,
                      NEW r \in Positions, r = reserved'[d]
               PROVE  InRing(r)' /\ \A b \in CPUs : reserved'[b] = r => b = d
    BY <1>3 DEF WritersApart, InRing
  <2>1. d # c /\ reserved[d] = r
    BY <1>3
  <2> QED BY <1>3, <1>6, <2>1 DEF RingInv, WritersApart
<1>10. ReaderWithin'
  <2>1. After(consumer_pos)' = After(consumer_pos) /\ Place(consumer_pos)' = Place(consumer_pos)
    BY <1>2 DEF After, Place
  <2> QED BY <1>2, <1>6, <2>1 DEF RingInv, ReaderWithin
<1> QED BY <1>7, <1>8, <1>9, <1>10 DEF RingInv

\* Steps that leave the ring and the consumer's position alone.
LEMMA QuietStep ==
  ASSUME RingInv, UNCHANGED <<kernel, consumer_pos>>,
         {cons_pos', prod_pos', got'} \subseteq Positions,
         {paused', exiting', got_new_data'} \subseteq BOOLEAN,
         pc' \in {"check", "enter", "epoll", "load", "scan", "callback", "release", "results"},
         pc' \in {"load", "scan", "callback"} => cons_pos' = consumer_pos,
         pc' \in {"scan", "callback", "release"} =>
           Distance(consumer_pos, prod_pos') <= Distance(consumer_pos, producer_pos),
         pc' \in {"callback", "release"} =>
           /\ consumer_pos # prod_pos'
           /\ InRing(consumer_pos)
           /\ Place(consumer_pos) \notin busy,
         pc' = "release" => cons_pos' = After(consumer_pos)
  PROVE  RingInv'
<1>1. /\ producer_pos' = producer_pos /\ consumer_pos' = consumer_pos
      /\ data' = data /\ busy' = busy /\ reserved' = reserved
  BY DEF kernel
<1>2. TypeOK'
  BY <1>1 DEF RingInv, TypeOK, Distance, Place
<1>3. Committed' /\ WritersApart'
  BY <1>1 DEF RingInv, Committed, WritersApart, InRing, Distance, Place
<1>4. ReaderWithin'
  BY <1>1 DEF ReaderWithin, InRing, Distance, Place, After
<1> QED BY <1>2, <1>3, <1>4 DEF RingInv

\* The steps of main(), the signal handler, the target and ring_buffer__poll()
\* up to the scan (lensx.cpp:349-350, ringbuf.c:205-216, 243-247).
LEMMA PollStep ==
  ASSUME RingInv,
         \/ Pause \/ Resume \/ SigHandler
         \/ CheckExiting \/ EnterPoll \/ EpollReady \/ EpollTimeout \/ LoadProducer
         \/ ScanBusy \/ ScanEnd
  PROVE  RingInv'
<1>t. /\ TypeOK /\ ReaderWithin /\ {cons_pos, prod_pos, got} \subseteq Positions
      /\ {paused, exiting, got_new_data} \subseteq BOOLEAN
      /\ pc \in {"check", "enter", "epoll", "load", "scan", "callback", "release", "results"}
      /\ Distance(consumer_pos, producer_pos) \in Int
      /\ producer_pos \in Positions /\ consumer_pos \in Positions
  BY RingNumbers DEF RingInv, TypeOK
<1>1. CASE Pause \/ Resume
  BY <1>1, <1>t, QuietStep DEF Pause, Resume, locals, ReaderWithin
<1>2. CASE SigHandler
  BY <1>2, <1>t, QuietStep DEF SigHandler, locals, ReaderWithin
<1>3. CASE CheckExiting
  BY <1>3, <1>t, QuietStep DEF CheckExiting, locals
<1>4. CASE EnterPoll \/ EpollTimeout \/ ScanBusy
  BY <1>4, <1>t, QuietStep DEF EnterPoll, EpollTimeout, ScanBusy, locals
<1>5. CASE EpollReady
  BY <1>5, <1>t, QuietStep DEF EpollReady
<1>6. CASE LoadProducer
  <2>1. /\ pc' = "scan" /\ cons_pos' = cons_pos /\ cons_pos = consumer_pos
        /\ prod_pos' = producer_pos /\ got' = got
        /\ {paused', exiting', got_new_data'} \subseteq BOOLEAN
        /\ UNCHANGED <<kernel, consumer_pos>>
    BY <1>6, <1>t DEF LoadProducer, ReaderWithin
  <2>2. {cons_pos', prod_pos', got'} \subseteq Positions
    BY <1>t, <2>1
  <2>3. Distance(consumer_pos, prod_pos') <= Distance(consumer_pos, producer_pos)
    BY <1>t, <2>1
  <2> QED BY <2>1, <2>2, <2>3, QuietStep
<1>7. CASE ScanEnd
  BY <1>7, <1>t, QuietStep DEF ScanEnd, locals, ReaderWithin
<1> QED BY <1>1, <1>2, <1>3, <1>4, <1>5, <1>6, <1>7

\* The reader finds a committed record and the callback reads it
\* (ringbuf.c:217-235).
LEMMA ReadStep ==
  ASSUME RingInv, ScanRecord \/ Callback
  PROVE  RingInv'
<1>t. /\ TypeOK /\ ReaderWithin /\ {cons_pos, prod_pos, got} \subseteq Positions
      /\ {paused, exiting, got_new_data} \subseteq BOOLEAN
      /\ Distance(consumer_pos, producer_pos) \in 0 .. Size /\ Size \in Nat
      /\ producer_pos \in Positions /\ consumer_pos \in Positions
      /\ prod_pos \in Positions
  BY RingNumbers DEF RingInv, TypeOK
<1>1. CASE ScanRecord
  <2>1. /\ cons_pos = consumer_pos /\ consumer_pos # prod_pos
        /\ Place(consumer_pos) \notin busy
        /\ Distance(consumer_pos, prod_pos) <= Distance(consumer_pos, producer_pos)
    BY <1>1, <1>t DEF ScanRecord, ReaderWithin
  <2>2. InRing(consumer_pos)
    <3>1. Distance(consumer_pos, prod_pos) > 0 /\ Distance(consumer_pos, consumer_pos) = 0
      BY <1>t, <2>1, NotEmptyIs
    <3>2. Distance(consumer_pos, prod_pos) \in Int
      BY <1>t, DistanceIs
    <3> QED BY <1>t, <2>1, <3>1, <3>2 DEF InRing
  <2> QED BY <1>1, <1>t, <2>1, <2>2, QuietStep DEF ScanRecord
<1>2. CASE Callback
  <2>1. /\ cons_pos' = After(consumer_pos) /\ got' = data[Place(consumer_pos)]
        /\ pc' = "release"
        /\ UNCHANGED <<kernel, consumer_pos, paused, exiting, prod_pos, got_new_data>>
    BY <1>2, <1>t DEF Callback, ReaderWithin
  <2>2. After(consumer_pos) \in Positions /\ data[Place(consumer_pos)] \in Positions
    BY <1>t, AfterIs, PlaceType DEF TypeOK
  <2>3. /\ Distance(consumer_pos, prod_pos) <= Distance(consumer_pos, producer_pos)
        /\ consumer_pos # prod_pos
        /\ InRing(consumer_pos)
        /\ Place(consumer_pos) \notin busy
    BY <1>2, <1>t DEF Callback, ReaderWithin
  <2> QED BY <1>t, <2>1, <2>2, <2>3, QuietStep
<1> QED BY <1>1, <1>2

\* The reader gives the room back (ringbuf.c:237).
LEMMA ReleaseStep == ASSUME RingInv, Release PROVE RingInv'
<1>t. /\ TypeOK /\ producer_pos \in Positions /\ consumer_pos \in Positions
      /\ prod_pos \in Positions /\ Distance(consumer_pos, producer_pos) \in 0 .. Size
      /\ Size \in Nat /\ M \in Nat
  BY RingNumbers DEF RingInv
<1>1. /\ cons_pos = After(consumer_pos) /\ InRing(consumer_pos)
      /\ Place(consumer_pos) \notin busy /\ consumer_pos # prod_pos
      /\ Distance(consumer_pos, prod_pos) <= Distance(consumer_pos, producer_pos)
  BY DEF RingInv, ReaderWithin, Release
<1>2. /\ consumer_pos' = After(consumer_pos) /\ pc' = "scan"
      /\ producer_pos' = producer_pos /\ data' = data /\ busy' = busy
      /\ reserved' = reserved /\ cons_pos' = cons_pos /\ prod_pos' = prod_pos
      /\ UNCHANGED <<paused, exiting, got_new_data, got>>
  BY <1>1 DEF Release, kernel, locals
<1>3. /\ consumer_pos' \in Positions
      /\ Distance(consumer_pos, producer_pos)' = Distance(consumer_pos, producer_pos) - 1
      /\ \A p \in Positions : InRing(p)' <=> InRing(p) /\ p # consumer_pos
  BY <1>1, <1>2, <1>t, ReleaseWindow
<1>4. TypeOK'
  <2>1. Distance(consumer_pos, producer_pos)' <= Size
    BY <1>3, <1>t
  <2> QED BY <1>2, <1>3, <1>t, <2>1 DEF TypeOK, Place
<1>5. Committed'
  BY <1>2, <1>3 DEF RingInv, Committed, Place
<1>6. WritersApart'
  <2> SUFFICES ASSUME NEW c \in CPUs, reserved[c] # None,
                      NEW r \in Positions, r = reserved[c]
               PROVE  InRing(r)' /\ \A b \in CPUs : reserved[b] = r => b = c
    BY <1>2, <1>t DEF TypeOK, WritersApart, InRing
  <2>1. InRing(r) /\ Place(r) \in busy
    BY <1>t DEF TypeOK, RingInv, WritersApart
  <2>2. r # consumer_pos
    BY <1>1, <2>1
  <2> QED BY <1>3, <2>1, <2>2 DEF RingInv, WritersApart
<1>7. ReaderWithin'
  <2>1. Distance(consumer_pos, prod_pos)' = Distance(consumer_pos, prod_pos) - 1
    BY <1>1, <1>2, <1>t, AfterIs DEF Distance
  <2>2. Distance(consumer_pos, prod_pos) \in Int
    BY <1>t, DistanceIs
  <2> QED BY <1>1, <1>2, <1>3, <1>t, <2>1, <2>2 DEF ReaderWithin
<1> QED BY <1>4, <1>5, <1>6, <1>7 DEF RingInv

\* Every step of the CPUs, the reader and the environment preserves the
\* invariant.
LEMMA RingNext == RingInv /\ [Next]_vars => RingInv'
<1> SUFFICES ASSUME RingInv, [Next]_vars PROVE RingInv'
  OBVIOUS
<1>1. CASE UNCHANGED vars
  BY <1>1 DEF vars, kernel, locals, RingInv, TypeOK, Committed, WritersApart, ReaderWithin,
              InRing, Distance, Place, After
<1> QED BY <1>1, ReserveStep, CommitStep, PollStep, ReadStep, ReleaseStep
        DEF Next, ReaderStep

\* The invariant of the ring.
LEMMA RingInvariant == Spec => []RingInv
BY RingInit, RingNext, PTL DEF Spec

\* Every behaviour is well typed; the ring is never overfull (ringbuf.c, and
\* the kernel's side of it).
THEOREM RingTypeCorrect == Spec => []TypeOK
<1>1. RingInv => TypeOK
  BY DEF RingInv
<1> QED BY <1>1, RingInvariant, PTL

\* Every record handed to handle_ring_event is complete and the one that
\* belongs at the reader's position (ringbuf.c:214-241).
THEOREM RingRecordIntact == Spec => []RecordIntact
<1>1. RingInv => RecordIntact
  <2> SUFFICES ASSUME RingInv, pc = "callback"
               PROVE  Place(cons_pos) \notin busy /\ data[Place(cons_pos)] = cons_pos
    BY DEF RecordIntact
  <2>1. /\ cons_pos = consumer_pos /\ InRing(consumer_pos)
        /\ Place(consumer_pos) \notin busy /\ consumer_pos \in Positions
    BY DEF RingInv, ReaderWithin, TypeOK
  <2> QED BY <2>1 DEF RingInv, Committed
<1> QED BY <1>1, RingInvariant, PTL
-----------------------------------------------------------------------------
(***************************************************************************)
(* Refinement: the ring as the reader sees it.                             *)
(***************************************************************************)
PositionOf(k) == (consumer_pos + k - 1) % M

RingOf ==
  [k \in 1 .. Distance(consumer_pos, producer_pos) |-> RecordAt((consumer_pos + k - 1) % M)]

\* The k-th record of the ring is k - 1 positions after the reader's.
LEMMA RecordPositions ==
  ASSUME TypeOK, NEW k \in 1 .. Distance(consumer_pos, producer_pos)
  PROVE  /\ PositionOf(k) \in Positions
         /\ Distance(consumer_pos, PositionOf(k)) = k - 1
         /\ InRing(PositionOf(k))
<1>1. /\ consumer_pos \in Positions /\ Size \in Nat /\ M \in Nat /\ M >= 2 * Size
      /\ Distance(consumer_pos, producer_pos) \in 0 .. Size
  BY RingNumbers
<1>2. PICK j \in 0 .. M - 1 : j = k - 1
  BY <1>1
<1>3. PositionOf(k) = (consumer_pos + j) % M
  <2>1. consumer_pos + k - 1 = consumer_pos + j
    BY <1>1, <1>2 DEF Positions
  <2> QED BY <2>1 DEF PositionOf
<1>4. PositionOf(k) \in Positions /\ Distance(consumer_pos, PositionOf(k)) = j
  BY <1>1, <1>3, StepIs
<1> QED BY <1>1, <1>2, <1>4 DEF InRing

\* Every position in the ring is that of some record.
LEMMA RecordOfPosition ==
  ASSUME TypeOK, NEW p \in Positions, InRing(p)
  PROVE  \E k \in 1 .. Distance(consumer_pos, producer_pos) : PositionOf(k) = p
<1>1. /\ consumer_pos \in Positions /\ Size \in Nat /\ M \in Nat
      /\ Distance(consumer_pos, producer_pos) \in 0 .. Size
      /\ Distance(consumer_pos, p) \in 0 .. M - 1
  BY RingNumbers
<1>2. PICK k \in 1 .. Distance(consumer_pos, producer_pos) : k - 1 = Distance(consumer_pos, p)
  <2>1. Distance(consumer_pos, p) + 1 \in 1 .. Distance(consumer_pos, producer_pos)
    BY <1>1 DEF InRing
  <2> QED BY <1>1, <2>1
<1>3. PositionOf(k) \in Positions /\ Distance(consumer_pos, PositionOf(k)) = k - 1
  BY RecordPositions
<1> QED BY <1>1, <1>2, <1>3, DistanceInjective

\* The ring is a sequence of records.
LEMMA RingOfType ==
  ASSUME TypeOK
  PROVE  /\ Len(RingOf) = Distance(consumer_pos, producer_pos)
         /\ DOMAIN RingOf = 1 .. Distance(consumer_pos, producer_pos)
         /\ \A k \in DOMAIN RingOf : RingOf[k] = RecordAt(PositionOf(k))
<1>1. Distance(consumer_pos, producer_pos) \in Nat
  BY RingNumbers
<1> QED BY <1>1 DEF RingOf, PositionOf

\* A reservation appends a record that is not ready.
LEMMA ReserveRefines ==
  ASSUME RingInv, NEW c \in CPUs, Reserve(c)
  PROVE  Ring!Reserve
<1> DEFINE x == [num |-> producer_pos, ready |-> FALSE]
<1>t. /\ TypeOK /\ Room
      /\ producer_pos' = After(producer_pos) /\ consumer_pos' = consumer_pos
      /\ busy' = busy \cup {Place(producer_pos)} /\ data' = data /\ got' = got /\ pc' = pc
  BY DEF RingInv, Reserve, locals
<1>n. PICK n \in Nat : n = Distance(consumer_pos, producer_pos)
  BY <1>t, RingNumbers
<1>0. /\ n < Size /\ Size \in Nat
      /\ producer_pos \in Positions /\ consumer_pos \in Positions
      /\ n + 1 = Distance(consumer_pos, producer_pos)'
  BY <1>n, <1>t, RingNumbers, ReserveWindow DEF Room
<1>2. Len(RingOf) = n /\ DOMAIN RingOf = 1 .. n
      /\ \A k \in 1 .. n : RingOf[k] = RecordAt(PositionOf(k))
  BY <1>n, <1>t, RingOfType
<1>3. RingOf' = [k \in 1 .. n + 1 |-> RecordAt(PositionOf(k))']
  BY <1>0 DEF RingOf, PositionOf
<1>4. ASSUME NEW k \in 1 .. n PROVE RecordAt(PositionOf(k))' = RingOf[k]
  <2>1. PositionOf(k) \in Positions /\ InRing(PositionOf(k)) /\ PositionOf(k)' = PositionOf(k)
    BY <1>n, <1>t, RecordPositions DEF PositionOf
  <2>2. Place(PositionOf(k)) # Place(producer_pos)
    BY <1>t, <2>1, RingPlaces
  <2> QED BY <1>2, <1>t, <2>1, <2>2 DEF RecordAt, Place
<1>5. RecordAt(PositionOf(n + 1))' = x
  <2>1. consumer_pos + (n + 1) - 1 = consumer_pos + n
    BY <1>0 DEF Positions
  <2>2. (consumer_pos + n) % M = producer_pos
    BY <1>0, <1>n, StepBack
  <2>3. PositionOf(n + 1)' = producer_pos
    BY <1>t, <2>1, <2>2 DEF PositionOf
  <2> QED BY <1>t, <2>3 DEF RecordAt, Place
<1>y. PICK y : y = x
  OBVIOUS
<1> HIDE DEF x
<1>6. Append(RingOf, y) = [k \in 1 .. n + 1 |-> IF k = n + 1 THEN y ELSE RingOf[k]]
  <2>1. RingOf = [k \in 1 .. n |-> RingOf[k]]
    BY <1>2 DEF RingOf
  <2>2. PICK r : r = RingOf
    OBVIOUS
  <2>3. r = [k \in 1 .. n |-> r[k]] /\ Len(r) = n
    BY <1>2, <2>1, <2>2
  <2>4. Append(r, y) = [k \in 1 .. n + 1 |-> IF k = n + 1 THEN y ELSE r[k]]
    BY <2>3
  <2> QED BY <2>2, <2>4
<1>7. ASSUME NEW k \in 1 .. n + 1
      PROVE  RecordAt(PositionOf(k))' = IF k = n + 1 THEN y ELSE RingOf[k]
  <2>1. CASE k = n + 1
    BY <1>5, <1>y, <2>1
  <2>2. CASE k # n + 1
    <3>1. k \in 1 .. n
      BY <2>2
    <3> QED BY <1>4, <2>2, <3>1
  <2> QED BY <2>1, <2>2
<1>8. RingOf' = Append(RingOf, x)
  BY <1>3, <1>6, <1>7, <1>y
<1>9. Len(RingOf) < Size
  BY <1>0, <1>2
<1>10. producer_pos' = (producer_pos + 1) % M
  BY <1>t DEF After
<1>11. UNCHANGED <<got, pc = "release">>
  BY <1>t
<1> QED BY <1>8, <1>9, <1>10, <1>11 DEF Ring!Reserve, RingOf, x

\* A commit makes one record ready.
LEMMA CommitRefines ==
  ASSUME RingInv, NEW c \in CPUs, Commit(c)
  PROVE  \E k \in DOMAIN RingOf : Ring!Commit(k)
<1> DEFINE D == Distance(consumer_pos, producer_pos)
           p == reserved[c]
<1>t. /\ TypeOK /\ p \in Positions /\ p # None /\ InRing(p)
      /\ Place(p) \in busy /\ Place(p) \in Places /\ data \in [Places -> Positions]
      /\ consumer_pos' = consumer_pos /\ producer_pos' = producer_pos /\ pc' = pc /\ got' = got
      /\ data' = [data EXCEPT ![Place(p)] = p] /\ busy' = busy \ {Place(p)}
  BY PlaceType DEF RingInv, WritersApart, Commit, TypeOK, locals
<1>1. PICK k \in 1 .. D : PositionOf(k) = p
  BY <1>t, RecordOfPosition
<1> HIDE DEF p
<1>2. /\ DOMAIN RingOf = 1 .. D
      /\ \A j \in 1 .. D : RingOf[j] = RecordAt(PositionOf(j))
  BY <1>t, RingOfType
<1>3. RingOf' = [j \in 1 .. D |-> RecordAt(PositionOf(j))']
  <2>1. D' = D
    BY <1>t DEF Distance
  <2> HIDE DEF D
  <2> QED BY <2>1 DEF RingOf, PositionOf, D
<1>4. RingOf[k] = [num |-> p, ready |-> FALSE]
  BY <1>1, <1>2, <1>t DEF RecordAt
<1>5. RecordAt(PositionOf(k))' = [num |-> p, ready |-> TRUE]
  <2>1. PositionOf(k)' = p
    BY <1>1, <1>t DEF PositionOf
  <2>2. Place(p) \notin busy' /\ data'[Place(p)] = p
    BY <1>t
  <2> QED BY <2>1, <2>2 DEF RecordAt, Place
<1>6. ASSUME NEW j \in 1 .. D, j # k PROVE RecordAt(PositionOf(j))' = RingOf[j]
  <2>1. /\ PositionOf(j) \in Positions /\ InRing(PositionOf(j))
        /\ PositionOf(j)' = PositionOf(j) /\ Place(PositionOf(j)) \in Places
    BY <1>t, RecordPositions, PlaceType DEF PositionOf
  <2>2. PositionOf(j) # p
    <3>1. Distance(consumer_pos, PositionOf(j)) = j - 1 /\ Distance(consumer_pos, p) = k - 1
      BY <1>1, <1>t, RecordPositions
    <3>2. D \in Nat
      BY <1>t, RingNumbers
    <3> QED BY <1>6, <3>1, <3>2
  <2>3. Place(PositionOf(j)) # Place(p)
    BY <1>t, <2>1, <2>2, RingPlaces
  <2> QED BY <1>2, <1>t, <2>1, <2>3 DEF RecordAt, Place
<1>7. [RingOf EXCEPT ![k].ready = TRUE] = [RingOf EXCEPT ![k] = [num |-> p, ready |-> TRUE]]
  <2>0. ASSUME NEW v, NEW a, NEW b
        PROVE  [[num |-> v, ready |-> a] EXCEPT !.ready = b] = [num |-> v, ready |-> b]
    OBVIOUS
  <2>1. [RingOf[k] EXCEPT !.ready = TRUE] = [num |-> p, ready |-> TRUE]
    <3>1. PICK a, b : a = FALSE /\ b = TRUE
      OBVIOUS
    <3>2. RingOf[k] = [num |-> p, ready |-> a]
      BY <1>4, <3>1
    <3>3. [RingOf[k] EXCEPT !.ready = b] = [num |-> p, ready |-> b]
      BY <2>0, <3>2
    <3> QED BY <3>1, <3>3
  <2>2. [RingOf EXCEPT ![k].ready = TRUE] = [RingOf EXCEPT ![k] = [RingOf[k] EXCEPT !.ready = TRUE]]
    OBVIOUS
  <2> QED BY <2>1, <2>2
<1>8. RingOf' = [RingOf EXCEPT ![k].ready = TRUE]
  <2>1. RingOf = [j \in 1 .. D |-> RingOf[j]]
    BY <1>2 DEF RingOf
  <2> QED BY <1>1, <1>2, <1>3, <1>5, <1>6, <1>7, <2>1
<1>9. ~ RingOf[k].ready
  BY <1>4
<1>10. UNCHANGED <<producer_pos, got, pc = "release">>
  BY <1>t
<1>11. Ring!Commit(k)
  BY <1>8, <1>9, <1>10 DEF Ring!Commit, RingOf
<1> QED BY <1>1, <1>2, <1>11

\* The callback is given the first record, which is ready.
LEMMA CallbackRefines ==
  ASSUME RingInv, Callback
  PROVE  Ring!Deliver
<1>t. /\ TypeOK /\ pc = "callback" /\ pc' = "release"
      /\ cons_pos = consumer_pos /\ InRing(consumer_pos) /\ Place(consumer_pos) \notin busy
      /\ consumer_pos \in Positions
      /\ got' = data[Place(consumer_pos)]
      /\ UNCHANGED <<kernel, consumer_pos>>
  BY DEF RingInv, ReaderWithin, Callback, TypeOK
<1>1. PICK n \in Nat : n = Distance(consumer_pos, producer_pos)
  BY <1>t, RingNumbers
<1>2. n > 0
  <2>1. Distance(consumer_pos, consumer_pos) = 0
    BY <1>t, NotEmptyIs
  <2> QED BY <1>1, <1>t, <2>1 DEF InRing
<1>3. Len(RingOf) = n /\ DOMAIN RingOf = 1 .. n /\ RingOf[1] = RecordAt(PositionOf(1))
  BY <1>1, <1>2, <1>t, RingOfType
<1>4. PositionOf(1) = consumer_pos
  <2>1. PositionOf(1) \in Positions /\ Distance(consumer_pos, PositionOf(1)) = 0
    BY <1>1, <1>2, <1>t, RecordPositions
  <2> QED BY <1>t, <2>1, NotEmptyIs
<1>5. RingOf[1] = [num |-> data[Place(consumer_pos)], ready |-> TRUE]
  BY <1>3, <1>4, <1>t DEF RecordAt
<1>6. RingOf # <<>> /\ Head(RingOf) = RingOf[1]
  BY <1>2, <1>3
<1>7. Head(RingOf).ready /\ got' = Head(RingOf).num
  BY <1>5, <1>6, <1>t
<1>8. RingOf' = RingOf /\ producer_pos' = producer_pos
  BY <1>t DEF RingOf, RecordAt, Distance, Place, kernel
<1>9. ~ (pc = "release") /\ (pc = "release")' = TRUE
  BY <1>t
<1> QED BY <1>6, <1>7, <1>8, <1>9 DEF Ring!Deliver, RingOf

\* The room given back is that of the first record.
LEMMA ReleaseRefines ==
  ASSUME RingInv, Release
  PROVE  Ring!Release
<1>t. /\ TypeOK /\ pc = "release" /\ pc' = "scan"
      /\ InRing(consumer_pos) /\ consumer_pos \in Positions /\ M \in Nat
      /\ consumer_pos' = After(consumer_pos)
      /\ producer_pos' = producer_pos /\ data' = data /\ busy' = busy /\ got' = got
  BY RingNumbers DEF RingInv, ReaderWithin, Release, kernel, locals
<1>t2. TypeOK'
  BY ReleaseStep DEF RingInv
<1>1. PICK n \in Nat : n = Distance(consumer_pos, producer_pos)
  BY <1>t, RingNumbers
<1>2. n > 0 /\ n - 1 = Distance(consumer_pos, producer_pos)'
  <2>1. Distance(consumer_pos, consumer_pos) = 0
    BY <1>t, NotEmptyIs
  <2> QED BY <1>1, <1>t, <2>1, ReleaseWindow DEF InRing
<1>3. /\ RingOf = [k \in 1 .. n |-> RecordAt(PositionOf(k))]
      /\ RingOf' = [k \in 1 .. n - 1 |-> RecordAt(PositionOf(k))']
  BY <1>1, <1>2 DEF RingOf, PositionOf
<1>4. ASSUME NEW k \in 1 .. n - 1
      PROVE  RecordAt(PositionOf(k))' = RecordAt(PositionOf(k + 1))
  <2>1. k \in 1 .. n /\ k + 1 \in 1 .. n /\ k + 1 - 1 = k
    OBVIOUS
  <2>2. PositionOf(k + 1) \in Positions /\ Distance(consumer_pos, PositionOf(k + 1)) = k
    BY <1>1, <1>t, <2>1, RecordPositions
  <2>3. PositionOf(k + 1) # consumer_pos
    BY <1>t, <2>1, <2>2, NotEmptyIs
  <2>4. Distance(consumer_pos', PositionOf(k + 1)) = k - 1
    BY <1>t, <2>2, <2>3, AfterIs
  <2>5. PositionOf(k)' \in Positions /\ Distance(consumer_pos, PositionOf(k))' = k - 1
    <3>1. PICK j \in 0 .. M - 1 : j = k - 1
      BY <1>1, <1>t, RingNumbers
    <3>2. consumer_pos' \in Positions
      BY <1>t2 DEF TypeOK
    <3>3. consumer_pos' + k - 1 = consumer_pos' + j
      BY <1>t, <3>1, <3>2 DEF Positions
    <3>4. PositionOf(k)' = (consumer_pos' + j) % M
      BY <3>3 DEF PositionOf
    <3>5. /\ (consumer_pos' + j) % M \in Positions
          /\ Distance(consumer_pos', (consumer_pos' + j) % M) = j
      BY <3>2, StepIs
    <3> QED BY <3>1, <3>4, <3>5 DEF Distance
  <2>6. PositionOf(k)' = PositionOf(k + 1)
    <3>1. Distance(consumer_pos, PositionOf(k))' = Distance(consumer_pos', PositionOf(k)')
      BY DEF Distance
    <3>2. consumer_pos' \in Positions
      BY <1>t2 DEF TypeOK
    <3> QED BY <2>2, <2>4, <2>5, <3>1, <3>2, DistanceInjective
  <2> QED BY <1>t, <2>6 DEF RecordAt, Place
<1>5. Tail(RingOf) = [k \in 1 .. n - 1 |-> RecordAt(PositionOf(k + 1))]
  <2>1. PICK r : r = RingOf
    OBVIOUS
  <2>2. Len(r) = n /\ r = [k \in 1 .. n |-> r[k]]
    BY <1>3, <2>1
  <2>3. Tail(r) = [k \in 1 .. n - 1 |-> r[k + 1]]
    BY <1>2, <2>2
  <2>4. ASSUME NEW k \in 1 .. n - 1 PROVE r[k + 1] = RecordAt(PositionOf(k + 1))
    BY <1>3, <2>1
  <2> QED BY <2>1, <2>3, <2>4
<1>6. RingOf' = Tail(RingOf)
  BY <1>3, <1>4, <1>5
<1>7. (pc = "release") /\ (pc = "release")' = FALSE
  BY <1>t
<1> QED BY <1>6, <1>7, <1>t DEF Ring!Release, RingOf

\* The ring of the kernel and of libbpf, with its positions, places and busy
\* marks, is a bounded queue: whatever the CPUs and the reader do in between,
\* callbacks get each record once, complete and in the order of reservation
\* (ringbuf.c:205-247).
THEOREM RingRefines == Spec => AbsSpec
<1>1. Init => Ring!Init
  <2> SUFFICES ASSUME Init PROVE Ring!Init
    OBVIOUS
  <2>1. 0 \in Positions
    BY SizeAssumption, MAssumption DEF Positions
  <2>2. Distance(consumer_pos, producer_pos) = 0
    BY <2>1, NotEmptyIs DEF Init
  <2>3. RingOf = <<>>
    BY <2>2 DEF RingOf
  <2>4. producer_pos = 0 /\ got = M - 1 /\ (pc = "release") = FALSE
    BY DEF Init
  <2> QED BY <2>3, <2>4 DEF Ring!Init, RingOf
<1>2. RingInv /\ [Next]_vars => [Ring!Next]_(Ring!vars)
  <2> SUFFICES ASSUME RingInv, [Next]_vars PROVE [Ring!Next]_(Ring!vars)
    OBVIOUS
  <2>1. ASSUME UNCHANGED <<kernel, consumer_pos, got>>, (pc = "release")' = (pc = "release")
        PROVE  UNCHANGED Ring!vars
    <3>1. RingOf' = RingOf /\ producer_pos' = producer_pos /\ got' = got
      BY <2>1 DEF RingOf, RecordAt, Distance, Place, kernel
    <3> QED BY <2>1, <3>1 DEF Ring!vars, RingOf
  <2>2. ASSUME NEW c \in CPUs, Reserve(c) PROVE Ring!Next
    BY <2>2, ReserveRefines DEF Ring!Next
  <2>3. ASSUME NEW c \in CPUs, Commit(c) PROVE Ring!Next
    BY <2>3, CommitRefines DEF Ring!Next, RingOf
  <2>4. CASE Callback
    BY <2>4, CallbackRefines DEF Ring!Next
  <2>5. CASE Release
    BY <2>5, ReleaseRefines DEF Ring!Next
  <2>6. CASE Pause \/ Resume
    BY <2>1, <2>6 DEF Pause, Resume, locals
  <2>7. CASE SigHandler
    BY <2>1, <2>7 DEF SigHandler, locals
  <2>8. CASE CheckExiting
    BY <2>1, <2>8 DEF CheckExiting, locals
  <2>9. CASE EnterPoll \/ EpollTimeout \/ ScanBusy
    BY <2>1, <2>9 DEF EnterPoll, EpollTimeout, ScanBusy, locals
  <2>10. CASE EpollReady \/ LoadProducer \/ ScanRecord
    BY <2>1, <2>10 DEF EpollReady, LoadProducer, ScanRecord
  <2>11. CASE ScanEnd
    BY <2>1, <2>11 DEF ScanEnd, locals
  <2>12. CASE UNCHANGED vars
    BY <2>1, <2>12 DEF vars, locals
  <2> QED BY <2>2, <2>3, <2>4, <2>5, <2>6, <2>7, <2>8, <2>9, <2>10, <2>11, <2>12
          DEF Next, ReaderStep
<1> QED BY <1>1, <1>2, RingInvariant, PTL DEF Spec, AbsSpec, Ring!Spec
=============================================================================
