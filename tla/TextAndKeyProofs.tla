--------------------------- MODULE TextAndKeyProofs --------------------------
(***************************************************************************)
(* Bytes and texts, for any alphabet and any size of numbers.  Keys are     *)
(* told apart and ordered byte by byte as the lines they stand for, so the  *)
(* scan of a term finds just its lines, in order of time (KeySchema).       *)
(* Where the words of a line begin decides what the parser takes for a      *)
(* header, and so what a search finds it by (TextPath).                     *)
(***************************************************************************)
EXTENDS KeySchema, TextPath, FiniteSetTheorems, SequenceTheorems, TLAPS

----------------------------------------------------------------------------
(* Numbers from zero up *)

(* From the well-foundedness of strict inclusion among finite sets.         *)
LEMMA LeastNumber ==
  ASSUME NEW T \in SUBSET Nat, T # {}
  PROVE  \E m \in T : \A k \in T : m <= k
<1> DEFINE Below == {0 .. m : m \in T}
<1>1. Below \subseteq FiniteSubsetsOf(Nat) /\ Below # {}
  <2>1. ASSUME NEW m \in T
        PROVE  0 .. m \in FiniteSubsetsOf(Nat)
    <3>1. IsFiniteSet(0 .. m) /\ 0 .. m \subseteq Nat
      BY FS_Interval
    <3> QED BY <3>1 DEF FiniteSubsetsOf
  <2> QED BY <2>1
<1>2. PICK X \in Below : \A Y \in Below : <<Y, X>> \notin StrictSubsetOrdering(Nat)
  <2> HIDE DEF Below
  <2> QED BY <1>1, FS_StrictSubsetOrderingWellFounded, WFMin
<1>3. PICK m \in T : X = 0 .. m
  OBVIOUS
<1>4. ASSUME NEW k \in T, k < m
      PROVE  FALSE
  <2>1. 0 .. k \subseteq 0 .. m /\ 0 .. k # 0 .. m
    BY <1>4
  <2>2. <<0 .. k, 0 .. m>> \in StrictSubsetOrdering(Nat)
    BY <2>1 DEF StrictSubsetOrdering
  <2> QED BY <1>2, <1>3, <2>2
<1> QED BY <1>4

(* Induction up to n, about the set of the numbers for which a claim holds. *)
LEMMA UpTo ==
  ASSUME NEW n \in Nat, NEW T, 0 \in T, \A k \in 1 .. n : k - 1 \in T => k \in T
  PROVE  \A k \in 0 .. n : k \in T
<1> DEFINE Bad == {k \in 0 .. n : k \notin T}
<1>1. ASSUME NEW m \in Bad, \A k \in Bad : m <= k
      PROVE  FALSE
  <2>1. m \in 0 .. n /\ m \notin T /\ m # 0
    OBVIOUS
  <2>2. m \in 1 .. n /\ m - 1 \in 0 .. n /\ ~(m <= m - 1)
    BY <2>1
  <2>3. m - 1 \notin Bad
    <3> HIDE DEF Bad
    <3> QED BY <1>1, <2>2
  <2> QED BY <2>1, <2>2, <2>3
<1>2. Bad = {}
  <2> SUFFICES ASSUME Bad # {}
               PROVE  FALSE
    OBVIOUS
  <2>1. Bad \in SUBSET Nat
    OBVIOUS
  <2> HIDE DEF Bad
  <2> QED BY <1>1, <2>1, LeastNumber
<1> QED BY <1>2

----------------------------------------------------------------------------
(* Numbers and their bytes *)

(* The powers of Base up to that of m.                                      *)
Powers(m) ==
  {f \in [0 .. m -> Nat \ {0}] : f[0] = 1 /\ \A k \in 1 .. m : f[k] = Base * f[k - 1]}

(* There are such powers, by induction on how many.                         *)
LEMMA PowersExist == Powers(Width) # {}
<1> DEFINE T == {m \in 0 .. Width : Powers(m) # {}}
<1>1. 0 \in T
  <2>1. PICK f : f = [k \in 0 .. 0 |-> 1]
    OBVIOUS
  <2>2. f \in Powers(0)
    BY <2>1 DEF Powers
  <2> QED BY <2>2, KeySchemaAssumption
<1>2. ASSUME NEW m \in 1 .. Width, m - 1 \in T
      PROVE  m \in T
  <2>1. PICK g : g \in Powers(m - 1)
    BY <1>2
  <2>2. PICK f : f = [k \in 0 .. m |-> IF k = m THEN Base * g[m - 1] ELSE g[k]]
    OBVIOUS
  <2>3. m \in Nat \ {0} /\ Base \in Nat \ {0}
    BY KeySchemaAssumption
  <2>4. g \in [0 .. m - 1 -> Nat \ {0}] /\ g[0] = 1 /\ \A k \in 1 .. m - 1 : g[k] = Base * g[k - 1]
    BY <2>1 DEF Powers
  <2>5. Base * g[m - 1] \in Nat \ {0}
    <3>1. PICK x : x = g[m - 1]
      OBVIOUS
    <3>2. x \in Nat \ {0}
      BY <2>3, <2>4, <3>1
    <3> QED BY <2>3, <3>1, <3>2
  <2>6. f \in [0 .. m -> Nat \ {0}] /\ f[0] = 1
    BY <2>2, <2>3, <2>4, <2>5
  <2>7. \A k \in 1 .. m : f[k] = Base * f[k - 1]
    <3> TAKE k \in 1 .. m
    <3>1. CASE k = m
      BY <2>2, <2>3, <3>1
    <3>2. CASE k # m
      <4>1. k \in 1 .. m - 1 /\ k \in 0 .. m /\ k - 1 \in 0 .. m /\ k - 1 # m
        BY <2>3, <3>2
      <4> QED BY <2>2, <2>4, <3>2, <4>1
    <3> QED BY <3>1, <3>2
  <2>8. m \in 0 .. Width
    BY KeySchemaAssumption
  <2> QED BY <2>6, <2>7, <2>8 DEF Powers
<1>3. Width \in Nat /\ Width \in 0 .. Width
  BY KeySchemaAssumption
<1>4. \A m \in 0 .. Width : m \in T
  <2> HIDE DEF T
  <2> QED BY <1>1, <1>2, <1>3, UpTo
<1> QED BY <1>3, <1>4

LEMMA PowerSteps ==
  /\ Power \in [0 .. Width -> Nat \ {0}] /\ Power[0] = 1
  /\ \A k \in 1 .. Width : Power[k] = Base * Power[k - 1]
<1> DEFINE Step(f) == [k \in 0 .. Width |-> IF k = 0 THEN 1 ELSE Base * f[k - 1]]
<1>0. Width \in Nat /\ Base \in Nat \ {0}
  BY KeySchemaAssumption
<1>1. PICK f \in Powers(Width) : TRUE
  BY PowersExist
<1>2. f = Step(f)
  BY <1>1 DEF Powers
<1>3. Power = Step(Power)
  BY <1>2 DEF Power
<1>4. Power[0] = 1 /\ \A k \in 1 .. Width : Power[k] = Base * Power[k - 1]
  BY <1>0, <1>3
<1>5. \A k \in 0 .. Width : Power[k] \in Nat \ {0}
  <2> DEFINE T == {k \in 0 .. Width : Power[k] \in Nat \ {0}}
  <2>1. 0 \in T
    BY <1>0, <1>4
  <2>2. ASSUME NEW k \in 1 .. Width, k - 1 \in T
        PROVE  k \in T
    <3>1. PICK x, y : x = Power[k - 1] /\ y = Power[k]
      OBVIOUS
    <3>2. x \in Nat \ {0} /\ y = Base * x
      BY <1>4, <2>2, <3>1
    <3>3. y \in Nat \ {0}
      BY <1>0, <3>2
    <3>4. k \in 0 .. Width
      BY <1>0
    <3> QED BY <3>1, <3>3, <3>4
  <2>3. \A k \in 0 .. Width : k \in T
    <3> HIDE DEF T
    <3> QED BY <1>0, <2>1, <2>2, UpTo
  <2> QED BY <2>3
<1>6. Power = [k \in 0 .. Width |-> Power[k]]
  BY <1>3
<1> QED BY <1>4, <1>5, <1>6

(* Quotients and remainders.                                                *)
LEMMA Division ==
  ASSUME NEW n \in Nat, NEW d \in Nat \ {0}
  PROVE  n \div d \in Nat /\ d * (n \div d) <= n /\ n < d * (n \div d + 1)
OBVIOUS

LEMMA DivisionUnique ==
  ASSUME NEW n \in Nat, NEW d \in Nat \ {0}, NEW q \in Nat, d * q <= n, n < d * (q + 1)
  PROVE  q = n \div d
OBVIOUS

LEMMA DivisionMonotone ==
  ASSUME NEW n \in Nat, NEW m \in Nat, NEW d \in Nat \ {0}, n <= m
  PROVE  n \div d <= m \div d
BY Division

LEMMA DivisionTwice ==
  ASSUME NEW n \in Nat, NEW d \in Nat \ {0}, NEW b \in Nat \ {0}
  PROVE  n \div (b * d) = (n \div d) \div b
OBVIOUS

LEMMA Remainder ==
  ASSUME NEW n \in Nat, NEW b \in Nat \ {0}
  PROVE  n % b \in 0 .. b - 1 /\ n = (n \div b) * b + (n % b)
OBVIOUS

Numbers == 0 .. Modulus - 1

(* What the first i bytes of n say.                                         *)
Leading(n) == [i \in 0 .. Width |-> n \div Power[Width - i]]

(* Every byte is one digit more.                                            *)
LEMMA LeadingSteps ==
  ASSUME NEW n \in Numbers
  PROVE  /\ Leading(n) \in [0 .. Width -> Nat] /\ PutUint64(n) \in [1 .. Width -> Bytes]
         /\ Leading(n)[0] = 0 /\ Leading(n)[Width] = n
         /\ \A i \in 1 .. Width : Leading(n)[i] = Leading(n)[i - 1] * Base + PutUint64(n)[i]
<1>0. Width \in Nat \ {0} /\ Base \in Nat \ {0} /\ n \in Nat
  BY KeySchemaAssumption DEF Numbers
<1>1. \A i \in 0 .. Width : Width - i \in 0 .. Width /\ Power[Width - i] \in Nat \ {0}
  BY <1>0, PowerSteps
<1>2. Leading(n) \in [0 .. Width -> Nat]
  BY <1>0, <1>1, Division DEF Leading
<1>3. \A i \in 1 .. Width : n \div Power[Width - i] \in Nat
  BY <1>0, <1>1, Division
<1>4. PutUint64(n) \in [1 .. Width -> Bytes]
  BY <1>0, <1>3, Remainder DEF PutUint64, Bytes
<1>5. Leading(n)[0] = 0
  <2>1. PICK d : d = Power[Width]
    OBVIOUS
  <2>2. d \in Nat \ {0} /\ n < d /\ Leading(n)[0] = n \div d
    BY <1>0, <1>1, <2>1 DEF Numbers, Modulus, Leading
  <2> QED BY <1>0, <2>2
<1>6. Leading(n)[Width] = n
  <2>1. Leading(n)[Width] = n \div 1
    BY <1>0, PowerSteps DEF Leading
  <2> QED BY <1>0, <2>1
<1>7. ASSUME NEW i \in 1 .. Width
      PROVE  Leading(n)[i] = Leading(n)[i - 1] * Base + PutUint64(n)[i]
  <2>1. PICK d, q : d = Power[Width - i] /\ q = n \div d
    OBVIOUS
  <2>2. d \in Nat \ {0} /\ q \in Nat
    BY <1>0, <1>1, <2>1, Division
  <2>3. Leading(n)[i] = q /\ PutUint64(n)[i] = q % Base
    BY <1>0, <2>1 DEF Leading, PutUint64
  <2>4. Power[Width - (i - 1)] = Base * d
    <3>1. Width - (i - 1) \in 1 .. Width /\ Width - (i - 1) - 1 = Width - i
      BY <1>0
    <3> QED BY <2>1, <3>1, PowerSteps
  <2>5. Leading(n)[i - 1] = q \div Base
    <3>1. Leading(n)[i - 1] = n \div (Base * d)
      BY <1>0, <2>4 DEF Leading
    <3> QED BY <1>0, <2>1, <2>2, <3>1, DivisionTwice
  <2> QED BY <1>0, <2>2, <2>3, <2>5, Remainder
<1> QED BY <1>2, <1>4, <1>5, <1>6, <1>7

(* A number is read back from its bytes.                                    *)
LEMMA UintOfPut ==
  ASSUME NEW n \in Numbers
  PROVE  Uint64(PutUint64(n)) = n
<1> DEFINE Step(f) == [i \in 0 .. Width |-> IF i = 0 THEN 0 ELSE f[i - 1] * Base + PutUint64(n)[i]]
           value == CHOOSE f : f = Step(f)
<1>0. Width \in Nat
  BY KeySchemaAssumption
<1>1. Leading(n) = Step(Leading(n))
  <2>1. Leading(n) = [i \in 0 .. Width |-> Leading(n)[i]]
    BY DEF Leading
  <2> QED BY <1>0, <2>1, LeadingSteps
<1>2. value = Step(value)
  BY <1>1
<1>3. Uint64(PutUint64(n)) = value[Width]
  BY DEF Uint64
<1>4. value[0] = 0 /\ \A i \in 1 .. Width : value[i] = value[i - 1] * Base + PutUint64(n)[i]
  <2> HIDE DEF value
  <2> QED BY <1>0, <1>2
<1> HIDE DEF value
<1> DEFINE T == {i \in 0 .. Width : value[i] = Leading(n)[i]}
<1>5. 0 \in T
  BY <1>0, <1>4, LeadingSteps
<1>6. ASSUME NEW i \in 1 .. Width, i - 1 \in T
      PROVE  i \in T
  BY <1>0, <1>4, <1>6, LeadingSteps
<1>7. \A i \in 0 .. Width : i \in T
  <2> HIDE DEF T
  <2> QED BY <1>0, <1>5, <1>6, UpTo
<1> QED BY <1>0, <1>3, <1>7, LeadingSteps

(* The bytes of the smaller of two numbers are smaller where they first     *)
(* differ.                                                                  *)
LEMMA FirstDifference ==
  ASSUME NEW n \in Numbers, NEW m \in Numbers, n < m
  PROVE  \E i \in 1 .. Width : /\ \A j \in 1 .. i - 1 : PutUint64(n)[j] = PutUint64(m)[j]
                               /\ PutUint64(n)[i] < PutUint64(m)[i]
<1> DEFINE Differ == {i \in 0 .. Width : Leading(n)[i] # Leading(m)[i]}
<1>0. Width \in Nat \ {0} /\ Base \in Nat \ {0} /\ n \in Nat /\ m \in Nat
  BY KeySchemaAssumption DEF Numbers
<1>1. Width \in Differ /\ 0 \notin Differ
  BY <1>0, LeadingSteps
<1>2. PICK i \in Differ : \A j \in Differ : i <= j
  <2>1. Differ \in SUBSET Nat
    OBVIOUS
  <2> HIDE DEF Differ
  <2> QED BY <1>1, <2>1, LeastNumber
<1>3. i \in 1 .. Width
  BY <1>0, <1>1
<1>4. \A j \in 0 .. i - 1 : Leading(n)[j] = Leading(m)[j]
  <2> TAKE j \in 0 .. i - 1
  <2>1. j \in 0 .. Width /\ ~(i <= j)
    BY <1>0, <1>3
  <2>2. j \notin Differ
    <3> HIDE DEF Differ
    <3> QED BY <1>2, <2>1
  <2> QED BY <2>1, <2>2
<1>5. \A j \in 1 .. i - 1 : PutUint64(n)[j] = PutUint64(m)[j]
  <2> TAKE j \in 1 .. i - 1
  <2>1. PICK a, b, c, d, e : /\ a = Leading(n)[j - 1] /\ b = Leading(n)[j] /\ c = PutUint64(n)[j]
                             /\ d = PutUint64(m)[j] /\ e = a * Base
    OBVIOUS
  <2>2. j \in 1 .. Width /\ j - 1 \in 0 .. i - 1 /\ j \in 0 .. i - 1 /\ j - 1 \in 0 .. Width
    BY <1>0, <1>3
  <2>3. a = Leading(m)[j - 1] /\ b = Leading(m)[j]
    BY <1>4, <2>1, <2>2
  <2>4. b = a * Base + c /\ b = a * Base + d
    <3>1. Leading(n)[j] = Leading(n)[j - 1] * Base + PutUint64(n)[j]
      BY <2>2, LeadingSteps
    <3>2. Leading(m)[j] = Leading(m)[j - 1] * Base + PutUint64(m)[j]
      BY <2>2, LeadingSteps
    <3> QED BY <2>1, <2>3, <3>1, <3>2
  <2>5. a \in Nat /\ c \in Bytes /\ d \in Bytes
    BY <2>1, <2>2, LeadingSteps
  <2>6. b = e + c /\ b = e + d /\ e \in Nat
    BY <1>0, <2>1, <2>4, <2>5
  <2>7. c = d
    <3>1. c \in Int /\ d \in Int
      BY <1>0, <2>5 DEF Bytes
    <3> QED BY <2>6, <3>1
  <2> QED BY <2>1, <2>7
<1>6. PutUint64(n)[i] < PutUint64(m)[i]
  <2>1. PICK a, b, c, x, y, e : /\ a = Leading(n)[i - 1] /\ b = Leading(n)[i] /\ c = Leading(m)[i]
                                /\ x = PutUint64(n)[i] /\ y = PutUint64(m)[i] /\ e = a * Base
    OBVIOUS
  <2>2. a = Leading(m)[i - 1] /\ i - 1 \in 0 .. Width
    BY <1>0, <1>3, <1>4, <2>1
  <2>3. b = e + x /\ c = e + y /\ e \in Nat /\ x \in Bytes /\ y \in Bytes
    <3>1. Leading(n)[i] = Leading(n)[i - 1] * Base + PutUint64(n)[i]
      BY <1>3, LeadingSteps
    <3>2. Leading(m)[i] = Leading(m)[i - 1] * Base + PutUint64(m)[i]
      BY <1>3, LeadingSteps
    <3>3. a \in Nat /\ x \in Bytes /\ y \in Bytes
      <4>1. Leading(n)[i - 1] \in Nat
        BY <2>2, LeadingSteps
      <4>2. PutUint64(n)[i] \in Bytes /\ PutUint64(m)[i] \in Bytes
        BY <1>3, LeadingSteps
      <4> QED BY <2>1, <4>1, <4>2
    <3>4. b = a * Base + x /\ c = a * Base + y
      BY <2>1, <2>2, <3>1, <3>2
    <3> QED BY <1>0, <2>1, <3>3, <3>4
  <2>4. b <= c
    <3>1. PICK d : d = Power[Width - i]
      OBVIOUS
    <3>2. d \in Nat \ {0}
      BY <1>0, <1>3, <3>1, PowerSteps
    <3>3. b = n \div d /\ c = m \div d
      BY <1>3, <2>1, <3>1 DEF Leading
    <3> QED BY <1>0, <3>2, <3>3, DivisionMonotone
  <2>5. b # c
    BY <1>2, <2>1
  <2> QED BY <1>0, <2>1, <2>3, <2>4, <2>5 DEF Bytes
<1> QED BY <1>3, <1>5, <1>6

LEMMA Small ==
  ASSUME NEW n \in Nat, NEW d \in Nat \ {0}, n < d
  PROVE  n % d = n
<1>1. 0 = n \div d
  BY DivisionUnique
<1> QED BY <1>1, Remainder

LEMMA StampsAreNumbers ==
  /\ Modulus \in Nat \ {0}
  /\ \A ts \in Stamps : ts \in Numbers /\ ts \in Int /\ Unsigned(ts) = ts /\ Signed(ts) = ts
<1>1. Modulus \in Nat \ {0}
  BY KeySchemaAssumption, PowerSteps DEF Modulus
<1>2. PICK h : h = Modulus \div 2
  OBVIOUS
<1>3. h \in Nat /\ 2 * h <= Modulus
  BY <1>1, <1>2, Division
<1>4. ASSUME NEW ts \in Stamps
      PROVE  ts \in Numbers /\ ts \in Int /\ Unsigned(ts) = ts /\ Signed(ts) = ts
  <2>1. ts \in Nat /\ ts < h
    BY <1>2, <1>3, KeySchemaAssumption
  <2>2. ts \in Numbers
    BY <1>1, <1>3, <2>1 DEF Numbers
  <2>3. Unsigned(ts) = ts
    BY <1>1, <1>3, <2>1, Small DEF Unsigned
  <2> QED BY <1>2, <2>1, <2>2, <2>3 DEF Signed
<1> QED BY <1>1, <1>4

----------------------------------------------------------------------------
(* Keys and their order *)

Line == [term : Terms, ts : Stamps, stream : Numbers]
Key(l) == EncodeIndexKey(l.term, l.ts, l.stream)

LEMMA PutIsBytes ==
  ASSUME NEW n \in Numbers
  PROVE  PutUint64(n) \in Seq(Bytes) /\ Len(PutUint64(n)) = Width
<1>1. Width \in Nat /\ PutUint64(n) \in [1 .. Width -> Bytes]
  BY KeySchemaAssumption, LeadingSteps
<1> QED BY <1>1

LEMMA Delimited ==
  ASSUME NEW S, NEW a \in S, NEW s \in Seq(S), NEW b \in S
  PROVE  /\ <<a>> \o s \o <<b>> \in Seq(S) /\ Len(<<a>> \o s \o <<b>>) = Len(s) + 2
         /\ (<<a>> \o s \o <<b>>)[1] = a /\ (<<a>> \o s \o <<b>>)[Len(s) + 2] = b
         /\ \A i \in 1 .. Len(s) : (<<a>> \o s \o <<b>>)[1 + i] = s[i]
<1>1. PICK n : n = Len(s)
  OBVIOUS
<1>2. PICK k : k = <<a>> \o s
  OBVIOUS
<1>3. n \in Nat /\ k \in Seq(S) /\ Len(k) = n + 1 /\ k[1] = a /\ \A i \in 1 .. n : k[1 + i] = s[i]
  BY <1>1, <1>2
<1>4. PICK p : p = k \o <<b>>
  OBVIOUS
<1>5. p \in Seq(S) /\ Len(p) = n + 2 /\ p[n + 2] = b /\ \A i \in 1 .. n + 1 : p[i] = k[i]
  BY <1>3, <1>4
<1>6. p[1] = a /\ \A i \in 1 .. n : p[1 + i] = s[i]
  BY <1>3, <1>5
<1> QED BY <1>1, <1>2, <1>4, <1>5, <1>6

LEMMA Joined ==
  ASSUME NEW S, NEW p \in Seq(S), NEW x \in Seq(S), NEW y \in Seq(S)
  PROVE  /\ p \o x \o y \in Seq(S) /\ Len(p \o x \o y) = Len(p) + Len(x) + Len(y)
         /\ \A i \in 1 .. Len(p) : (p \o x \o y)[i] = p[i]
         /\ \A i \in 1 .. Len(x) : (p \o x \o y)[Len(p) + i] = x[i]
         /\ \A i \in 1 .. Len(y) : (p \o x \o y)[Len(p) + Len(x) + i] = y[i]
<1>1. PICK n, m, w : n = Len(p) /\ m = Len(x) /\ w = Len(y)
  OBVIOUS
<1>2. PICK k : k = p \o x
  OBVIOUS
<1>3. /\ n \in Nat /\ m \in Nat /\ w \in Nat /\ k \in Seq(S) /\ Len(k) = n + m
      /\ \A i \in 1 .. n : k[i] = p[i]
      /\ \A i \in 1 .. m : k[n + i] = x[i]
  BY <1>1, <1>2
<1>4. PICK q : q = k \o y
  OBVIOUS
<1>5. /\ q \in Seq(S) /\ Len(q) = n + m + w
      /\ \A i \in 1 .. n + m : q[i] = k[i]
      /\ \A i \in 1 .. w : q[n + m + i] = y[i]
  <2>1. /\ Len(q) = Len(k) + Len(y) /\ q \in Seq(S)
        /\ \A i \in 1 .. Len(k) + Len(y) : q[i] = IF i <= Len(k) THEN k[i] ELSE y[i - Len(k)]
    BY <1>3, <1>4, ConcatProperties
  <2>2. \A i \in 1 .. n + m + w : q[i] = IF i <= n + m THEN k[i] ELSE y[i - (n + m)]
    BY <1>1, <1>3, <2>1
  <2>3. \A i \in 1 .. n + m : q[i] = k[i]
    BY <1>3, <2>2
  <2>4. ASSUME NEW i \in 1 .. w
        PROVE  q[n + m + i] = y[i]
    <3>1. PICK j : j = n + m + i
      OBVIOUS
    <3>2. j \in 1 .. n + m + w /\ ~(j <= n + m) /\ j - (n + m) = i
      BY <1>3, <3>1
    <3>3. q[j] = y[j - (n + m)]
      BY <2>2, <3>2
    <3> QED BY <3>1, <3>2, <3>3
  <2> QED BY <1>1, <1>3, <2>1, <2>3, <2>4
<1>6. \A i \in 1 .. n : q[i] = p[i]
  BY <1>3, <1>5
<1>7. \A i \in 1 .. m : q[n + i] = x[i]
  BY <1>3, <1>5
<1> QED BY <1>1, <1>2, <1>4, <1>5, <1>6, <1>7

(* The prefix of a term, and what is behind it in a key.                    *)
LEMMA PrefixBytes ==
  ASSUME NEW t \in Terms
  PROVE  /\ ScanPrefix(t) \in Seq(Bytes) /\ Len(t) \in Nat /\ Len(ScanPrefix(t)) = Len(t) + 2
         /\ ScanPrefix(t)[1] = 2 /\ ScanPrefix(t)[Len(t) + 2] = 0
         /\ \A i \in 1 .. Len(t) : ScanPrefix(t)[1 + i] = t[i] /\ t[i] \in Bytes \ {0}
<1>1. Base \in Nat /\ Base > 3 /\ t \in Seq(Bytes \ {0})
  BY KeySchemaAssumption
<1>2. t \in Seq(Bytes) /\ Len(t) \in Nat /\ \A i \in 1 .. Len(t) : t[i] \in Bytes \ {0}
  BY <1>1
<1>3. PrefixIndexTerm \in Bytes /\ 0 \in Bytes /\ PrefixIndexTerm = 2
  BY <1>1 DEF PrefixIndexTerm, Bytes
<1> QED BY <1>2, <1>3, Delimited DEF ScanPrefix

LEMMA KeyBytes ==
  ASSUME NEW l \in Line
  PROVE  /\ Key(l) \in Seq(Bytes) /\ Len(Key(l)) = Len(l.term) + 2 + 2 * Width
         /\ \A i \in 1 .. Len(l.term) + 2 : Key(l)[i] = ScanPrefix(l.term)[i]
         /\ \A i \in 1 .. Width : /\ Key(l)[Len(l.term) + 2 + i] = PutUint64(l.ts)[i]
                                  /\ Key(l)[Len(l.term) + 2 + Width + i] = PutUint64(l.stream)[i]
<1>1. l.term \in Terms /\ l.ts \in Stamps /\ l.stream \in Numbers
  BY DEF Line
<1>2. PICK p, x, y : p = ScanPrefix(l.term) /\ x = PutUint64(l.ts) /\ y = PutUint64(l.stream)
  OBVIOUS
<1>3. Key(l) = p \o x \o y
  BY <1>1, <1>2, StampsAreNumbers DEF Key, EncodeIndexKey, ScanPrefix
<1>4. /\ p \in Seq(Bytes) /\ x \in Seq(Bytes) /\ y \in Seq(Bytes) /\ Len(l.term) \in Nat
      /\ Len(p) = Len(l.term) + 2 /\ Len(x) = Width /\ Len(y) = Width
  BY <1>1, <1>2, StampsAreNumbers, PrefixBytes, PutIsBytes
<1>5. Width \in Nat /\ Width + Width = 2 * Width
  BY KeySchemaAssumption
<1>6. /\ p \o x \o y \in Seq(Bytes) /\ Len(p \o x \o y) = Len(p) + Len(x) + Len(y)
      /\ \A i \in 1 .. Len(p) : (p \o x \o y)[i] = p[i]
      /\ \A i \in 1 .. Len(x) : (p \o x \o y)[Len(p) + i] = x[i]
      /\ \A i \in 1 .. Len(y) : (p \o x \o y)[Len(p) + Len(x) + i] = y[i]
  <2>1. p \in Seq(Bytes) /\ x \in Seq(Bytes) /\ y \in Seq(Bytes)
    BY <1>4
  <2> QED BY <2>1, Joined
<1>7. PICK k, n : k = Key(l) /\ n = Len(l.term)
  OBVIOUS
<1>8. /\ k \in Seq(Bytes) /\ Len(k) = (n + 2) + Width + Width
      /\ \A i \in 1 .. n + 2 : k[i] = p[i]
      /\ \A i \in 1 .. Width : k[(n + 2) + i] = x[i]
      /\ \A i \in 1 .. Width : k[(n + 2) + Width + i] = y[i]
  BY <1>3, <1>4, <1>6, <1>7, Zenon
<1>9. n \in Nat /\ (n + 2) + Width + Width = n + 2 + 2 * Width
  <2>1. n \in Nat
    BY <1>4, <1>7
  <2> QED BY <1>5, <2>1
<1> QED BY <1>2, <1>7, <1>8, <1>9

(* A sequence that is in another from a + 1 on is cut out of it.            *)
LEMMA Cut ==
  ASSUME NEW S, NEW k \in Seq(S), NEW a \in Nat, NEW s \in Seq(S), a + Len(s) <= Len(k),
         \A i \in 1 .. Len(s) : k[a + i] = s[i]
  PROVE  SubSeq(k, a + 1, a + Len(s)) = s
<1>1. PICK n, c : n = Len(s) /\ c = SubSeq(k, a + 1, a + n)
  OBVIOUS
<1>2. n \in Nat /\ a + n <= Len(k)
  BY <1>1
<1>3. c \in Seq(S) /\ Len(c) = n /\ \A i \in 1 .. n : c[i] = k[a + i]
  <2>1. PICK f, t : f = a + 1 /\ t = a + n
    OBVIOUS
  <2>2. f \in Int /\ t \in Int /\ \A i \in f .. t : k[i] \in S
    BY <1>2, <2>1
  <2>3. /\ c \in Seq(S) /\ Len(c) = (IF f <= t THEN t - f + 1 ELSE 0)
        /\ \A i \in 1 .. t - f + 1 : c[i] = k[f + i - 1]
    BY <1>1, <2>1, <2>2, SubSeqProperties
  <2>4. t - f + 1 = n /\ (IF f <= t THEN t - f + 1 ELSE 0) = n /\ \A i \in 1 .. n : f + i - 1 = a + i
    BY <1>2, <2>1
  <2> QED BY <2>3, <2>4
<1>4. \A i \in 1 .. n : c[i] = s[i]
  BY <1>1, <1>3
<1> QED BY <1>1, <1>3, <1>4, SeqEqual

(* A key leads back to its line: the delimiter is the first zero.           *)
LEMMA KeyDecodes ==
  ASSUME NEW l \in Line
  PROVE  DecodeIndexKey(Key(l)) = {l}
<1>1. PICK k, e : k = Key(l) /\ e = Len(l.term) + 2
  OBVIOUS
<1>2. /\ l.term \in Terms /\ l.ts \in Stamps /\ l.ts \in Numbers /\ l.stream \in Numbers
      /\ l.term \in Seq(Bytes)
  <2>1. l.term \in Terms /\ l.ts \in Stamps /\ l.stream \in Numbers
    BY DEF Line
  <2>2. l.term \in Seq(Bytes \ {0})
    BY <2>1, KeySchemaAssumption
  <2> QED BY <2>1, <2>2, StampsAreNumbers
<1>3. Width \in Nat \ {0} /\ e \in Nat /\ e > 1 /\ Len(l.term) = e - 2 /\ Len(l.term) \in Nat
  BY <1>1, <1>2, PrefixBytes, KeySchemaAssumption
<1>4. k \in Seq(Bytes) /\ Len(k) = e + 2 * Width
  BY <1>1, KeyBytes
<1>5. /\ k[1] = PrefixIndexTerm /\ k[e] = 0
      /\ \A i \in 1 .. Len(l.term) : k[1 + i] = l.term[i] /\ k[1 + i] # 0
  <2>1. \A i \in 1 .. e : k[i] = ScanPrefix(l.term)[i]
    BY <1>1, KeyBytes
  <2>2. 1 \in 1 .. e /\ e \in 1 .. e /\ \A i \in 1 .. Len(l.term) : 1 + i \in 1 .. e
    BY <1>3
  <2> QED BY <1>1, <1>2, <2>1, <2>2, PrefixBytes DEF PrefixIndexTerm
<1>6. \A j \in 2 .. e - 1 : k[j] # 0
  <2> TAKE j \in 2 .. e - 1
  <2>1. j - 1 \in 1 .. Len(l.term) /\ 1 + (j - 1) = j
    BY <1>3
  <2> QED BY <1>5, <2>1
<1> DEFINE Ends == {i \in 2 .. Len(k) : /\ k[1] = PrefixIndexTerm
                                        /\ k[i] = 0 /\ \A j \in 2 .. i - 1 : k[j] # 0
                                        /\ Len(k) - i = 2 * Width}
           At(d) == [term |-> SubSeq(k, 2, d - 1),
                     ts |-> Signed(Uint64(SubSeq(k, d + 1, d + Width))),
                     stream |-> Uint64(SubSeq(k, d + Width + 1, d + 2 * Width))]
<1>7. Ends = {e}
  <2>1. e \in 2 .. Len(k) /\ Len(k) - e = 2 * Width
    BY <1>3, <1>4
  <2>2. ASSUME NEW i \in Ends
        PROVE  i = e
    <3>1. PICK w : w = 2 * Width
      OBVIOUS
    <3>2. w \in Nat /\ i \in Int /\ Len(k) = e + w /\ Len(k) - i = w
      BY <1>3, <1>4, <3>1
    <3> QED BY <1>3, <3>2
  <2> QED BY <1>5, <1>6, <2>1, <2>2
<1>8. DecodeIndexKey(k) = {At(e)}
  <2>1. DecodeIndexKey(k) = {At(d) : d \in Ends}
    BY DEF DecodeIndexKey
  <2> HIDE DEF Ends, At
  <2> QED BY <1>7, <2>1
<1>9. SubSeq(k, 2, e - 1) = l.term
  <2>1. 1 + Len(l.term) <= Len(k) /\ 1 + 1 = 2 /\ 1 + Len(l.term) = e - 1
    BY <1>3, <1>4
  <2>2. SubSeq(k, 1 + 1, 1 + Len(l.term)) = l.term
    BY <1>2, <1>4, <1>5, <2>1, Cut
  <2> QED BY <2>1, <2>2
<1>10. SubSeq(k, e + 1, e + Width) = PutUint64(l.ts)
  <2>1. PutUint64(l.ts) \in Seq(Bytes) /\ Len(PutUint64(l.ts)) = Width
    BY <1>2, PutIsBytes
  <2>2. e + Width <= Len(k)
    BY <1>3, <1>4
  <2>3. \A i \in 1 .. Width : k[e + i] = PutUint64(l.ts)[i]
    BY <1>1, KeyBytes
  <2> QED BY <1>3, <1>4, <2>1, <2>2, <2>3, Cut
<1>11. SubSeq(k, e + Width + 1, e + 2 * Width) = PutUint64(l.stream)
  <2>1. PutUint64(l.stream) \in Seq(Bytes) /\ Len(PutUint64(l.stream)) = Width
    BY <1>2, PutIsBytes
  <2>2. e + Width \in Nat /\ (e + Width) + Width = e + 2 * Width /\ (e + Width) + Width <= Len(k)
    BY <1>3, <1>4
  <2>3. \A i \in 1 .. Width : k[(e + Width) + i] = PutUint64(l.stream)[i]
    BY <1>1, KeyBytes
  <2>4. SubSeq(k, (e + Width) + 1, (e + Width) + Width) = PutUint64(l.stream)
    BY <1>4, <2>1, <2>2, <2>3, Cut
  <2> QED BY <2>2, <2>4
<1>12. At(e) = l
  <2>1. At(e) = [term |-> l.term, ts |-> l.ts, stream |-> l.stream]
    BY <1>2, <1>9, <1>10, <1>11, UintOfPut, StampsAreNumbers
  <2> HIDE DEF At
  <2> QED BY <2>1 DEF Line
<1> QED BY <1>1, <1>8, <1>12

LEMMA KeyOfOneLine ==
  ASSUME NEW l \in Line, NEW m \in Line, Key(l) = Key(m)
  PROVE  l = m
BY KeyDecodes

Less(l, m) == l.ts < m.ts \/ (l.ts = m.ts /\ l.stream < m.stream)

(* Keys of one length have one order.                                       *)
LEMMA BeforeAsymmetric ==
  ASSUME NEW a \in Seq(Bytes), NEW b \in Seq(Bytes), Len(a) = Len(b), Before(a, b)
  PROVE  ~Before(b, a)
<1>1. PICK n : n = Len(a)
  OBVIOUS
<1>2. n \in Nat /\ \A i \in 1 .. n : a[i] \in Int /\ b[i] \in Int
  BY <1>1, KeySchemaAssumption DEF Bytes
<1>3. PICK i \in 1 .. n : a[i] < b[i] /\ \A j \in 1 .. i - 1 : a[j] = b[j]
  BY <1>1, <1>2 DEF Before
<1>4. SUFFICES ASSUME NEW k \in 1 .. n, b[k] < a[k], \A j \in 1 .. k - 1 : b[j] = a[j]
               PROVE  FALSE
  BY <1>1, <1>2 DEF Before
<1>5. CASE i < k
  BY <1>2, <1>3, <1>4, <1>5
<1>6. CASE k < i
  BY <1>2, <1>3, <1>4, <1>6
<1>7. CASE i = k
  BY <1>2, <1>3, <1>4, <1>7
<1> QED BY <1>2, <1>5, <1>6, <1>7

LEMMA KeysInOrder ==
  ASSUME NEW l \in Line, NEW m \in Line, l.term = m.term, Less(l, m)
  PROVE  Before(Key(l), Key(m))
<1>1. PICK a, b, n : a = Key(l) /\ b = Key(m) /\ n = Len(l.term) + 2
  OBVIOUS
<1>2. /\ l.term \in Terms /\ l.ts \in Numbers /\ m.ts \in Numbers
      /\ l.stream \in Numbers /\ m.stream \in Numbers
  BY StampsAreNumbers DEF Line
<1>3. n \in Nat /\ Width \in Nat
  BY <1>1, <1>2, PrefixBytes, KeySchemaAssumption
<1>4. /\ a \in Seq(Bytes) /\ Len(a) = n + 2 * Width
      /\ \A i \in 1 .. n : a[i] = ScanPrefix(l.term)[i]
      /\ \A i \in 1 .. Width : a[n + i] = PutUint64(l.ts)[i] /\ a[n + Width + i] = PutUint64(l.stream)[i]
  BY <1>1, KeyBytes
<1>5. /\ b \in Seq(Bytes) /\ Len(b) = n + 2 * Width
      /\ \A i \in 1 .. n : b[i] = ScanPrefix(l.term)[i]
      /\ \A i \in 1 .. Width : b[n + i] = PutUint64(m.ts)[i] /\ b[n + Width + i] = PutUint64(m.stream)[i]
  BY <1>1, KeyBytes
<1>6. ASSUME NEW k \in 1 .. n + 2 * Width, a[k] < b[k], \A j \in 1 .. k - 1 : a[j] = b[j]
      PROVE  Before(a, b)
  <2>1. k \in 1 .. Len(b) /\ k <= Len(a) + 1
    BY <1>3, <1>4, <1>5
  <2> QED BY <1>6, <2>1 DEF Before
<1>7. CASE l.ts < m.ts
  <2>1. PICK i \in 1 .. Width : /\ \A j \in 1 .. i - 1 : PutUint64(l.ts)[j] = PutUint64(m.ts)[j]
                                /\ PutUint64(l.ts)[i] < PutUint64(m.ts)[i]
    BY <1>2, <1>7, FirstDifference
  <2>2. PICK k : k = n + i
    OBVIOUS
  <2>3. k \in 1 .. n + 2 * Width /\ a[k] < b[k]
    BY <1>3, <1>4, <1>5, <2>1, <2>2
  <2>4. ASSUME NEW j \in 1 .. k - 1
        PROVE  a[j] = b[j]
    <3>1. CASE j <= n
      BY <1>3, <1>4, <1>5, <2>2, <3>1
    <3>2. CASE ~(j <= n)
      <4>1. j - n \in 1 .. i - 1 /\ j - n \in 1 .. Width /\ n + (j - n) = j
        BY <1>3, <2>2, <3>2
      <4> QED BY <1>4, <1>5, <2>1, <4>1
    <3> QED BY <3>1, <3>2
  <2> QED BY <1>1, <1>6, <2>3, <2>4
<1>8. CASE l.ts = m.ts /\ l.stream < m.stream
  <2>1. PICK i \in 1 .. Width : /\ \A j \in 1 .. i - 1 : PutUint64(l.stream)[j] = PutUint64(m.stream)[j]
                                /\ PutUint64(l.stream)[i] < PutUint64(m.stream)[i]
    BY <1>2, <1>8, FirstDifference
  <2>2. PICK k : k = n + Width + i
    OBVIOUS
  <2>3. k \in 1 .. n + 2 * Width /\ a[k] < b[k]
    BY <1>3, <1>4, <1>5, <2>1, <2>2
  <2>4. ASSUME NEW j \in 1 .. k - 1
        PROVE  a[j] = b[j]
    <3>1. CASE j <= n
      BY <1>3, <1>4, <1>5, <2>2, <3>1
    <3>2. CASE n < j /\ j <= n + Width
      <4>1. j - n \in 1 .. Width /\ n + (j - n) = j
        BY <1>3, <2>2, <3>2
      <4> QED BY <1>4, <1>5, <1>8, <4>1
    <3>3. CASE n + Width < j
      <4>1. /\ j - (n + Width) \in 1 .. i - 1 /\ j - (n + Width) \in 1 .. Width
            /\ n + Width + (j - (n + Width)) = j
        BY <1>3, <2>2, <3>3
      <4> QED BY <1>4, <1>5, <2>1, <4>1
    <3> QED BY <1>3, <3>1, <3>2, <3>3
  <2> QED BY <1>1, <1>6, <2>3, <2>4
<1> QED BY <1>7, <1>8 DEF Less

(* The order of a term's keys is that of time and stream.                   *)
LEMMA KeyOrder ==
  ASSUME NEW l \in Line, NEW m \in Line, l.term = m.term
  PROVE  Before(Key(l), Key(m)) <=> Less(l, m)
<1>1. Key(l) \in Seq(Bytes) /\ Key(m) \in Seq(Bytes) /\ Len(Key(l)) = Len(Key(m))
  BY KeyBytes
<1>2. SUFFICES ASSUME Before(Key(l), Key(m)), ~Less(l, m)
               PROVE  FALSE
  BY KeysInOrder
<1>3. CASE Less(m, l)
  BY <1>1, <1>2, <1>3, KeysInOrder, BeforeAsymmetric
<1>4. CASE ~Less(m, l)
  <2>1. l.ts \in Int /\ m.ts \in Int /\ l.stream \in Int /\ m.stream \in Int
    BY StampsAreNumbers DEF Line, Numbers
  <2>2. l.ts = m.ts /\ l.stream = m.stream
    BY <1>2, <1>4, <2>1 DEF Less
  <2>3. Key(l) = Key(m)
    BY <2>2 DEF Key
  <2> QED BY <1>1, <1>2, <2>3, BeforeAsymmetric
<1> QED BY <1>3, <1>4

(* The last byte of a prefix is the delimiter, so the limit has 1 there.    *)
LEMMA LimitBytes ==
  ASSUME NEW t \in Terms
  PROVE  /\ PrefixLimit(ScanPrefix(t)) \in Seq(Bytes) /\ Len(PrefixLimit(ScanPrefix(t))) = Len(t) + 2
         /\ PrefixLimit(ScanPrefix(t))[Len(t) + 2] = 1
         /\ \A i \in 1 .. Len(t) + 1 : PrefixLimit(ScanPrefix(t))[i] = ScanPrefix(t)[i]
<1>1. PICK p, n : p = ScanPrefix(t) /\ n = Len(t) + 2
  OBVIOUS
<1>2. p \in Seq(Bytes) /\ n \in Nat /\ n > 1 /\ Len(p) = n /\ p[n] = 0 /\ Base \in Nat /\ Base > 3
  BY <1>1, PrefixBytes, KeySchemaAssumption
<1> DEFINE Last(k) == p[k] < Base - 1 /\ \A j \in k + 1 .. Len(p) : p[j] = Base - 1
<1>3. PICK c : c = CHOOSE k \in 1 .. Len(p) : Last(k)
  OBVIOUS
<1>4. n \in 1 .. Len(p) /\ Last(n)
  BY <1>2
<1>5. ASSUME NEW k \in 1 .. Len(p), Last(k)
      PROVE  k = n
  BY <1>2, <1>5
<1>6. c = n
  <2> HIDE DEF Last
  <2> QED BY <1>3, <1>4, <1>5
<1>7. PrefixLimit(p) = [SubSeq(p, 1, c) EXCEPT ![c] = @ + 1]
  BY <1>3 DEF PrefixLimit
<1>8. SubSeq(p, 1, n) = p
  BY <1>2, SubSeqFull
<1>9. PrefixLimit(p) = [p EXCEPT ![n] = 1]
  <2>1. PrefixLimit(p) = [p EXCEPT ![n] = @ + 1]
    BY <1>6, <1>7, <1>8
  <2>2. p[n] + 1 = 1
    BY <1>2
  <2> QED BY <2>1, <2>2
<1>10. 1 \in Bytes
  BY <1>2 DEF Bytes
<1>11. /\ [p EXCEPT ![n] = 1] \in Seq(Bytes) /\ Len([p EXCEPT ![n] = 1]) = n
       /\ \A i \in 1 .. n : [p EXCEPT ![n] = 1][i] = IF i = n THEN 1 ELSE p[i]
  BY <1>2, <1>4, <1>10, ExceptSeq
<1>12. /\ PrefixLimit(p) \in Seq(Bytes) /\ Len(PrefixLimit(p)) = n
       /\ PrefixLimit(p)[n] = 1
       /\ \A i \in 1 .. n - 1 : PrefixLimit(p)[i] = p[i]
  <2>1. n \in 1 .. n /\ \A i \in 1 .. n - 1 : i \in 1 .. n /\ i # n
    BY <1>2
  <2> QED BY <1>9, <1>11, <2>1
<1>13. n - 1 = Len(t) + 1
  BY <1>1, PrefixBytes
<1> QED BY <1>1, <1>12, <1>13

(* The bytes of different terms differ before either ends.                  *)
LEMMA TermsDiffer ==
  ASSUME NEW s \in Terms, NEW t \in Terms, s # t
  PROVE  \E i \in 1 .. Len(s) + 2 : /\ i <= Len(t) + 2 /\ ScanPrefix(s)[i] # ScanPrefix(t)[i]
                                    /\ \A j \in 1 .. i - 1 : ScanPrefix(s)[j] = ScanPrefix(t)[j]
<1>1. PICK p, q, n, m : p = ScanPrefix(s) /\ q = ScanPrefix(t) /\ n = Len(s) + 2 /\ m = Len(t) + 2
  OBVIOUS
<1>2. /\ n \in Nat /\ n > 1 /\ p[n] = 0 /\ Len(s) = n - 2
      /\ \A i \in 1 .. n - 2 : p[1 + i] = s[i] /\ s[i] # 0
  BY <1>1, PrefixBytes
<1>3. /\ m \in Nat /\ m > 1 /\ q[m] = 0 /\ Len(t) = m - 2
      /\ \A i \in 1 .. m - 2 : q[1 + i] = t[i] /\ t[i] # 0
  BY <1>1, PrefixBytes
<1> DEFINE Differ == {i \in 1 .. n : i <= m /\ p[i] # q[i]}
<1>4. Differ # {}
  <2> SUFFICES ASSUME \A i \in 1 .. n : i <= m => p[i] = q[i]
               PROVE  FALSE
    OBVIOUS
  <2>1. CASE n < m
    <3>1. p[n] = q[n] /\ n - 1 \in 1 .. m - 2 /\ 1 + (n - 1) = n
      BY <1>2, <1>3, <2>1
    <3> QED BY <1>2, <1>3, <3>1
  <2>2. CASE m < n
    <3>1. p[m] = q[m] /\ m - 1 \in 1 .. n - 2 /\ 1 + (m - 1) = m
      BY <1>2, <1>3, <2>2
    <3> QED BY <1>2, <1>3, <3>1
  <2>3. CASE n = m
    <3>1. ASSUME NEW i \in 1 .. n - 2
          PROVE  s[i] = t[i]
      <4>1. 1 + i \in 1 .. n /\ 1 + i <= m
        BY <1>2, <1>3, <2>3
      <4>2. p[1 + i] = q[1 + i]
        BY <4>1
      <4> QED BY <1>2, <1>3, <2>3, <4>2
    <3>2. s \in Seq(Bytes \ {0}) /\ t \in Seq(Bytes \ {0})
      BY KeySchemaAssumption
    <3> QED BY <1>2, <1>3, <2>3, <3>1, <3>2, SeqEqual
  <2> QED BY <1>2, <1>3, <2>1, <2>2, <2>3
<1>5. PICK i \in Differ : \A j \in Differ : i <= j
  <2>1. Differ \in SUBSET Nat
    BY <1>2
  <2> HIDE DEF Differ
  <2> QED BY <1>4, <2>1, LeastNumber
<1>6. ASSUME NEW j \in 1 .. i - 1
      PROVE  p[j] = q[j]
  <2>1. j \in 1 .. n /\ j <= m /\ ~(i <= j)
    BY <1>2, <1>3
  <2>2. j \notin Differ
    <3> HIDE DEF Differ
    <3> QED BY <1>5, <2>1
  <2> QED BY <2>1, <2>2
<1> QED BY <1>1, <1>6

(* Between a term's prefix and its limit are its own keys and no other.     *)
LEMMA InRange ==
  ASSUME NEW l \in Line, NEW t \in Terms
  PROVE  (~Before(Key(l), ScanPrefix(t)) /\ Before(Key(l), PrefixLimit(ScanPrefix(t)))) <=> l.term = t
<1>1. PICK k, p, q, n : k = Key(l) /\ p = ScanPrefix(t) /\ q = PrefixLimit(p) /\ n = Len(t) + 2
  OBVIOUS
<1>2. /\ p \in Seq(Bytes) /\ n \in Nat /\ n > 1 /\ Len(p) = n /\ p[n] = 0
      /\ q \in Seq(Bytes) /\ Len(q) = n /\ q[n] = 1 /\ \A i \in 1 .. n - 1 : q[i] = p[i]
  <2>1. Len(t) \in Nat /\ Len(t) + 1 = n - 1
    BY <1>1, PrefixBytes
  <2> QED BY <1>1, <2>1, PrefixBytes, LimitBytes
<1>3. l.term \in Terms /\ Len(l.term) \in Nat /\ Width \in Nat
  BY PrefixBytes, KeySchemaAssumption DEF Line
<1>4. /\ k \in Seq(Bytes) /\ Len(k) >= Len(l.term) + 2
      /\ \A i \in 1 .. Len(l.term) + 2 : k[i] = ScanPrefix(l.term)[i]
  <2>1. /\ k \in Seq(Bytes) /\ Len(k) = Len(l.term) + 2 + 2 * Width
        /\ \A i \in 1 .. Len(l.term) + 2 : k[i] = ScanPrefix(l.term)[i]
    BY <1>1, KeyBytes
  <2>2. \A a, w \in Nat : a + 2 + 2 * w >= a + 2
    OBVIOUS
  <2>3. Len(l.term) + 2 + 2 * Width >= Len(l.term) + 2
    BY <1>3, <2>2
  <2> QED BY <2>1, <2>3
<1>5. /\ \A i \in 1 .. n : p[i] \in Int
      /\ \A i \in 1 .. Len(k) : k[i] \in Int
  <2>1. Bytes \subseteq Int
    BY KeySchemaAssumption DEF Bytes
  <2>2. (\A i \in 1 .. Len(p) : p[i] \in Bytes) /\ \A i \in 1 .. Len(k) : k[i] \in Bytes
    BY <1>2, <1>4
  <2> QED BY <1>2, <2>1, <2>2
<1>6. ASSUME l.term = t
      PROVE  ~Before(k, p) /\ Before(k, q)
  <2>1. Len(k) >= n /\ \A i \in 1 .. n : k[i] = p[i]
    BY <1>1, <1>4, <1>6
  <2>2. ~Before(k, p)
    BY <1>2, <1>4, <1>5, <2>1 DEF Before
  <2>3. n \in 1 .. Len(q) /\ n <= Len(k) + 1 /\ k[n] < q[n] /\ \A j \in 1 .. n - 1 : k[j] = q[j]
    BY <1>2, <1>4, <2>1
  <2>4. Before(k, q)
    BY <2>3 DEF Before
  <2> QED BY <2>2, <2>4
<1>7. ASSUME l.term # t, ~Before(k, p), NEW h \in 1 .. n, h <= Len(k) + 1,
             \A j \in 1 .. h - 1 : k[j] = q[j], h <= Len(k) => k[h] < q[h]
      PROVE  FALSE
  <2>1. PICK i \in 1 .. Len(l.term) + 2 : /\ i <= n /\ k[i] # p[i]
                                          /\ \A j \in 1 .. i - 1 : k[j] = p[j]
    <3>1. PICK i \in 1 .. Len(l.term) + 2 : /\ i <= n /\ ScanPrefix(l.term)[i] # p[i]
                                            /\ \A j \in 1 .. i - 1 : ScanPrefix(l.term)[j] = p[j]
      BY <1>1, <1>3, <1>7, TermsDiffer
    <3>2. \A j \in 1 .. i - 1 : j \in 1 .. Len(l.term) + 2
      BY <1>3
    <3> QED BY <1>4, <3>1, <3>2
  <2>2. i \in 1 .. n /\ i \in 1 .. Len(k)
    BY <1>2, <1>3, <1>4, <2>1
  <2>3. ~(k[i] < p[i])
    <3> SUFFICES ASSUME k[i] < p[i]
                 PROVE  Before(k, p)
      BY <1>7
    <3> QED BY <1>2, <1>4, <2>1, <2>2 DEF Before
  <2>4. p[i] < k[i]
    BY <1>5, <2>1, <2>2, <2>3
  <2>5. CASE h < i
    <3>1. k[h] = p[h] /\ q[h] = p[h] /\ h \in 1 .. Len(k)
      BY <1>2, <1>4, <2>1, <2>2, <2>5
    <3> QED BY <1>5, <1>7, <3>1
  <2>6. CASE i < h
    BY <1>2, <1>7, <2>1, <2>2, <2>6
  <2>7. CASE i = h
    <3>1. CASE i < n
      BY <1>2, <1>5, <1>7, <2>2, <2>4, <2>7, <3>1
    <3>2. CASE i = n
      BY <1>2, <1>5, <1>7, <2>2, <2>4, <2>7, <3>2
    <3> QED BY <1>2, <2>2, <3>1, <3>2
  <2> QED BY <1>2, <2>2, <2>5, <2>6, <2>7
<1>8. ASSUME l.term # t, ~Before(k, p), Before(k, q)
      PROVE  FALSE
  BY <1>2, <1>7, <1>8 DEF Before
<1> QED BY <1>1, <1>6, <1>8

(* A log record's key is before every index key.                            *)
LEMMA LogKeysBefore ==
  ASSUME NEW l \in Line, NEW t \in Terms
  PROVE  Before(EncodeLogKey(l.stream, l.ts), ScanPrefix(t))
<1>1. PICK x, y : x = PutUint64(l.stream) /\ y = PutUint64(l.ts)
  OBVIOUS
<1>2. x \in Seq(Bytes) /\ y \in Seq(Bytes) /\ <<PrefixLogRecord>> \in Seq(Bytes)
  <2>1. l.stream \in Numbers /\ l.ts \in Numbers
    BY StampsAreNumbers DEF Line
  <2>2. PrefixLogRecord \in Bytes
    BY KeySchemaAssumption DEF PrefixLogRecord, Bytes
  <2> QED BY <1>1, <2>1, <2>2, PutIsBytes
<1>3. EncodeLogKey(l.stream, l.ts) = <<PrefixLogRecord>> \o x \o y
  BY <1>1, StampsAreNumbers DEF EncodeLogKey, Line
<1>4. PICK p, k : p = <<PrefixLogRecord>> /\ k = p \o x \o y
  OBVIOUS
<1>5. p \in Seq(Bytes) /\ Len(p) = 1 /\ p[1] = 1 /\ Len(x) \in Nat /\ Len(y) \in Nat
  BY <1>2, <1>4 DEF PrefixLogRecord
<1>6. Len(k) = Len(p) + Len(x) + Len(y) /\ \A i \in 1 .. Len(p) : k[i] = p[i]
  BY <1>2, <1>4, <1>5, Joined
<1>7. Len(k) >= 1 /\ k[1] = 1
  BY <1>5, <1>6
<1>8. Len(ScanPrefix(t)) >= 1 /\ ScanPrefix(t)[1] = 2
  BY PrefixBytes
<1>9. 1 \in 1 .. Len(ScanPrefix(t)) /\ 1 <= Len(k) + 1
  BY <1>7, <1>8, PrefixBytes
<1>10. Before(k, ScanPrefix(t))
  BY <1>7, <1>8, <1>9 DEF Before
<1> QED BY <1>3, <1>4, <1>10

----------------------------------------------------------------------------
(* The scan *)

Own == {l \in lines : l.term = scan.term}
Wanted(l) == l.ts \in scan.start .. scan.end
Matches(S) == {<<l.ts, l.stream>> : l \in {x \in S : Wanted(x)}}

(* The term's lines the iterator has been at.                               *)
Seen == {l \in Own : last # <<>> /\ ~Before(last, Key(l))}

Sorted(f) ==
  \A i, j \in 1 .. Len(f) :
    i < j => f[i][1] < f[j][1] \/ (f[i][1] = f[j][1] /\ f[i][2] < f[j][2])

Stored ==
  /\ lines \subseteq Line
  /\ db = {EncodeLogKey(l.stream, l.ts) : l \in lines} \cup {Key(l) : l \in lines}
  /\ scan = <<>> \/ scan \in [term : Terms, start : Stamps, end : Stamps]
  /\ found \in Seq(Int \X Int) /\ done \in BOOLEAN

(* What the scan has found are the matches among the lines seen, and only a *)
(* line seen can be wanted when it ends.                                    *)
Progress ==
  /\ last # <<>> => \E at \in Own : last = Key(at)
  /\ {found[i] : i \in 1 .. Len(found)} = Matches(Seen) /\ Sorted(found)
  /\ done => \A l \in Own : Wanted(l) => l \in Seen

ScanInv ==
  /\ Stored
  /\ IF scan = <<>> THEN last = <<>> /\ found = <<>> /\ ~done ELSE Progress

LEMMA ScanInit == KeyInit => ScanInv
<1> SUFFICES ASSUME KeyInit
             PROVE  ScanInv
  OBVIOUS
<1>1. lines = {} /\ db = {} /\ scan = <<>> /\ last = <<>> /\ found = <<>> /\ done = FALSE
  BY DEF KeyInit
<1>2. db = {EncodeLogKey(l.stream, l.ts) : l \in lines} \cup {Key(l) : l \in lines}
  BY <1>1
<1>3. found \in Seq(Int \X Int)
  BY <1>1
<1> QED BY <1>1, <1>2, <1>3 DEF ScanInv, Stored

LEMMA NewScan ==
  ASSUME NEW t \in Terms, NEW a \in Stamps, NEW b \in Stamps
  PROVE  [term |-> t, start |-> a, end |-> b] # <<>>
<1>1. DOMAIN [term |-> t, start |-> a, end |-> b] = {"term", "start", "end"}
  OBVIOUS
<1>2. DOMAIN <<>> = {}
  OBVIOUS
<1>3. "term" \in {"term", "start", "end"} /\ "term" \notin {}
  OBVIOUS
<1> QED BY <1>1, <1>2, <1>3

LEMMA OwnLines ==
  ASSUME Stored, scan # <<>>
  PROVE  /\ scan.term \in Terms /\ scan.start \in Int /\ scan.end \in Int
         /\ \A l \in Own : /\ l \in Line /\ l \in lines /\ l.term = scan.term
                           /\ l.ts \in Int /\ l.stream \in Int
<1>1. scan \in [term : Terms, start : Stamps, end : Stamps] /\ lines \subseteq Line
  BY DEF Stored
<1>2. \A l \in Line : l.ts \in Int /\ l.stream \in Int
  BY StampsAreNumbers DEF Line, Numbers
<1>3. scan.term \in Terms /\ scan.start \in Int /\ scan.end \in Int
  BY <1>1, StampsAreNumbers
<1> QED BY <1>1, <1>2, <1>3 DEF Own

(* What the iterator has before it are the keys of lines not seen.          *)
LEMMA AheadExact ==
  ASSUME Stored, Progress, scan # <<>>
  PROVE  Ahead = {Key(l) : l \in Own \ Seen}
<1>1. /\ db = {EncodeLogKey(l.stream, l.ts) : l \in lines} \cup {Key(l) : l \in lines}
      /\ lines \subseteq Line
  BY DEF Stored
<1>2. scan.term \in Terms
  BY OwnLines
<1>3. PICK p : p = ScanPrefix(scan.term)
  OBVIOUS
<1>4. Ahead = {k \in db : ~Before(k, p) /\ Before(k, PrefixLimit(p)) /\ (last = <<>> \/ Before(last, k))}
  BY <1>3 DEF Ahead
<1>5. ASSUME NEW k \in Ahead
      PROVE  k \in {Key(l) : l \in Own \ Seen}
  <2>1. k \in db /\ ~Before(k, p) /\ Before(k, PrefixLimit(p)) /\ (last = <<>> \/ Before(last, k))
    BY <1>4
  <2>2. \A l \in lines : k # EncodeLogKey(l.stream, l.ts)
    BY <1>1, <1>2, <1>3, <2>1, LogKeysBefore
  <2>3. PICK l \in lines : k = Key(l)
    BY <1>1, <2>1, <2>2
  <2>4. l.term = scan.term
    BY <1>1, <1>2, <1>3, <2>1, <2>3, InRange
  <2>5. l \in Own \ Seen
    BY <2>1, <2>3, <2>4 DEF Own, Seen
  <2> QED BY <2>3, <2>5
<1>6. ASSUME NEW l \in Own \ Seen
      PROVE  Key(l) \in Ahead
  <2>1. l \in lines /\ l.term = scan.term /\ (last = <<>> \/ Before(last, Key(l)))
    BY DEF Own, Seen
  <2>2. Key(l) \in db /\ ~Before(Key(l), p) /\ Before(Key(l), PrefixLimit(p))
    BY <1>1, <1>2, <1>3, <2>1, InRange
  <2> QED BY <1>4, <2>1, <2>2
<1> QED BY <1>5, <1>6

(* The least key ahead belongs to the line that comes next: whatever was    *)
(* seen is less, and whatever was not is more.                              *)
LEMMA NextLine ==
  ASSUME Stored, Progress, scan # <<>>, NEW k \in Ahead, \A other \in Ahead \ {k} : Before(k, other)
  PROVE  \E l \in Own \ Seen : /\ k = Key(l) /\ DecodeIndexKey(k) = {l}
                               /\ EncodeLogKey(l.stream, l.ts) \in db
                               /\ \A x \in Seen : Less(x, l)
                               /\ \A x \in Own \ Seen : x # l => Less(l, x)
<1>1. PICK l \in Own \ Seen : k = Key(l)
  BY AheadExact
<1>2. \A x \in Own : x \in Line /\ x \in lines /\ x.term = scan.term /\ x.ts \in Int /\ x.stream \in Int
  BY OwnLines
<1>3. DecodeIndexKey(k) = {l}
  BY <1>1, <1>2, KeyDecodes
<1>4. EncodeLogKey(l.stream, l.ts) \in db
  BY <1>2 DEF Stored
<1>5. ASSUME NEW x \in Seen
      PROVE  Less(x, l)
  <2>1. x \in Own /\ last # <<>> /\ ~Before(last, Key(x)) /\ Before(last, Key(l))
    BY DEF Seen
  <2>2. PICK at \in Own : last = Key(at)
    BY <2>1 DEF Progress
  <2>3. ~Less(at, x) /\ Less(at, l)
    BY <1>2, <2>1, <2>2, KeyOrder
  <2> QED BY <1>2, <2>1, <2>2, <2>3 DEF Less
<1>6. ASSUME NEW x \in Own \ Seen, x # l
      PROVE  Less(l, x)
  <2>1. Key(x) \in Ahead
    BY AheadExact
  <2>2. Key(x) # k
    BY <1>1, <1>2, <1>6, KeyOfOneLine
  <2>3. Before(k, Key(x))
    BY <2>1, <2>2
  <2> QED BY <1>1, <1>2, <2>3, KeyOrder
<1> QED BY <1>1, <1>3, <1>4, <1>5, <1>6

LEMMA WriteKeeps ==
  ASSUME ScanInv, NEW t \in Terms, NEW ts \in Stamps, NEW f \in Facilities, Write(t, ts, f)
  PROVE  ScanInv'
<1>1. PICK l : l = [term |-> t, ts |-> ts, stream |-> Unsigned(f)]
  OBVIOUS
<1>2. /\ scan = <<>> /\ UNCHANGED <<scan, last, found, done>>
      /\ lines' = lines \cup {l}
      /\ db' = db \cup {EncodeLogKey(l.stream, l.ts), Key(l)}
  BY <1>1 DEF Write, Key
<1>3. l \in Line
  <2>1. Modulus \in Nat \ {0} /\ f \in Int
    BY StampsAreNumbers, KeySchemaAssumption
  <2>2. Unsigned(f) \in Numbers
    BY <2>1 DEF Unsigned, Numbers
  <2> QED BY <1>1, <2>2 DEF Line
<1>4. /\ lines \subseteq Line /\ found \in Seq(Int \X Int) /\ done \in BOOLEAN
      /\ db = {EncodeLogKey(x.stream, x.ts) : x \in lines} \cup {Key(x) : x \in lines}
      /\ last = <<>> /\ found = <<>> /\ ~done
  BY <1>2 DEF ScanInv, Stored
<1>5. db' = {EncodeLogKey(x.stream, x.ts) : x \in lines'} \cup {Key(x) : x \in lines'}
  BY <1>2, <1>4
<1>6. Stored'
  BY <1>2, <1>3, <1>4, <1>5 DEF Stored, Key
<1> QED BY <1>2, <1>4, <1>6 DEF ScanInv

LEMMA NewIteratorKeeps ==
  ASSUME ScanInv, NEW t \in Terms, NEW a \in Stamps, NEW b \in Stamps, NewIterator(t, a, b)
  PROVE  ScanInv'
<1>1. /\ scan = <<>> /\ scan' = [term |-> t, start |-> a, end |-> b]
      /\ UNCHANGED <<lines, db, last, found, done>>
  BY DEF NewIterator
<1>2. last = <<>> /\ found = <<>> /\ ~done /\ Stored
  BY <1>1 DEF ScanInv
<1>3. scan' # <<>> /\ Stored'
  BY <1>1, <1>2, NewScan DEF Stored, Key
<1>4. Seen' = {} /\ Matches(Seen)' = {}
  BY <1>1, <1>2 DEF Seen, Matches
<1>5. {found[i] : i \in 1 .. Len(found)}' = {} /\ Sorted(found)'
  BY <1>1, <1>2 DEF Sorted
<1>6. Progress'
  BY <1>1, <1>2, <1>4, <1>5 DEF Progress
<1> QED BY <1>3, <1>6 DEF ScanInv

LEMMA IterNextKeeps ==
  ASSUME ScanInv, IterNext
  PROVE  ScanInv'
<1>1. scan # <<>> /\ ~done /\ Stored /\ Progress /\ UNCHANGED <<lines, db, scan>>
  BY DEF ScanInv, IterNext
<1>2. PICK k \in Ahead :
        /\ \A other \in Ahead \ {k} : Before(k, other)
        /\ last' = k
        /\ \/ (\A d \in DecodeIndexKey(k) : d.ts < scan.start) /\ UNCHANGED <<found, done>>
           \/ \E d \in DecodeIndexKey(k) : d.ts > scan.end /\ done' = TRUE /\ UNCHANGED found
           \/ \E d \in DecodeIndexKey(k) :
                /\ d.ts \in scan.start .. scan.end
                /\ found' = IF EncodeLogKey(d.stream, d.ts) \in db
                            THEN Append(found, <<d.ts, d.stream>>) ELSE found
                /\ UNCHANGED done
  BY DEF IterNext
<1>3. PICK l \in Own \ Seen : /\ k = Key(l) /\ DecodeIndexKey(k) = {l}
                              /\ EncodeLogKey(l.stream, l.ts) \in db
                              /\ \A x \in Seen : Less(x, l)
                              /\ \A x \in Own \ Seen : x # l => Less(l, x)
  BY <1>1, <1>2, NextLine
<1>4. /\ \A x \in Own : x \in Line /\ x.term = scan.term /\ x.ts \in Int /\ x.stream \in Int
      /\ scan.start \in Int /\ scan.end \in Int
  BY <1>1, OwnLines
<1>5. Own' = Own /\ \A x : Wanted(x)' <=> Wanted(x)
  BY <1>1 DEF Own, Wanted
<1>6. Seen' = Seen \cup {l}
  <2>1. k # <<>>
    <3>1. k \in Seq(Bytes) /\ Len(k) = Len(l.term) + 2 + 2 * Width
      BY <1>3, <1>4, KeyBytes
    <3>2. Len(l.term) \in Nat /\ Width \in Nat
      BY <1>3, <1>4, PrefixBytes, KeySchemaAssumption DEF Line
    <3>3. \A a, w \in Nat : a + 2 + 2 * w # 0
      OBVIOUS
    <3> QED BY <3>1, <3>2, <3>3
  <2>2. Seen' = {x \in Own : ~Before(k, Key(x))}
    BY <1>2, <1>5, <2>1 DEF Seen, Key
  <2>3. \A x \in Own : Before(k, Key(x)) <=> Less(l, x)
    BY <1>3, <1>4, KeyOrder
  <2>4. ~Less(l, l)
    BY <1>4 DEF Less
  <2>5. \A x \in Seen : x \in Own /\ ~Less(l, x)
    <3>1. \A x \in Seen : x \in Own
      BY DEF Seen
    <3> QED BY <1>3, <1>4, <3>1 DEF Less
  <2> QED BY <1>3, <2>2, <2>3, <2>4, <2>5
<1>7. Matches(Seen)' = Matches(Seen) \cup (IF Wanted(l) THEN {<<l.ts, l.stream>>} ELSE {})
  BY <1>5, <1>6 DEF Matches
<1>8. last' # <<>> => \E at \in Own' : last' = Key(at)
  BY <1>2, <1>3, <1>5
<1>9. /\ found \in Seq(Int \X Int) /\ done \in BOOLEAN /\ Sorted(found)
      /\ {found[i] : i \in 1 .. Len(found)} = Matches(Seen)
  BY <1>1 DEF Stored, Progress
<1>10. CASE l.ts \in scan.start .. scan.end
  <2>1. Wanted(l)
    BY <1>10 DEF Wanted
  <2>2. found' = Append(found, <<l.ts, l.stream>>) /\ done' = done
    BY <1>1, <1>2, <1>3, <1>4, <1>10
  <2>3. PICK n : n = Len(found)
    OBVIOUS
  <2>4. /\ n \in Nat /\ found' \in Seq(Int \X Int) /\ Len(found') = n + 1
        /\ found'[n + 1] = <<l.ts, l.stream>> /\ \A i \in 1 .. n : found'[i] = found[i]
    BY <1>3, <1>4, <1>9, <2>2, <2>3
  <2>5. {found'[i] : i \in 1 .. Len(found')} = {found[i] : i \in 1 .. n} \cup {<<l.ts, l.stream>>}
    BY <2>4
  <2>6. Sorted(found')
    <3>1. ASSUME NEW i \in 1 .. n
          PROVE  found[i][1] < l.ts \/ (found[i][1] = l.ts /\ found[i][2] < l.stream)
      <4>1. found[i] \in Matches(Seen)
        BY <1>9, <2>3
      <4>2. PICK x \in Seen : found[i] = <<x.ts, x.stream>>
        BY <4>1 DEF Matches
      <4> QED BY <1>3, <4>2 DEF Less
    <3>2. ASSUME NEW i \in 1 .. n + 1, NEW j \in 1 .. n + 1, i < j
          PROVE  \/ found'[i][1] < found'[j][1]
                 \/ (found'[i][1] = found'[j][1] /\ found'[i][2] < found'[j][2])
      <4>1. i \in 1 .. n
        BY <2>4, <3>2
      <4>2. CASE j = n + 1
        <5>1. found'[i] = found[i] /\ found'[j] = <<l.ts, l.stream>>
          BY <2>4, <4>1, <4>2
        <5> QED BY <3>1, <4>1, <5>1
      <4>3. CASE j # n + 1
        <5>1. j \in 1 .. n
          BY <2>4, <4>3
        <5>2. \/ found[i][1] < found[j][1]
              \/ (found[i][1] = found[j][1] /\ found[i][2] < found[j][2])
          BY <1>9, <2>3, <3>2, <4>1, <5>1 DEF Sorted
        <5>3. found'[i] = found[i] /\ found'[j] = found[j]
          BY <2>4, <4>1, <5>1
        <5> QED BY <5>2, <5>3
      <4> QED BY <4>2, <4>3
    <3> QED BY <2>4, <3>2 DEF Sorted
  <2>7. Progress'
    BY <1>1, <1>7, <1>8, <1>9, <2>1, <2>2, <2>3, <2>5, <2>6 DEF Progress
  <2>8. Stored'
    BY <1>1, <2>2, <2>4 DEF Stored, Key
  <2> QED BY <1>1, <2>7, <2>8 DEF ScanInv
<1>11. CASE l.ts \notin scan.start .. scan.end
  <2>1. ~Wanted(l)
    BY <1>11 DEF Wanted
  <2>2. found' = found /\ done' \in BOOLEAN /\ (done' => l.ts > scan.end)
    <3>1. CASE l.ts < scan.start /\ UNCHANGED <<found, done>>
      BY <1>1, <1>9, <3>1
    <3>2. CASE l.ts > scan.end /\ done' = TRUE /\ UNCHANGED found
      BY <3>2
    <3> QED BY <1>2, <1>3, <1>11, <3>1, <3>2
  <2>3. Matches(Seen)' = Matches(Seen) /\ Sorted(found)'
    BY <1>7, <1>9, <2>1, <2>2 DEF Sorted
  <2>4. ASSUME done', NEW x \in Own, Wanted(x), x \notin Seen \cup {l}
        PROVE  FALSE
    <3>1. Less(l, x) /\ l.ts > scan.end
      BY <1>3, <2>2, <2>4
    <3> QED BY <1>3, <1>4, <2>4, <3>1 DEF Less, Wanted
  <2>5. Progress'
    BY <1>5, <1>6, <1>8, <1>9, <2>2, <2>3, <2>4 DEF Progress
  <2>6. Stored'
    BY <1>1, <2>2 DEF Stored, Key
  <2> QED BY <1>1, <2>5, <2>6 DEF ScanInv
<1> QED BY <1>10, <1>11

LEMMA IterEndKeeps ==
  ASSUME ScanInv, IterEnd
  PROVE  ScanInv'
<1>1. /\ scan # <<>> /\ Stored /\ Progress /\ Ahead = {} /\ done' = TRUE
      /\ UNCHANGED <<lines, db, scan, last, found>>
  BY DEF ScanInv, IterEnd
<1>2. Own \ Seen = {}
  BY <1>1, AheadExact
<1>3. Own' = Own /\ Seen' = Seen /\ Matches(Seen)' = Matches(Seen) /\ \A x : Wanted(x)' <=> Wanted(x)
  BY <1>1 DEF Own, Seen, Matches, Wanted, Key
<1>4. Progress'
  BY <1>1, <1>2, <1>3 DEF Progress, Sorted, Key
<1>5. Stored'
  BY <1>1 DEF Stored, Key
<1> QED BY <1>1, <1>4, <1>5 DEF ScanInv

LEMMA ScanInvariant == KeySpec => []ScanInv
<1>1. ScanInv /\ [KeyNext]_keyVars => ScanInv'
  <2> SUFFICES ASSUME ScanInv, [KeyNext]_keyVars
               PROVE  ScanInv'
    OBVIOUS
  <2>1. CASE \E t \in Terms, ts \in Stamps, f \in Facilities : Write(t, ts, f)
    BY <2>1, WriteKeeps
  <2>2. CASE \E t \in Terms, a \in Stamps, b \in Stamps : NewIterator(t, a, b)
    BY <2>2, NewIteratorKeeps
  <2>3. CASE IterNext
    BY <2>3, IterNextKeeps
  <2>4. CASE IterEnd
    BY <2>4, IterEndKeeps
  <2>5. CASE UNCHANGED keyVars
    <3>1. UNCHANGED <<lines, db, scan, last, found, done>>
      BY <2>5 DEF keyVars
    <3>2. Stored' <=> Stored
      BY <3>1 DEF Stored, Key
    <3>3. Progress' <=> Progress
      BY <3>1 DEF Progress, Own, Seen, Matches, Wanted, Sorted, Key
    <3> QED BY <3>1, <3>2, <3>3 DEF ScanInv
  <2> QED BY <2>1, <2>2, <2>3, <2>4, <2>5 DEF KeyNext
<1> QED BY <1>1, ScanInit, PTL DEF KeySpec

(* Whatever the width of numbers and the terms, stamps and facilities, a    *)
(* scan that is over has found the lines of its term in the window, no line *)
(* of another term, and found them oldest first (schema.go:32-43,           *)
(* query.go:74-98).                                                 *)
THEOREM ScanExactCorrect == KeySpec => []ScanExact
<1>1. ScanInv => ScanExact
  <2> SUFFICES ASSUME ScanInv, done
               PROVE  /\ {found[i] : i \in 1 .. Len(found)}
                           = {<<l.ts, l.stream>> : l \in {x \in lines : x.term = scan.term
                                                                    /\ x.ts \in scan.start .. scan.end}}
                      /\ \A i, j \in 1 .. Len(found) :
                           i < j => \/ found[i][1] < found[j][1]
                                    \/ (found[i][1] = found[j][1] /\ found[i][2] < found[j][2])
    BY DEF ScanExact
  <2>1. Progress
    BY DEF ScanInv
  <2>2. {x \in Seen : Wanted(x)} = {x \in lines : x.term = scan.term /\ x.ts \in scan.start .. scan.end}
    <3>1. \A x \in Own : Wanted(x) => x \in Seen
      BY <2>1 DEF Progress
    <3> QED BY <3>1 DEF Seen, Own, Wanted
  <2>3. {found[i] : i \in 1 .. Len(found)} = {<<l.ts, l.stream>> : l \in {x \in Seen : Wanted(x)}}
    BY <2>1 DEF Progress, Matches
  <2>4. Sorted(found)
    BY <2>1 DEF Progress
  <2> QED BY <2>2, <2>3, <2>4 DEF Sorted
<1> QED BY <1>1, ScanInvariant, PTL

----------------------------------------------------------------------------
(* The bytes of the words *)

LEMMA LengthsKnown ==
  ASSUME NEW ws \in Seq(Words)
  PROVE  Len(ws) \in Nat /\ \A i \in 1 .. Len(ws) : ws[i] \in Words /\ LengthOf[ws[i]] \in Nat \ {0}
<1>1. LengthOf \in [Words -> Nat \ {0}]
  BY TextPathAssumption
<1>2. Len(ws) \in Nat /\ \A i \in 1 .. Len(ws) : ws[i] \in Words
  OBVIOUS
<1> QED BY <1>1, <1>2

(* f counts the bytes of the first n words, up to n = m.                    *)
Counts(ws, m, f) ==
  /\ f \in [0 .. m -> Int] /\ f[0] = -1
  /\ \A n \in 1 .. m : f[n] = f[n - 1] + LengthOf[ws[n]] + 1

(* There is such a count: the least m without one would have one, which     *)
(* continues that of m - 1.                                                 *)
LEMMA CountsExist ==
  ASSUME NEW ws \in Seq(Words)
  PROVE  \E f : Counts(ws, Len(ws), f)
<1> DEFINE Bad == {m \in 0 .. Len(ws) : ~\E f : Counts(ws, m, f)}
<1>1. ASSUME NEW m \in Bad, \A k \in Bad : m <= k
      PROVE  FALSE
  <2>1. m \in 0 .. Len(ws) /\ Len(ws) \in Nat
    OBVIOUS
  <2>2. CASE m = 0
    <3>1. PICK f : f = [n \in 0 .. 0 |-> -1]
      OBVIOUS
    <3>2. Counts(ws, 0, f)
      BY <3>1 DEF Counts
    <3> QED BY <2>2, <3>2
  <2>3. CASE m # 0
    <3>1. m - 1 \in 0 .. Len(ws) /\ m - 1 \notin Bad
      <4>1. m - 1 \in 0 .. Len(ws) /\ (m - 1 \in Bad => m <= m - 1)
        BY <1>1, <2>1, <2>3
      <4> HIDE DEF Bad
      <4> QED BY <2>1, <4>1
    <3>2. PICK g : Counts(ws, m - 1, g)
      BY <3>1
    <3>3. PICK f : f = [n \in 0 .. m |-> IF n = m THEN g[m - 1] + LengthOf[ws[m]] + 1 ELSE g[n]]
      OBVIOUS
    <3>4. m \in Nat \ {0} /\ LengthOf[ws[m]] \in Nat
      BY <2>1, <2>3, LengthsKnown
    <3>5. g[m - 1] \in Int
      BY <3>2, <3>4 DEF Counts
    <3>6. f \in [0 .. m -> Int] /\ f[0] = -1
      BY <3>2, <3>3, <3>4, <3>5 DEF Counts
    <3>7. \A n \in 1 .. m : f[n] = f[n - 1] + LengthOf[ws[n]] + 1
      <4> TAKE n \in 1 .. m
      <4>1. CASE n = m
        BY <3>3, <3>4, <4>1
      <4>2. CASE n # m
        <5>1. n \in 1 .. m - 1 /\ n - 1 \in 0 .. m /\ n - 1 # m
          BY <3>4, <4>2
        <5> QED BY <3>2, <3>3, <3>4, <4>2, <5>1 DEF Counts
      <4> QED BY <4>1, <4>2
    <3>8. Counts(ws, m, f)
      BY <3>6, <3>7 DEF Counts
    <3> QED BY <3>8
  <2> QED BY <2>2, <2>3
<1>2. Bad = {}
  <2> SUFFICES ASSUME Bad # {}
               PROVE  FALSE
    OBVIOUS
  <2>1. Bad \in SUBSET Nat
    OBVIOUS
  <2> HIDE DEF Bad
  <2> QED BY <1>1, <2>1, LeastNumber
<1>3. Len(ws) \in 0 .. Len(ws)
  BY LengthsKnown
<1> QED BY <1>2, <1>3

LEMMA OffsetSteps ==
  ASSUME NEW ws \in Seq(Words)
  PROVE  /\ \A k \in 0 .. Len(ws) : Offset(ws, k) \in Int
         /\ Offset(ws, 0) = -1
         /\ \A k \in 1 .. Len(ws) : Offset(ws, k) = Offset(ws, k - 1) + LengthOf[ws[k]] + 1
<1> DEFINE Step(f) == [n \in 0 .. Len(ws) |-> IF n = 0 THEN -1 ELSE f[n - 1] + LengthOf[ws[n]] + 1]
           bytes == CHOOSE f : f = Step(f)
<1>1. PICK f : Counts(ws, Len(ws), f)
  BY CountsExist
<1>2. f = Step(f)
  BY <1>1 DEF Counts
<1>3. bytes = Step(bytes)
  BY <1>2
<1>4. \A k : Offset(ws, k) = bytes[k]
  BY DEF Offset
<1>5. Counts(ws, Len(ws), bytes)
  <2> DEFINE Wrong == {n \in 0 .. Len(ws) : bytes[n] # f[n]}
  <2>1. /\ bytes = [n \in 0 .. Len(ws) |-> bytes[n]]
        /\ \A n \in 0 .. Len(ws) : bytes[n] = IF n = 0 THEN -1 ELSE bytes[n - 1] + LengthOf[ws[n]] + 1
    BY <1>3
  <2> HIDE DEF bytes
  <2>2. ASSUME NEW n \in Wrong, \A k \in Wrong : n <= k
        PROVE  FALSE
    <3>1. n \in 0 .. Len(ws) /\ Len(ws) \in Nat /\ bytes[n] # f[n]
      BY LengthsKnown
    <3>2. n # 0
      BY <1>1, <2>1, <3>1 DEF Counts
    <3>3. n - 1 \in 0 .. Len(ws) /\ n - 1 \notin Wrong
      <4>1. n - 1 \in 0 .. Len(ws) /\ (n - 1 \in Wrong => n <= n - 1)
        BY <2>2, <3>1, <3>2
      <4> HIDE DEF Wrong
      <4> QED BY <3>1, <4>1
    <3>4. bytes[n - 1] = f[n - 1]
      BY <3>3
    <3>5. bytes[n] = bytes[n - 1] + LengthOf[ws[n]] + 1
      BY <2>1, <3>1, <3>2
    <3>6. n \in 1 .. Len(ws) /\ f[n] = f[n - 1] + LengthOf[ws[n]] + 1
      <4>1. n \in 1 .. Len(ws)
        BY <3>1, <3>2
      <4> QED BY <1>1, <4>1 DEF Counts
    <3> QED BY <3>1, <3>4, <3>5, <3>6
  <2>3. Wrong = {}
    <3> SUFFICES ASSUME Wrong # {}
                 PROVE  FALSE
      OBVIOUS
    <3>1. Wrong \in SUBSET Nat
      OBVIOUS
    <3> HIDE DEF Wrong
    <3> QED BY <2>2, <3>1, LeastNumber
  <2>4. \A n \in 0 .. Len(ws) : bytes[n] = f[n]
    BY <2>3
  <2>5. bytes = f
    BY <1>1, <2>1, <2>4 DEF Counts
  <2> QED BY <1>1, <2>5
<1> HIDE DEF bytes
<1> QED BY <1>4, <1>5, LengthsKnown DEF Counts

(* A word begins behind every word before it.                               *)
LEMMA OffsetGrows ==
  ASSUME NEW ws \in Seq(Words), NEW i \in 0 .. Len(ws), NEW j \in 0 .. Len(ws), i < j
  PROVE  Offset(ws, i) < Offset(ws, j)
<1>1. PICK N : N = Len(ws)
  OBVIOUS
<1>2. /\ N \in Nat /\ \A k \in 0 .. N : Offset(ws, k) \in Int
      /\ \A k \in 1 .. N : Offset(ws, k - 1) < Offset(ws, k)
  <2>1. N \in Nat /\ \A k \in 0 .. N : Offset(ws, k) \in Int
    BY <1>1, OffsetSteps, LengthsKnown
  <2>2. ASSUME NEW k \in 1 .. N
        PROVE  Offset(ws, k - 1) < Offset(ws, k)
    <3>1. k - 1 \in 0 .. N /\ k \in 0 .. N
      BY <2>1
    <3>2. PICK b, l : b = Offset(ws, k - 1) /\ l = LengthOf[ws[k]]
      OBVIOUS
    <3>3. b \in Int /\ l \in Nat /\ Offset(ws, k) = b + l + 1
      BY <1>1, <2>1, <3>1, <3>2, OffsetSteps, LengthsKnown
    <3> QED BY <3>2, <3>3
  <2> QED BY <2>1, <2>2
<1> DEFINE Bad == {k \in i + 1 .. N : ~(Offset(ws, i) < Offset(ws, k))}
<1>3. ASSUME NEW k \in Bad, \A m \in Bad : k <= m
      PROVE  FALSE
  <2>1. k \in i + 1 .. N /\ i \in 0 .. N
    BY <1>1
  <2>2. CASE k = i + 1
    BY <1>2, <2>1, <2>2
  <2>3. CASE k # i + 1
    <3>1. k - 1 \in i + 1 .. N /\ (k - 1 \in Bad => k <= k - 1)
      BY <1>2, <1>3, <2>1, <2>3
    <3>2. k - 1 \notin Bad
      <4> HIDE DEF Bad
      <4> QED BY <1>2, <2>1, <3>1
    <3>3. Offset(ws, i) < Offset(ws, k - 1)
      BY <3>1, <3>2
    <3> QED BY <1>2, <2>1, <3>1, <3>3
  <2> QED BY <2>2, <2>3
<1>4. Bad = {}
  <2> SUFFICES ASSUME Bad # {}
               PROVE  FALSE
    OBVIOUS
  <2>1. Bad \in SUBSET Nat
    BY <1>1, <1>2
  <2> HIDE DEF Bad
  <2> QED BY <1>3, <2>1, LeastNumber
<1> QED BY <1>1, <1>2, <1>4

----------------------------------------------------------------------------
(* What the parser and the tokenizer make of a line *)

LEMMA LinesKnown ==
  ASSUME NEW l \in Lines
  PROVE  l.words \in Seq(Words)
BY TextPathAssumption

(* A timestamp is taken off with the space behind it, and nothing else.     *)
LEMMA StampTakenOff ==
  ASSUME NEW ws \in Seq(Words), Len(ws) > 4,
         LengthOf[ws[1]] = 3, LengthOf[ws[2]] = 2, LengthOf[ws[3]] = 8
  PROVE  AfterStamp(ws) = SubSeq(ws, 4, Len(ws))
<1>1. Len(ws) \in Nat /\ 0 \in 0 .. Len(ws) /\ 1 \in 0 .. Len(ws) /\ 2 \in 0 .. Len(ws) /\ 3 \in 0 .. Len(ws)
  BY LengthsKnown
<1>2. Offset(ws, 0) = -1 /\ Offset(ws, 1) = Offset(ws, 0) + 3 + 1
  BY <1>1, OffsetSteps
<1>3. Offset(ws, 2) = Offset(ws, 1) + 2 + 1 /\ Offset(ws, 3) = Offset(ws, 2) + 8 + 1
  <2>1. 2 \in 1 .. Len(ws) /\ 2 - 1 = 1 /\ 3 \in 1 .. Len(ws) /\ 3 - 1 = 2
    BY <1>1
  <2> QED BY <2>1, OffsetSteps
<1>4. Offset(ws, 1) = 3 /\ Offset(ws, 2) = 6 /\ Offset(ws, 3) = 15
  BY <1>2, <1>3
<1>5. SpaceAt(ws, 3) /\ SpaceAt(ws, 6) /\ SpaceAt(ws, 15)
  BY <1>1, <1>4 DEF SpaceAt
<1>6. ASSUME NEW k \in 1 .. Len(ws), Offset(ws, k) = 15
      PROVE  k = 3
  <2>1. k \in 0 .. Len(ws) /\ k \in Int
    BY <1>1
  <2>2. k < 3 => Offset(ws, k) < 15
    BY <1>1, <1>4, <2>1, OffsetGrows
  <2>3. 3 < k => 15 < Offset(ws, k)
    BY <1>1, <1>4, <2>1, OffsetGrows
  <2> QED BY <1>6, <2>1, <2>2, <2>3
<1>7. PICK c : c = CHOOSE k \in 1 .. Len(ws) : Offset(ws, k) = 15
  OBVIOUS
<1>8. c = 3
  <2>1. 3 \in 1 .. Len(ws)
    BY <1>1
  <2>2. c \in 1 .. Len(ws) /\ Offset(ws, c) = 15
    BY <1>4, <1>7, <2>1
  <2> QED BY <1>6, <2>2
<1>9. AfterStamp(ws) = SubSeq(ws, 1 + c, Len(ws))
  BY <1>5, <1>7 DEF AfterStamp
<1>10. 1 + c = 4
  BY <1>8
<1> QED BY <1>9, <1>10

LEMMA SyslogParsed ==
  ASSUME NEW l \in Lines, IsSyslog(l)
  PROVE  /\ ParseSyslogRFC3164(l).hostname = l.words[4]
         /\ ParseSyslogRFC3164(l).message = MessageOf(l)
<1>1. PICK ws, n, rest : ws = l.words /\ n = Len(ws) /\ rest = AfterStamp(ws)
  OBVIOUS
<1>2. ws \in Seq(Words) /\ n \in Nat /\ n > 4 /\ rest = SubSeq(ws, 4, n)
  BY <1>1, LinesKnown, StampTakenOff, LengthsKnown DEF IsSyslog
<1>3. 4 \in Int /\ n \in Int /\ \A i \in 4 .. n : ws[i] \in Words
  BY <1>1, <1>2, LengthsKnown
<1>4. Len(rest) = n - 3 /\ rest[1] = ws[4]
  <2>1. Len(rest) = (IF 4 <= n THEN n - 4 + 1 ELSE 0) /\ \A i \in 1 .. n - 4 + 1 : rest[i] = ws[4 + i - 1]
    BY <1>2, <1>3, SubSeqProperties
  <2>2. 1 \in 1 .. n - 4 + 1 /\ 4 + 1 - 1 = 4 /\ n - 4 + 1 = n - 3 /\ 4 <= n
    BY <1>2
  <2> QED BY <2>1, <2>2
<1>5. Len(rest) > 1 /\ Tail(rest) = SubSeq(ws, 5, n)
  <2>1. 4 \in 1 .. Len(ws) /\ n \in 4 .. Len(ws) /\ 4 + 1 = 5
    BY <1>1, <1>2
  <2> QED BY <1>2, <1>4, <2>1, HeadTailOfSubSeq
<1>6. /\ ParseSyslogRFC3164(l).hostname = rest[1]
      /\ ParseSyslogRFC3164(l).message = Tail(rest)
  BY <1>1, <1>5 DEF ParseSyslogRFC3164
<1> QED BY <1>1, <1>4, <1>5, <1>6 DEF MessageOf

LEMMA PlainParsed ==
  ASSUME NEW l \in Lines, IsPlainText(l)
  PROVE  ParseSyslogRFC3164(l).message = IF Len(l.words) > 1 THEN Tail(l.words) ELSE l.words
<1>1. AfterStamp(l.words) = l.words
  BY DEF IsPlainText, AfterStamp
<1> QED BY <1>1 DEF ParseSyslogRFC3164

(* The index holds the terms of a message that a search should find it by.  *)
LEMMA TokenizeExact ==
  ASSUME NEW ws \in Seq(Words)
  PROVE  Tokenize(ws) = TermsIn(ws)
<1>1. FieldsOf \in [Words -> SUBSET Fields]
  BY TextPathAssumption
<1>2. \A i \in 1 .. Len(ws) : FieldsOf[ws[i]] \subseteq Fields
  BY <1>1, LengthsKnown
<1>3. {g \in UNION {FieldsOf[ws[i]] : i \in 1 .. Len(ws)} : SizeOf[g] \in 2 .. 64}
        = {g \in Fields : SizeOf[g] \in 2 .. 64 /\ \E i \in 1 .. Len(ws) : g \in FieldsOf[ws[i]]}
  BY <1>2
<1> QED BY <1>3 DEF Tokenize, TermsIn

LEMMA FewerTerms ==
  ASSUME NEW ws \in Seq(Words)
  PROVE  TermsIn(IF Len(ws) > 1 THEN Tail(ws) ELSE ws) \subseteq TermsIn(ws)
<1>1. PICK n, rest : n = Len(ws) /\ rest = Tail(ws)
  OBVIOUS
<1>2. CASE n > 1
  <2>1. n \in Nat /\ ws # <<>>
    BY <1>1, <1>2, LengthsKnown, EmptySeq
  <2>2. PICK m : m = Len(rest)
    OBVIOUS
  <2>3. m = n - 1 /\ \A i \in 1 .. m : rest[i] = ws[i + 1]
    BY <1>1, <2>1, <2>2, HeadTailProperties
  <2>4. \A i \in 1 .. m : i + 1 \in 1 .. n
    BY <2>1, <2>3
  <2>5. \A i \in 1 .. m : \E j \in 1 .. n : rest[i] = ws[j]
    BY <2>3, <2>4
  <2>6. TermsIn(rest) \subseteq TermsIn(ws)
    BY <1>1, <2>2, <2>5 DEF TermsIn
  <2> QED BY <1>1, <1>2, <2>6
<1> QED BY <1>1, <1>2

LEMMA MessageWords ==
  ASSUME NEW l \in Lines
  PROVE  ParseSyslogRFC3164(l).message \in Seq(Words)
<1>1. PICK ws, rest : ws = l.words /\ rest = AfterStamp(ws)
  OBVIOUS
<1>2. ws \in Seq(Words) /\ Len(ws) \in Nat
  BY <1>1, LinesKnown, LengthsKnown
<1>3. rest \in Seq(Words)
  <2>1. CASE SpaceAt(ws, 3) /\ SpaceAt(ws, 6) /\ SpaceAt(ws, 15)
    <3>1. PICK c : c = CHOOSE k \in 1 .. Len(ws) : Offset(ws, k) = 15
      OBVIOUS
    <3>2. \E k \in 1 .. Len(ws) : Offset(ws, k) = 15
      <4>1. PICK k \in 1 .. Len(ws) - 1 : Offset(ws, k) = 15
        BY <2>1 DEF SpaceAt
      <4>2. k \in 1 .. Len(ws)
        BY <1>2
      <4> QED BY <4>1, <4>2
    <3>3. c \in 1 .. Len(ws)
      BY <3>1, <3>2
    <3>4. rest = SubSeq(ws, 1 + c, Len(ws))
      BY <1>1, <2>1, <3>1 DEF AfterStamp
    <3> QED BY <1>2, <3>3, <3>4
  <2>2. CASE ~(SpaceAt(ws, 3) /\ SpaceAt(ws, 6) /\ SpaceAt(ws, 15))
    BY <1>1, <1>2, <2>2 DEF AfterStamp
  <2> QED BY <2>1, <2>2
<1>4. Len(rest) > 1 => Tail(rest) \in Seq(Words)
  BY <1>3
<1> QED BY <1>1, <1>3, <1>4 DEF ParseSyslogRFC3164

----------------------------------------------------------------------------
(* The steps *)

(* What a line and a query come to.                                         *)
Shows ==
  /\ PrimaryTerm(query) \in Tokenize(ParseSyslogRFC3164(line).message)
  /\ PassesLabels(Normalized(ParseSyslogRFC3164(line).message), query.labels)

TextInv ==
  /\ line \in Lines /\ query \in Queries /\ step \in {"new", "stored", "shown"}
  /\ step # "new" => /\ parsed = ParseSyslogRFC3164(line)
                     /\ tokens = Tokenize(parsed.message)
  /\ step = "shown" => (shown <=> Shows)

LEMMA TextInvariant == Spec => []TextInv
<1>1. Init => TextInv
  BY DEF Init, TextInv
<1>2. TextInv /\ [Next]_vars => TextInv'
  <2> SUFFICES ASSUME TextInv, [Next]_vars
               PROVE  TextInv'
    OBVIOUS
  <2>1. CASE Ingest
    BY <2>1 DEF TextInv, Ingest
  <2>2. CASE Search
    <3>1. UNCHANGED <<line, query, parsed, tokens>> /\ step = "stored" /\ step' = "shown"
      BY <2>2 DEF Search
    <3>2. /\ parsed = ParseSyslogRFC3164(line) /\ tokens = Tokenize(parsed.message)
      BY <3>1 DEF TextInv
    <3>3. Shows' <=> Shows
      BY <3>1 DEF Shows
    <3>4. shown' <=> Shows
      BY <2>2, <3>2 DEF Search, Shows
    <3> QED BY <3>1, <3>2, <3>3, <3>4 DEF TextInv
  <2>3. CASE UNCHANGED vars
    BY <2>3 DEF TextInv, Shows, vars
  <2> QED BY <2>1, <2>2, <2>3 DEF Next
<1> QED BY <1>1, <1>2, PTL DEF Spec

LEMMA HeadIsFirst ==
  ASSUME NEW S, NEW t \in Seq(S), t # <<>>
  PROVE  Head(t) = t[1]
<1>1. PICK n : n = Len(t)
  OBVIOUS
<1>2. n \in Nat /\ n # 0
  BY <1>1, LenProperties, EmptySeq
<1>3. 1 \in 1 .. n /\ n \in 1 .. n
  BY <1>2
<1> QED BY <1>1, <1>3, SubSeqFull, HeadTailOfSubSeq

(* A query with a term behind the pipe looks up its first.                  *)
LEMMA FirstTerm ==
  ASSUME NEW q \in Queries, q.form # "no pipe", q.terms # <<>>
  PROVE  PrimaryTerm(q) = Head(q.terms)
<1>1. q.terms \in Seq(Fields)
  BY TextPathAssumption
<1>2. Head(q.terms) = q.terms[1]
  BY <1>1, HeadIsFirst
<1> QED BY <1>2 DEF PrimaryTerm

LEMMA NoLabels ==
  ASSUME NEW entry
  PROVE  PassesLabels(entry, {})
BY DEF PassesLabels

(* Of a syslog line, whatever its words, host and message are told apart    *)
(* where its header ends, and a search without labels shows it just by the  *)
(* terms of its message (parser.go:46-60, tokenizer.go:8-28).               *)
THEOREM SyslogFindableCorrect == Spec => []SyslogFindable
<1>1. TextInv => SyslogFindable
  <2> SUFFICES ASSUME TextInv, step = "shown", IsSyslog(line)
               PROVE  /\ parsed.hostname = line.words[4] /\ parsed.message = MessageOf(line)
                      /\ (query.labels = {} /\ query.form # "no pipe" /\ query.terms # <<>>)
                           => (shown <=> Head(query.terms) \in TermsIn(MessageOf(line)))
    BY DEF SyslogFindable
  <2>1. line \in Lines /\ query \in Queries /\ parsed = ParseSyslogRFC3164(line) /\ (shown <=> Shows)
    BY DEF TextInv
  <2>2. parsed.hostname = line.words[4] /\ parsed.message = MessageOf(line)
    BY <2>1, SyslogParsed
  <2>3. Tokenize(ParseSyslogRFC3164(line).message) = TermsIn(MessageOf(line))
    BY <2>1, <2>2, MessageWords, TokenizeExact
  <2>4. ASSUME query.labels = {}, query.form # "no pipe", query.terms # <<>>
        PROVE  shown <=> Head(query.terms) \in TermsIn(MessageOf(line))
    BY <2>1, <2>3, <2>4, FirstTerm, NoLabels DEF Shows
  <2> QED BY <2>2, <2>4
<1> QED BY <1>1, TextInvariant, PTL

(* A line without a header loses its first word to the host and no other:   *)
(* every term behind it finds the line, and no label makes the line show    *)
(* for a term it does not have (parser.go:56, queryParser.js:163).          *)
THEOREM PlainTextByTermCorrect == Spec => []PlainTextByTerm
<1>1. TextInv => PlainTextByTerm
  <2> SUFFICES ASSUME TextInv, step = "shown", IsPlainText(line), query.form # "no pipe", query.terms # <<>>
               PROVE  LET term == Head(query.terms)
                          behind == IF Len(line.words) > 1 THEN Tail(line.words) ELSE line.words
                      IN /\ shown => term \in TermsIn(line.words)
                         /\ term \in TermsIn(behind) /\ query.labels = {} => shown
    BY DEF PlainTextByTerm
  <2> DEFINE behind == IF Len(line.words) > 1 THEN Tail(line.words) ELSE line.words
  <2>1. line \in Lines /\ query \in Queries /\ (shown <=> Shows)
    BY DEF TextInv
  <2>2. ParseSyslogRFC3164(line).message = behind /\ behind \in Seq(Words)
    BY <2>1, PlainParsed, MessageWords
  <2>3. Tokenize(behind) = TermsIn(behind)
    BY <2>2, TokenizeExact
  <2>4. TermsIn(behind) \subseteq TermsIn(line.words)
    <3>1. line.words \in Seq(Words)
      BY <2>1, LinesKnown
    <3> QED BY <3>1, FewerTerms
  <2>5. PrimaryTerm(query) = Head(query.terms)
    BY <2>1, FirstTerm
  <2> HIDE DEF behind
  <2>6. shown => Head(query.terms) \in TermsIn(line.words)
    BY <2>1, <2>2, <2>3, <2>4, <2>5 DEF Shows
  <2>7. Head(query.terms) \in TermsIn(behind) /\ query.labels = {} => shown
    BY <2>1, <2>2, <2>3, <2>5, NoLabels DEF Shows
  <2> QED BY <2>6, <2>7 DEF behind
<1> QED BY <1>1, TextInvariant, PTL

=============================================================================
