------------------------ MODULE SensorPayload_proofs ------------------------
(***************************************************************************)
(* What the text a node sends keeps of a temperature, for all integers:    *)
(* lemmas about Printed, PrintedTexts and ReadBack.  They all rest on the  *)
(* split of a magnitude into whole degrees and thousandths.                *)
(***************************************************************************)
EXTENDS SensorPayload, TLAPS

\* The values get_latest_sensor_value_char hands to sprintf.
PrintedText == [negative : BOOLEAN, whole : Nat, decimals : 0..99]

\* Division of a magnitude into whole degrees and thousandths.
LEMMA WholeAndRest ==
    ASSUME NEW t \in Int
    PROVE  LET m == Magnitude(t)
           IN  /\ m \in Nat
               /\ m \div 1000 \in Nat
               /\ m % 1000 \in 0..999
               /\ m = 1000 * (m \div 1000) + (m % 1000)
<1> DEFINE m == Magnitude(t)
<1>1. m \in Nat
  BY DEF Magnitude
<1> HIDE DEF m
<1>2. /\ m \div 1000 \in Nat
      /\ m % 1000 \in 0..999
      /\ m = 1000 * (m \div 1000) + (m % 1000)
  BY <1>1
<1> QED BY <1>1, <1>2 DEF m

\* Every printed text has two digits of decimals at most.
LEMMA PrintedTextType ==
    ASSUME NEW v \in Int, NEW w \in Int
    PROVE  PrintedTexts(v, w) \subseteq PrintedText
<1>1. ASSUME NEW t \in Int
      PROVE  /\ Printed(t).negative \in BOOLEAN
             /\ Printed(t).whole \in Nat
             /\ Printed(t).decimals \in 0..99
  <2>1. Magnitude(t) \div 1000 \in Nat /\ Magnitude(t) % 1000 \in 0..999
    BY WholeAndRest
  <2>2. (Magnitude(t) % 1000) \div 10 \in 0..99
    BY <2>1
  <2> QED BY <2>1, <2>2 DEF Printed
<1> QED BY <1>1 DEF PrintedTexts, PrintedText

\* Where a text of two samples comes from: sign, whole degrees and decimals
\* are each those of one of the two.
LEMMA TextOrigin ==
    ASSUME NEW v \in Int, NEW w \in Int, NEW text \in PrintedTexts(v, w)
    PROVE  \E x, y, z \in {v, w} :
              /\ text.negative <=> x < 0
              /\ text.whole = Magnitude(y) \div 1000
              /\ text.decimals = (Magnitude(z) % 1000) \div 10
<1>1. PICK x \in {v, w}, y \in {v, w}, z \in {v, w} :
        text = [negative |-> Printed(x).negative, whole |-> Printed(y).whole,
                decimals |-> Printed(z).decimals]
  BY DEF PrintedTexts
<1>2. text.negative <=> x < 0
  BY <1>1 DEF Printed
<1>3. text.whole = Magnitude(y) \div 1000
  BY <1>1 DEF Printed
<1>4. text.decimals = (Magnitude(z) % 1000) \div 10
  BY <1>1 DEF Printed
<1> QED BY <1>2, <1>3, <1>4

\* atof gives the sign and the whole degrees of the text, and less than a
\* degree of decimals; with two digits they are what was printed.
LEMMA ReadBackParts ==
    ASSUME NEW text \in PrintedText
    PROVE  LET t == ReadBack(text)
           IN  /\ t \in Int
               /\ text.negative => t <= 0
               /\ ~text.negative => t >= 0
               /\ Magnitude(t) - 1000 * text.whole \in 0..990
               /\ Magnitude(t) \div 1000 = text.whole
               /\ text.decimals >= 10 =>
                    Magnitude(t) = 1000 * text.whole + 10 * text.decimals
<1> DEFINE d == IF text.decimals < 10 THEN 100 * text.decimals ELSE 10 * text.decimals
           m == 1000 * text.whole + d
<1>1. text.negative \in BOOLEAN /\ text.whole \in Nat /\ text.decimals \in 0..99
  BY DEF PrintedText
<1>2. d \in 0..990 /\ m \in Nat
  BY <1>1
<1>3. ReadBack(text) = IF text.negative THEN -m ELSE m
  BY DEF ReadBack
<1>4. Magnitude(ReadBack(text)) = m
  BY <1>1, <1>2, <1>3 DEF Magnitude
<1>5. m \div 1000 = text.whole
  BY <1>1, <1>2
<1>6. text.decimals >= 10 => m = 1000 * text.whole + 10 * text.decimals
  BY <1>1
<1>7. m - 1000 * text.whole \in 0..990
  BY <1>1, <1>2
<1>8. /\ ReadBack(text) \in Int
      /\ text.negative => ReadBack(text) <= 0
      /\ ~text.negative => ReadBack(text) >= 0
  BY <1>2, <1>3
<1> HIDE DEF m
<1> QED BY <1>4, <1>5, <1>6, <1>7, <1>8

\* No degrees and no decimals are read as zero, whatever the sign.
LEMMA ZeroText ==
    ASSUME NEW text, text.whole = 0, text.decimals = 0
    PROVE  ReadBack(text) = 0
<1> DEFINE thousandths == IF text.decimals < 10 THEN 100 * text.decimals
                          ELSE 10 * text.decimals
           magnitude   == 1000 * text.whole + thousandths
<1>1. ReadBack(text) = IF text.negative THEN -magnitude ELSE magnitude
  BY DEF ReadBack
<1>2. magnitude = 0
  <2>1. \A w, d \in Int : w = 0 /\ d = 0
          => d < 10 /\ 100 * d = 0 /\ 1000 * w + 100 * d = 0
    OBVIOUS
  <2> QED BY <2>1
<1> HIDE DEF magnitude
<1>3. magnitude \in Int /\ magnitude >= 0 /\ magnitude <= 0
  BY <1>2
<1>4. -magnitude \in Int /\ -magnitude >= 0 /\ -magnitude <= 0
  BY <1>3
<1>5. \A k \in Int : k >= 0 /\ k <= 0 => k = 0
  OBVIOUS
<1> QED BY <1>1, <1>2, <1>4, <1>5

\* A sample whose print was not disturbed comes back with all its hundredths
\* if it has a tenth, and in any case with its sign and whole degrees.
LEMMA UndisturbedText ==
    ASSUME NEW v \in Int, NEW text \in PrintedTexts(v, v),
           (Magnitude(v) % 1000) >= 100
    PROVE  Magnitude(ReadBack(text)) = 10 * (Magnitude(v) \div 10)
<1> DEFINE q == Magnitude(v) \div 1000
           r == Magnitude(v) % 1000
<1>1. text \in PrintedText
  BY PrintedTextType
<1>2. text.whole = q /\ text.decimals = r \div 10
  BY TextOrigin
<1>3. q \in Nat /\ r \in 100..999 /\ Magnitude(v) = 1000 * q + r
  <2>1. q \in Nat /\ r \in 0..999 /\ Magnitude(v) = 1000 * q + r
    BY WholeAndRest
  <2>2. r >= 100
    OBVIOUS
  <2> HIDE DEF q, r
  <2> QED BY <2>1, <2>2
<1>4. Magnitude(ReadBack(text)) = 1000 * q + 10 * (r \div 10)
  BY <1>1, <1>2, <1>3, ReadBackParts
<1>5. (1000 * q + r) \div 10 = 100 * q + r \div 10
  BY <1>3
<1> HIDE DEF q, r
<1> QED BY <1>3, <1>4, <1>5

\* What a text keeps of its one or two samples.
LEMMA TextKeepsParts ==
    ASSUME NEW v \in Int, NEW w \in Int, NEW text \in PrintedTexts(v, w)
    PROVE  LET t == ReadBack(text)
           IN  /\ t \in Int
               /\ \E y \in {v, w} : Magnitude(t) \div 1000 = Magnitude(y) \div 1000
               /\ (\A y \in {v, w} : y < 0) => t <= 0
               /\ (\A y \in {v, w} : y > 0) => t >= 0
<1>1. text \in PrintedText
  BY PrintedTextType
<1>2. PICK x \in {v, w}, y \in {v, w} :
        (text.negative <=> x < 0) /\ text.whole = Magnitude(y) \div 1000
  BY TextOrigin
<1> DEFINE t == ReadBack(text)
<1>3. /\ t \in Int
      /\ text.negative => t <= 0
      /\ ~text.negative => t >= 0
      /\ Magnitude(t) \div 1000 = text.whole
  BY <1>1, ReadBackParts
<1> HIDE DEF t
<1>4. (\A u \in {v, w} : u < 0) => t <= 0
  BY <1>2, <1>3
<1>5. (\A u \in {v, w} : u > 0) => t >= 0
  <2> SUFFICES ASSUME \A u \in {v, w} : u > 0 PROVE t >= 0
    OBVIOUS
  <2>1. x > 0 /\ x \in Int
    OBVIOUS
  <2> QED BY <1>2, <1>3, <2>1
<1> QED BY <1>2, <1>3, <1>4, <1>5 DEF t

\* A text that mixes two samples less than a degree apart is read as less than
\* two degrees off either of them.
LEMMA TornTextIsNear ==
    ASSUME NEW v \in Int, NEW w \in Int, NEW text \in PrintedTexts(v, w),
           Magnitude(v - w) < 1000
    PROVE  /\ Magnitude(ReadBack(text) - v) < 2000
           /\ Magnitude(ReadBack(text) - w) < 2000
<1> DEFINE t == ReadBack(text)
           k == text.whole
<1>1. text \in PrintedText
  BY PrintedTextType
<1>2. PICK x \in {v, w}, y \in {v, w} :
        (text.negative <=> x < 0) /\ k = Magnitude(y) \div 1000
  BY TextOrigin
<1>3. /\ t \in Int
      /\ text.negative => t <= 0
      /\ ~text.negative => t >= 0
      /\ Magnitude(t) - 1000 * k \in 0..990
  BY <1>1, ReadBackParts
<1>4. k \in Nat
  BY <1>1 DEF PrintedText
<1> HIDE DEF t, k
<1>5. (x < 0 => t <= 0) /\ (x >= 0 => t >= 0)
  BY <1>2, <1>3
<1>6. Magnitude(y) - 1000 * k \in 0..999
  <2> DEFINE r == Magnitude(y) % 1000
  <2>1. r \in 0..999 /\ Magnitude(y) = 1000 * k + r
    BY <1>2, WholeAndRest
  <2> HIDE DEF r
  <2> QED BY <1>4, <2>1
<1>7. v - w \in -999..999
  BY DEF Magnitude
<1>8. t \in Int /\ Magnitude(t) - 1000 * k \in 0..990
  BY <1>3
<1> DEFINE b == 1000 * k
<1>9. /\ b \in Nat
      /\ Magnitude(y) \in b..(b + 999)
      /\ Magnitude(t) \in b..(b + 990)
  BY <1>4, <1>6, <1>8 DEF Magnitude
<1>10. b <= 999 => b = 0
  BY <1>4
<1> HIDE DEF b
<1>11. /\ Magnitude(v) \in (b - 999)..(b + 1998)
       /\ Magnitude(w) \in (b - 999)..(b + 1998)
  BY <1>7, <1>9 DEF Magnitude
<1>12. Magnitude(t - v) < 2000 /\ Magnitude(t - w) < 2000
  <2>1. CASE v >= 0 /\ w >= 0
    BY <1>5, <1>8, <1>9, <1>11, <2>1 DEF Magnitude
  <2>2. CASE v < 0 /\ w < 0
    BY <1>5, <1>8, <1>9, <1>11, <2>2 DEF Magnitude
  <2>3. CASE (v < 0 /\ w >= 0) \/ (w < 0 /\ v >= 0)
    <3>1. v \in -999..999 /\ w \in -999..999
      BY <1>7, <2>3
    <3>2. b = 0
      BY <1>9, <1>10, <3>1 DEF Magnitude
    <3>3. t \in -990..990
      BY <1>8, <1>9, <3>2 DEF Magnitude
    <3> QED BY <3>1, <3>3 DEF Magnitude
  <2> QED BY <2>1, <2>2, <2>3
<1> QED BY <1>12 DEF t
=============================================================================
