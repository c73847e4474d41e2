-------------------------- MODULE EncodingsProofs --------------------------
(* What Base58 and Base64 compute, for any bytes, digits and characters.    *)
EXTENDS Encodings, Induction, SequenceTheorems

(* Sequences as numbers *)

\* s has n elements of S.
IsString(s, n, S) == s \in [1 .. n -> S]

Below(b) == 0 .. b - 1

\* v are the values of the first elements of s, one to n, in base b.
IsValues(v, s, n, b) ==
  /\ v \in [0 .. n -> Nat]
  /\ v[0] = 0
  /\ \A i \in 0 .. n - 1 : v[i + 1] = v[i] * b + s[i + 1]

\* s begins with z zeros.
IsLeading(z, s, n) ==
  z \in 0 .. n /\ (\A i \in 1 .. z : s[i] = 0) /\ (z < n => s[z + 1] # 0)

LEMMA LenIs ==
  ASSUME NEW n \in Nat, NEW S, NEW s \in [1 .. n -> S]
  PROVE  Len(s) = n
  OBVIOUS

LEMMA ValuesAre ==
  ASSUME NEW n \in Nat, NEW s \in [1 .. n -> Nat], NEW b \in Nat
  PROVE  IsValues(Values(s, b), s, n, b)
<1> DEFINE step == [i \in 1 .. n |-> [v \in Nat |-> v * b + s[i]]]
<1>1. step \in Steps(Nat, n) /\ 0 \in Nat
  BY DEF Steps
<1>2. \A i \in 0 .. n - 1 : \A v \in Nat : step[i + 1][v] = v * b + s[i + 1]
  OBVIOUS
<1>3. Values(s, b) = Iterate(0, step, n)
  BY LenIs DEF Values
<1> HIDE DEF step
<1>4. IsRun(Iterate(0, step, n), Nat, 0, step, n)
  BY <1>1, Iterates
<1>5. ASSUME NEW i \in 0 .. n - 1 PROVE Values(s, b)[i + 1] = Values(s, b)[i] * b + s[i + 1]
  <2>1. Values(s, b)[i] \in Nat /\ Values(s, b)[i + 1] = step[i + 1][Values(s, b)[i]]
    BY <1>3, <1>4 DEF IsRun
  <2>2. QED BY <1>2, <2>1
<1>6. QED
  BY <1>3, <1>4, <1>5 DEF IsRun, IsValues

LEMMA LeadingZerosFound ==
  ASSUME NEW n \in Nat, NEW S, NEW s, IsString(s, n, S)
  PROVE  IsLeading(LeadingZeros(s), s, n)
<1>1. \E z \in 0 .. n : IsLeading(z, s, n)
  <2> DEFINE T == {i \in 0 .. n : i < n => s[i + 1] # 0}
  <2>1. n \in T /\ T \subseteq Nat
    OBVIOUS
  <2>2. PICK z \in T : \A y \in T : z <= y
    BY <2>1, Least
  <2>3. ASSUME NEW i \in 1 .. z PROVE s[i] = 0
    <3>1. i - 1 \in 0 .. n /\ i - 1 < z /\ (i - 1) + 1 = i
      OBVIOUS
    <3>2. i - 1 \notin T
      BY <2>2, <3>1
    <3>3. QED BY <3>1, <3>2
  <2>4. QED BY <2>2, <2>3 DEF IsLeading
<1>2. QED
  BY <1>1, LenIs DEF IsLeading, LeadingZeros, IsString

LEMMA LeadingZerosAre ==
  ASSUME NEW n \in Nat, NEW s \in [1 .. n -> Nat]
  PROVE  IsLeading(LeadingZeros(s), s, n)
  BY LeadingZerosFound DEF IsString

LEMMA OneLeading ==
  ASSUME NEW n \in Nat, NEW s \in [1 .. n -> Nat], NEW y, NEW z,
         IsLeading(y, s, n), IsLeading(z, s, n)
  PROVE  y = z
  BY DEF IsLeading

AllZero(s, k) == \A j \in 1 .. k : s[j] = 0

\* A number is 0 as far as its digits are.
LEMMA ZeroSoFar ==
  ASSUME NEW n \in Nat, NEW s \in [1 .. n -> Nat], NEW b \in Nat \ {0}, NEW v,
         IsValues(v, s, n, b), NEW k \in 0 .. n
  PROVE  v[k] = 0 <=> AllZero(s, k)
<1>0. k \in Nat
  OBVIOUS
<1>1. ASSUME \A j \in 1 .. k : s[j] = 0 PROVE v[k] = 0
  <2> DEFINE S == {i \in 0 .. k : v[i] = 0}
  <2>1. 0 \in S
    BY DEF IsValues
  <2>2. \A i \in 0 .. k - 1 : i \in S => i + 1 \in S
    BY <1>1 DEF IsValues
  <2>3. 0 .. k \subseteq S
    <3> HIDE DEF S
    <3> QED BY <1>0, <2>1, <2>2, UpTo
  <2>4. QED BY <2>3
<1>2. ASSUME v[k] = 0 PROVE \A j \in 1 .. k : s[j] = 0
  <2> DEFINE S == {i \in 0 .. k : v[k - i] = 0 /\ \A j \in k - i + 1 .. k : s[j] = 0}
  <2>1. 0 \in S
    BY <1>2
  <2>2. ASSUME NEW i \in 0 .. k - 1, i \in S PROVE i + 1 \in S
    <3>1. k - i - 1 \in 0 .. n - 1 /\ (k - i - 1) + 1 = k - i
      OBVIOUS
    <3>2. /\ v[k - i] = v[k - i - 1] * b + s[k - i]
          /\ v[k - i - 1] \in Nat /\ s[k - i] \in Nat /\ v[k - i] = 0
      BY <2>2, <3>1 DEF IsValues
    <3>3. v[k - i - 1] = 0 /\ s[k - i] = 0
      BY <3>2
    <3>4. QED BY <2>2, <3>3
  <2>3. 0 .. k \subseteq S
    <3> HIDE DEF S
    <3> QED BY <1>0, <2>1, <2>2, UpTo
  <2>4. k \in 0 .. k /\ k - k = 0
    BY <1>0
  <2>5. \A j \in k - k + 1 .. k : s[j] = 0
    BY <2>3, <2>4
  <2>6. QED BY <2>4, <2>5
<1>3. QED
  BY <1>1, <1>2 DEF AllZero

LEMMA DigitIs ==
  ASSUME NEW size \in Nat, NEW buf, IsString(buf, size, Digits), NEW j \in 1 .. size
  PROVE  buf[j] \in Digits /\ buf[j] \in Nat /\ buf[j] < 58
<1>1. buf[j] \in Digits
  BY DEF IsString
<1>2. \A d \in Digits : d \in Nat /\ d < 58
  BY DEF Digits, DigitsIn
<1>3. QED
  BY <1>1, <1>2

LEMMA ByteIs ==
  ASSUME NEW size \in Nat, NEW buf, IsString(buf, size, Bytes), NEW j \in 1 .. size
  PROVE  buf[j] \in Bytes /\ buf[j] \in Nat /\ buf[j] < 256
<1>1. buf[j] \in Bytes
  BY DEF IsString
<1>2. \A d \in Bytes : d \in Nat /\ d < 256
  BY DEF Bytes, BytesIn
<1>3. QED
  BY <1>1, <1>2

LEMMA DigitsAreNumbers ==
  ASSUME NEW n \in Nat, NEW s, IsString(s, n, Digits)
  PROVE  s \in [1 .. n -> Nat] /\ Len(s) = n
<1>1. \A i \in 1 .. n : s[i] \in Nat
  BY DigitIs
<1>2. QED
  BY <1>1, LenIs DEF IsString

LEMMA BytesAreNumbers ==
  ASSUME NEW n \in Nat, NEW s, IsString(s, n, Bytes)
  PROVE  s \in [1 .. n -> Nat] /\ Len(s) = n
<1>1. \A i \in 1 .. n : s[i] \in Nat
  BY ByteIs
<1>2. QED
  BY <1>1, LenIs DEF IsString

LEMMA Shifted ==
  ASSUME NEW b \in Nat \ {0}, NEW p \in Nat, NEW x \in Nat, NEW y \in Nat, NEW e \in 0 .. b - 1,
         x * p <= y, y < (x + 1) * p
  PROVE  x * (p * b) <= y * b + e /\ y * b + e < (x + 1) * (p * b)
<1> DEFINE low == x * p
           high == (x + 1) * p
<1>1. low \in Nat /\ high \in Nat /\ x * (p * b) = low * b /\ (x + 1) * (p * b) = high * b
  OBVIOUS
<1> HIDE DEF low, high
<1>2. low <= y /\ y + 1 <= high
  BY <1>1 DEF low, high
<1>3. low * b <= y * b /\ (y + 1) * b <= high * b /\ (y + 1) * b = y * b + b
  <2>1. \A u, w \in Nat : u <= w => u * b <= w * b
    OBVIOUS
  <2>2. y + 1 \in Nat
    OBVIOUS
  <2>3. low * b <= y * b /\ (y + 1) * b <= high * b
    BY <1>1, <1>2, <2>1, <2>2
  <2>4. (y + 1) * b = y * b + b
    OBVIOUS
  <2>5. QED BY <2>3, <2>4
<1>4. low * b \in Nat /\ high * b \in Nat /\ y * b \in Nat
  BY <1>1
<1>5. low * b <= y * b + e /\ y * b + e < high * b
  BY <1>3, <1>4
<1>6. QED
  BY <1>1, <1>5

\* What begins with the number v[k] is at least that, with zeros after it, and less
\* than the next.
LEMMA PrefixValue ==
  ASSUME NEW b \in Nat \ {0}, NEW n \in Nat, NEW s, IsString(s, n, Below(b)),
         NEW v, IsValues(v, s, n, b), NEW k \in 0 .. n
  PROVE  /\ v[k] \in Nat
         /\ \A i \in 0 .. n - k :
              /\ v[k + i] \in Nat
              /\ v[k] * Power(b, i) <= v[k + i] /\ v[k + i] < (v[k] + 1) * Power(b, i)
<1> DEFINE m == n - k
           S == {i \in 0 .. m : /\ v[k] * Power(b, i) <= v[k + i]
                               /\ v[k + i] < (v[k] + 1) * Power(b, i)}
<1>1. m \in Nat /\ k + 0 = k /\ k \in Nat
  OBVIOUS
<1>2. v[k] \in Nat /\ \A i \in 0 .. m : v[k + i] \in Nat
  <2>1. \A i \in 0 .. m : k + i \in 0 .. n
    OBVIOUS
  <2>2. QED BY <2>1 DEF IsValues
<1>3. 0 \in S
  <2>1. Power(b, 0) = 1
    BY PowerZero
  <2>2. QED BY <1>1, <1>2, <2>1
<1>4. ASSUME NEW i \in 0 .. m - 1, i \in S PROVE i + 1 \in S
  <2> DEFINE x == v[k]
             y == v[k + i]
             e == s[(k + i) + 1]
             p == Power(b, i)
  <2>1. /\ k + i \in 0 .. n - 1 /\ (k + i) + 1 = k + (i + 1) /\ (k + i) + 1 \in 1 .. n
        /\ i \in Nat /\ i \in 0 .. m
    BY <1>1
  <2>2. v[(k + i) + 1] = y * b + e
    BY <2>1 DEF IsValues
  <2>3. e \in 0 .. b - 1
    BY <2>1 DEF IsString, Below
  <2>4. Power(b, i + 1) = p * b /\ p \in Nat
    BY <2>1, PowerNext, PowerType
  <2>5. x * p <= y /\ y < (x + 1) * p /\ x \in Nat /\ y \in Nat
    BY <1>2, <1>4, <2>1
  <2> HIDE DEF x, y, e, p
  <2>6. x * (p * b) <= y * b + e /\ y * b + e < (x + 1) * (p * b)
    BY <2>3, <2>4, <2>5, Shifted
  <2>7. x * Power(b, i + 1) <= v[k + (i + 1)] /\ v[k + (i + 1)] < (x + 1) * Power(b, i + 1)
    BY <2>1, <2>2, <2>4, <2>6
  <2>8. QED BY <2>7 DEF x
<1>5. 0 .. m \subseteq S
  <2> HIDE DEF S, m
  <2> QED BY <1>1, <1>3, <1>4, UpTo
<1>6. QED
  BY <1>2, <1>5

LEMMA BytesAreBase ==
  ASSUME NEW n \in Nat, NEW s, IsString(s, n, Bytes)
  PROVE  IsString(s, n, Below(256))
  BY DEF IsString, Bytes, BytesIn, Below

LEMMA DigitsAreBase ==
  ASSUME NEW n \in Nat, NEW s, IsString(s, n, Digits)
  PROVE  IsString(s, n, Below(58))
  BY DEF IsString, Digits, DigitsIn, Below

\* z zeros and i bytes more are a number below 256 to the i-th.
LEMMA ValueBelow ==
  ASSUME NEW n \in Nat, NEW s, IsString(s, n, Bytes), NEW v, IsValues(v, s, n, 256),
         NEW z \in 0 .. n, AllZero(s, z)
  PROVE  \A i \in 0 .. n - z : v[z + i] \in Nat /\ v[z + i] < Power(256, i)
<1>1. s \in [1 .. n -> Nat] /\ 256 \in Nat \ {0}
  BY BytesAreNumbers
<1>2. v[z] = 0
  BY <1>1, ZeroSoFar
<1>3. IsString(s, n, Below(256))
  BY BytesAreBase
<1>4. \A i \in 0 .. n - z : v[z + i] \in Nat /\ v[z + i] < (v[z] + 1) * Power(256, i)
  BY <1>1, <1>3, PrefixValue
<1>5. ASSUME NEW i \in 0 .. n - z PROVE v[z + i] \in Nat /\ v[z + i] < Power(256, i)
  <2>1. i \in Nat /\ 256 \in Nat
    OBVIOUS
  <2>2. Power(256, i) \in Nat
    BY <2>1, PowerType
  <2>3. v[z + i] \in Nat /\ v[z + i] < (0 + 1) * Power(256, i)
    BY <1>2, <1>4
  <2>4. QED BY <2>2, <2>3
<1>6. QED
  BY <1>5

\* d has, after z digits, those that buf has after k.
IsRest(d, size, z, buf, n, k) ==
  /\ size = z + (n - k)
  /\ \A i \in 1 .. n - k : d[z + i] = buf[k + i]

LEMMA SameFrom ==
  ASSUME NEW b \in Nat, NEW n \in Nat, NEW v, NEW buf, IsValues(v, buf, n, b), NEW k \in 0 .. n, v[k] = 0,
         NEW z \in Nat, NEW size \in Nat,
         NEW w, NEW d, IsValues(w, d, size, b), w[z] = 0, IsRest(d, size, z, buf, n, k)
  PROVE  w[size] = v[n]
<1> DEFINE m == n - k
           S == {i \in 0 .. m : w[z + i] = v[k + i]}
<1>1. m \in Nat /\ k \in Nat /\ z + 0 = z /\ k + 0 = k /\ z + m = size /\ k + m = n
  BY DEF IsRest
<1>2. 0 \in S
  BY <1>1
<1>3. ASSUME NEW i \in 0 .. m - 1, i \in S PROVE i + 1 \in S
  <2>1. /\ z + i \in 0 .. size - 1 /\ (z + i) + 1 = z + (i + 1)
        /\ k + i \in 0 .. n - 1 /\ (k + i) + 1 = k + (i + 1)
        /\ i + 1 \in 1 .. m
    BY <1>1
  <2>2. w[(z + i) + 1] = w[z + i] * b + d[(z + i) + 1]
    BY <2>1 DEF IsValues
  <2>3. v[(k + i) + 1] = v[k + i] * b + buf[(k + i) + 1]
    BY <2>1 DEF IsValues
  <2>4. d[z + (i + 1)] = buf[k + (i + 1)]
    BY <2>1 DEF IsRest
  <2>5. w[z + i] = v[k + i]
    BY <1>3
  <2>6. w[z + (i + 1)] = v[k + (i + 1)]
    BY <2>1, <2>2, <2>3, <2>4, <2>5
  <2>7. QED BY <2>1, <2>6
<1>4. 0 .. m \subseteq S
  <2> HIDE DEF S, m
  <2> QED BY <1>1, <1>2, <1>3, UpTo
<1>5. w[z + m] = v[k + m]
  BY <1>1, <1>4
<1>6. QED
  BY <1>1, <1>5

LEMMA BelowAreNumbers ==
  ASSUME NEW b \in Nat \ {0}, NEW n \in Nat, NEW s, IsString(s, n, Below(b))
  PROVE  s \in [1 .. n -> Nat] /\ Len(s) = n
<1>1. \A i \in Below(b) : i \in Nat
  BY DEF Below
<1>2. QED
  BY <1>1, LenIs DEF IsString

LEMMA ZeroBelow ==
  ASSUME NEW b \in Nat \ {0}, NEW size \in Nat, NEW t, IsString(t, size, Below(b)),
         NEW u, IsValues(u, t, size, b), NEW i \in 0 .. size
  PROVE  u[i] = 0 <=> AllZero(t, i)
<1>1. t \in [1 .. size -> Nat]
  BY BelowAreNumbers
<1>2. QED
  BY <1>1, ZeroSoFar

LEMMA LastDigit ==
  ASSUME NEW b \in Nat \ {0}, NEW x \in Nat, NEW y \in Nat, NEW d \in Below(b), NEW e \in Below(b),
         x * b + d = y * b + e
  PROVE  x = y /\ d = e
<1>1. d \in Nat /\ e \in Nat /\ d < b /\ e < b
  BY DEF Below
<1>2. QED
  BY <1>1

\* The last k are the same.
SameEnds(s, n, t, m, k) == \A j \in 0 .. k - 1 : s[n - j] = t[m - j]

\* The digits of a number, from the right, are the same in any two strings.
LEMMA SameFromTheRight ==
  ASSUME NEW b \in Nat \ {0},
         NEW n \in Nat, NEW s, IsString(s, n, Below(b)), NEW v, IsValues(v, s, n, b),
         NEW m \in Nat, NEW t, IsString(t, m, Below(b)), NEW w, IsValues(w, t, m, b),
         v[n] = w[m], NEW k \in Nat, k <= n, k <= m
  PROVE  v[n - k] = w[m - k] /\ SameEnds(s, n, t, m, k)
<1> DEFINE S == {i \in 0 .. k : v[n - i] = w[m - i] /\ \A j \in 0 .. i - 1 : s[n - j] = t[m - j]}
<1>1. 0 \in S
  OBVIOUS
<1>2. ASSUME NEW i \in 0 .. k - 1, i \in S PROVE i + 1 \in S
  <2>1. /\ n - (i + 1) \in 0 .. n - 1 /\ (n - (i + 1)) + 1 = n - i /\ n - i \in 1 .. n
        /\ m - (i + 1) \in 0 .. m - 1 /\ (m - (i + 1)) + 1 = m - i /\ m - i \in 1 .. m
    OBVIOUS
  <2>2. v[n - i] = v[n - (i + 1)] * b + s[n - i] /\ v[n - (i + 1)] \in Nat
    BY <2>1 DEF IsValues
  <2>3. w[m - i] = w[m - (i + 1)] * b + t[m - i] /\ w[m - (i + 1)] \in Nat
    BY <2>1 DEF IsValues
  <2>4. s[n - i] \in Below(b) /\ t[m - i] \in Below(b)
    BY <2>1 DEF IsString
  <2>5. v[n - i] = w[m - i] /\ \A j \in 0 .. i - 1 : s[n - j] = t[m - j]
    BY <1>2
  <2>6. v[n - (i + 1)] = w[m - (i + 1)] /\ s[n - i] = t[m - i]
    <3> DEFINE x == v[n - (i + 1)]
               y == w[m - (i + 1)]
               d == s[n - i]
               e == t[m - i]
    <3>1. x \in Nat /\ y \in Nat /\ d \in Below(b) /\ e \in Below(b) /\ x * b + d = y * b + e
      BY <2>2, <2>3, <2>4, <2>5
    <3> HIDE DEF x, y, d, e
    <3>2. x = y /\ d = e
      BY <3>1, LastDigit
    <3>3. QED BY <3>2 DEF x, y, d, e
  <2>7. \A j \in 0 .. (i + 1) - 1 : s[n - j] = t[m - j]
    BY <2>5, <2>6
  <2>8. QED BY <2>6, <2>7
<1>3. 0 .. k \subseteq S
  <2> HIDE DEF S
  <2> QED BY <1>1, <1>2, UpTo
<1>4. k \in S
  <2> HIDE DEF S
  <2> QED BY <1>3
<1>5. QED
  BY <1>4 DEF SameEnds

\* x is the number that s is, which begins with z zeros.
IsNumber(x, s, n, z, b) ==
  /\ n \in Nat
  /\ IsString(s, n, Below(b))
  /\ IsLeading(z, s, n)
  /\ Values(s, b)[n] = x

LEMMA NotLonger ==
  ASSUME NEW b \in Nat \ {0}, NEW x,
         NEW s, NEW n, NEW k, IsNumber(x, s, n, k, b),
         NEW t, NEW m, NEW l, IsNumber(x, t, m, l, b)
  PROVE  n - k <= m - l
<1> SUFFICES ASSUME m - l < n - k PROVE FALSE
  BY DEF IsNumber, IsLeading
<1> DEFINE v == Values(s, b)
           w == Values(t, b)
           i == m - l
<1>1. /\ n \in Nat /\ IsString(s, n, Below(b)) /\ v[n] = x
      /\ m \in Nat /\ IsString(t, m, Below(b)) /\ w[m] = x
      /\ k \in 0 .. n /\ l \in 0 .. m
  BY DEF IsNumber, IsLeading
<1>2. s \in [1 .. n -> Nat] /\ t \in [1 .. m -> Nat]
  BY <1>1, BelowAreNumbers
<1>3. IsValues(v, s, n, b) /\ IsValues(w, t, m, b)
  BY <1>1, <1>2, ValuesAre
<1> HIDE DEF v, w
<1>4. i \in Nat /\ i <= n /\ i <= m /\ m - i = l /\ n - i \in 0 .. n /\ k + 1 \in 1 .. n - i
  BY <1>1
<1>5. v[n - i] = w[m - i]
  <2> HIDE DEF i
  <2> QED BY <1>1, <1>3, <1>4, SameFromTheRight
<1>6. AllZero(t, l)
  BY DEF IsNumber, IsLeading, AllZero
<1>7. w[l] = 0
  BY <1>1, <1>3, <1>6, ZeroBelow
<1>8. v[n - i] = 0
  BY <1>4, <1>5, <1>7
<1>9. AllZero(s, n - i)
  <2> DEFINE j == n - i
  <2>1. j \in 0 .. n /\ v[j] = 0
    BY <1>4, <1>8
  <2> HIDE DEF j
  <2>2. AllZero(s, j)
    BY <1>1, <1>3, <2>1, ZeroBelow
  <2>3. QED BY <2>2 DEF j
<1>10. s[k + 1] = 0 /\ k < n
  BY <1>1, <1>4, <1>9 DEF AllZero
<1>11. QED
  BY <1>10 DEF IsNumber, IsLeading

\* Without the zeros before them, the digits of a number are the same in any two strings.
LEMMA OneNumber ==
  ASSUME NEW b \in Nat \ {0}, NEW x,
         NEW s, NEW n, NEW k, IsNumber(x, s, n, k, b),
         NEW t, NEW m, NEW l, IsNumber(x, t, m, l, b)
  PROVE  /\ n - k = m - l /\ n - k \in Nat
         /\ \A i \in 1 .. n - k : s[k + i] = t[l + i]
<1> DEFINE v == Values(s, b)
           w == Values(t, b)
           h == n - k
<1>1. /\ n \in Nat /\ IsString(s, n, Below(b)) /\ v[n] = x
      /\ m \in Nat /\ IsString(t, m, Below(b)) /\ w[m] = x
      /\ k \in 0 .. n /\ l \in 0 .. m
  BY DEF IsNumber, IsLeading
<1>2. h <= m - l /\ m - l <= h
  BY NotLonger
<1>3. h = m - l /\ h \in Nat /\ h <= n /\ h <= m
  BY <1>1, <1>2
<1>4. s \in [1 .. n -> Nat] /\ t \in [1 .. m -> Nat]
  BY <1>1, BelowAreNumbers
<1>5. IsValues(v, s, n, b) /\ IsValues(w, t, m, b)
  BY <1>1, <1>4, ValuesAre
<1> HIDE DEF v, w
<1>6. SameEnds(s, n, t, m, h)
  <2>1. v[n] = w[m]
    BY <1>1
  <2> HIDE DEF h
  <2>2. QED BY <1>1, <1>3, <1>5, <2>1, SameFromTheRight
<1>7. ASSUME NEW i \in 1 .. h PROVE s[k + i] = t[l + i]
  <2>1. h - i \in 0 .. h - 1 /\ n - (h - i) = k + i /\ m - (h - i) = l + i
    BY <1>1, <1>3
  <2>2. QED BY <1>6, <2>1 DEF SameEnds
<1>8. QED
  BY <1>3, <1>7
-----------------------------------------------------------------------------
(* b58enc *)

\* The carry of the loop: what of 256 times the last i digits plus a byte is beyond them.
IsCarried(c, buf, byte, size) ==
  /\ c \in [0 .. size -> Nat]
  /\ c[0] = byte
  /\ \A i \in 0 .. size - 1 : c[i + 1] = (c[i] + 256 * buf[size - i]) \div 58

LEMMA CarriedIs ==
  ASSUME NEW size \in Nat, NEW buf, IsString(buf, size, Digits), NEW byte \in Nat
  PROVE  IsCarried(Carried(buf, byte), buf, byte, size)
<1> DEFINE step == [i \in 1 .. size |-> [carry \in Nat |->
                      (carry + 256 * buf[size + 1 - i]) \div 58]]
<1>1. ASSUME NEW i \in 1 .. size PROVE step[i] \in [Nat -> Nat]
  <2>1. size + 1 - i \in 1 .. size
    OBVIOUS
  <2>2. buf[size + 1 - i] \in Nat
    BY <2>1, DigitIs
  <2>3. \A x \in Nat : x \div 58 \in Nat
    OBVIOUS
  <2>4. QED BY <2>2, <2>3
<1>2. ASSUME NEW i \in 0 .. size - 1, NEW carry \in Nat
      PROVE  step[i + 1][carry] = (carry + 256 * buf[size - i]) \div 58
  <2>1. i + 1 \in 1 .. size /\ size + 1 - (i + 1) = size - i
    OBVIOUS
  <2>2. QED BY <2>1
<1>3. Carried(buf, byte) = Iterate(byte, step, size)
  <2>1. Len(buf) = size
    BY LenIs DEF IsString
  <2>2. QED BY <2>1 DEF Carried, BytesIn, DigitsIn
<1>4. step \in Steps(Nat, size)
  BY <1>1 DEF Steps
<1> HIDE DEF step
<1>5. IsRun(Iterate(byte, step, size), Nat, byte, step, size)
  BY <1>4, Iterates
<1>6. ASSUME NEW i \in 0 .. size - 1
      PROVE  Carried(buf, byte)[i + 1] = (Carried(buf, byte)[i] + 256 * buf[size - i]) \div 58
  <2>1. /\ Carried(buf, byte)[i] \in Nat
        /\ Carried(buf, byte)[i + 1] = step[i + 1][Carried(buf, byte)[i]]
    BY <1>3, <1>5 DEF IsRun
  <2>2. QED BY <1>2, <2>1
<1>7. QED
  BY <1>3, <1>5, <1>6 DEF IsRun, IsCarried

\* One round of the carry loop, in terms of the values.
LEMMA CarryRound ==
  ASSUME NEW size \in Nat, NEW buf, IsString(buf, size, Digits), NEW byte \in Nat,
         NEW v, IsValues(v, buf, size, 58),
         NEW c, IsCarried(c, buf, byte, size),
         NEW i \in 0 .. size - 1
  PROVE  /\ v[i] \in Nat /\ v[i + 1] \in Nat /\ buf[i + 1] \in Nat
         /\ c[size - i] \in Nat /\ c[size - (i + 1)] \in Nat
         /\ v[i + 1] = 58 * v[i] + buf[i + 1]
         /\ c[size - i] = (c[size - (i + 1)] + 256 * buf[i + 1]) \div 58
<1> DEFINE k == size - (i + 1)
<1>1. k \in 0 .. size - 1 /\ k + 1 = size - i /\ size - k = i + 1 /\ i + 1 \in 1 .. size
      /\ i \in 0 .. size /\ i + 1 \in 0 .. size /\ size - i \in 0 .. size /\ k \in 0 .. size
  OBVIOUS
<1> HIDE DEF k
<1>2. v[i] \in Nat /\ v[i + 1] \in Nat /\ v[i + 1] = v[i] * 58 + buf[i + 1]
  BY <1>1 DEF IsValues
<1>3. c[size - i] \in Nat /\ c[k] \in Nat /\ c[k + 1] = (c[k] + 256 * buf[size - k]) \div 58
  BY <1>1 DEF IsCarried
<1>4. buf[i + 1] \in Nat
  BY <1>1, DigitIs
<1>5. QED
  BY <1>1, <1>2, <1>3, <1>4 DEF k

LEMMA Divided ==
  ASSUME NEW x \in Nat
  PROVE  /\ x \div 58 \in Nat /\ x % 58 \in Digits
         /\ x = 58 * (x \div 58) + (x % 58)
  BY DEF Digits, DigitsIn

\* What is carried beyond the buffer is of a number that is too big for it.
LEMMA CarriedBeyond ==
  ASSUME NEW size \in Nat, NEW buf, IsString(buf, size, Digits), NEW byte \in Nat,
         NEW v, IsValues(v, buf, size, 58),
         NEW c, IsCarried(c, buf, byte, size),
         c[size] # 0
  PROVE  256 * v[size] + byte >= Power(58, size)
<1> DEFINE S == {i \in 0 .. size : 256 * v[i] + c[size - i] >= Power(58, i)}
<1>1. 0 \in S
  <2>1. v[0] = 0 /\ c[size] \in Nat /\ size - 0 = size
    BY DEF IsValues, IsCarried
  <2>2. Power(58, 0) = 1
    BY PowerZero
  <2>3. QED BY <2>1, <2>2
<1>2. ASSUME NEW i \in 0 .. size - 1, i \in S PROVE i + 1 \in S
  <2>1. /\ v[i] \in Nat /\ v[i + 1] \in Nat /\ buf[i + 1] \in Nat
        /\ c[size - i] \in Nat /\ c[size - (i + 1)] \in Nat
        /\ v[i + 1] = 58 * v[i] + buf[i + 1]
        /\ c[size - i] = (c[size - (i + 1)] + 256 * buf[i + 1]) \div 58
    BY CarryRound
  <2>2. c[size - (i + 1)] + 256 * buf[i + 1] >= 58 * c[size - i]
    BY <2>1
  <2>3. Power(58, i + 1) = Power(58, i) * 58 /\ Power(58, i) \in Nat
    <3>1. 58 \in Nat /\ i \in Nat
      OBVIOUS
    <3>2. QED BY <3>1, PowerNext, PowerType
  <2>4. 256 * v[i] + c[size - i] >= Power(58, i)
    BY <1>2
  <2>5. 256 * v[i + 1] + c[size - (i + 1)] >= Power(58, i + 1)
    BY <2>1, <2>2, <2>3, <2>4
  <2>6. QED BY <2>5
<1>3. 0 .. size \subseteq S
  <2> HIDE DEF S
  <2> QED BY <1>1, <1>2, UpTo
<1>4. 256 * v[size] + c[0] >= Power(58, size)
  BY <1>3
<1>5. QED
  BY <1>4 DEF IsCarried

\* The buffer has the number x, in as many digits from the right as were ever set.
IsBuffered(a, x, size) ==
  /\ IsString(a.buf, size, Digits)
  /\ a.used \in 0 .. size
  /\ a.within = TRUE
  /\ \A j \in 1 .. size - a.used : a.buf[j] = 0
  /\ ValueOf(a.buf, 58) = x

Fits(x, size) == x \in Nat /\ x < Power(58, size)

\* The loop stops at the first chance, which it has within the buffer.
LEMMA AddByteStops ==
  ASSUME NEW size \in Nat, NEW a, NEW x, IsBuffered(a, x, size), NEW byte \in Nat,
         Fits(256 * x + byte, size)
  PROVE  \E n \in a.used .. size :
           /\ Carried(a.buf, byte)[n] = 0
           /\ AddByte(a, byte) =
                [buf |-> [j \in 1 .. size |->
                            IF j <= size - n THEN a.buf[j]
                            ELSE (Carried(a.buf, byte)[size - j] + 256 * a.buf[j]) % 58],
                 used |-> n,
                 within |-> TRUE]
<1> DEFINE c == Carried(a.buf, byte)
           stops == {n \in a.used .. size : c[n] = 0}
           n == CHOOSE n \in stops : \A m \in stops : n <= m
<1>1. IsString(a.buf, size, Digits) /\ ValueOf(a.buf, 58) = x /\ a.used \in 0 .. size
      /\ a.within = TRUE
  BY DEF IsBuffered
<1>2. a.buf \in [1 .. size -> Nat] /\ Len(a.buf) = size
  BY <1>1, DigitsAreNumbers
<1>3. c[size] = 0
  <2>1. IsCarried(c, a.buf, byte, size)
    BY <1>1, CarriedIs
  <2>2. IsValues(Values(a.buf, 58), a.buf, size, 58)
    BY <1>2, ValuesAre
  <2>3. c[size] # 0 => 256 * Values(a.buf, 58)[size] + byte >= Power(58, size)
    BY <1>1, <2>1, <2>2, CarriedBeyond
  <2>4. Values(a.buf, 58)[size] = x
    BY <1>1, <1>2 DEF ValueOf
  <2> HIDE DEF c
  <2>5. Power(58, size) \in Nat
    BY PowerType
  <2>6. QED BY <2>3, <2>4, <2>5 DEF Fits
<1> HIDE DEF c
<1>4. size \in stops /\ stops \subseteq Nat /\ stops # {}
  BY <1>1, <1>3
<1>5. \E m \in stops : \A k \in stops : m <= k
  <2> HIDE DEF stops
  <2> QED BY <1>4, Least
<1>6. n \in stops
  <2> HIDE DEF stops
  <2> QED BY <1>5
<1>7. stops = Stops(a.used, c, Len(a.buf))
  BY <1>2 DEF Stops
<1>8. AddByte(a, byte) =
        [buf |-> [j \in 1 .. size |->
                    IF j <= size - n THEN a.buf[j]
                    ELSE (c[size - j] + 256 * a.buf[j]) % 58],
         used |-> n,
         within |-> TRUE]
  <2> HIDE DEF stops
  <2> QED BY <1>1, <1>2, <1>4, <1>7 DEF AddByte, BytesIn, DigitsIn, c
<1> HIDE DEF n
<1>9. n \in a.used .. size /\ c[n] = 0
  BY <1>6
<1>10. QED
  BY <1>8, <1>9 DEF c

LEMMA ZeroDigits ==
  ASSUME NEW size \in Nat, NEW t, IsString(t, size, Digits),
         NEW u, IsValues(u, t, size, 58), NEW i \in 0 .. size
  PROVE  u[i] = 0 <=> AllZero(t, i)
<1>1. 58 \in Nat \ {0}
  OBVIOUS
<1>2. t \in [1 .. size -> Nat]
  BY DigitsAreNumbers
<1>3. QED
  BY <1>1, <1>2, ZeroSoFar

\* The digits of a buffer after the loop has gone over the last n.
IsReplaced(new, c, buf, n, size) ==
  /\ n \in 0 .. size
  /\ \A j \in 1 .. size - n : new[j] = 0 /\ buf[j] = 0
  /\ \A j \in size - n + 1 .. size : new[j] = (c[size - j] + 256 * buf[j]) % 58
  /\ c[n] = 0

LEMMA ReplacedValue ==
  ASSUME NEW size \in Nat, NEW buf, IsString(buf, size, Digits), NEW byte \in Nat,
         NEW new, IsString(new, size, Digits),
         NEW v, IsValues(v, buf, size, 58), NEW w, IsValues(w, new, size, 58),
         NEW c, IsCarried(c, buf, byte, size),
         NEW n, IsReplaced(new, c, buf, n, size)
  PROVE  w[size] = 256 * v[size] + byte
<1> DEFINE S == {i \in 0 .. size :
                   /\ i <= size - n => v[i] = 0 /\ w[i] = 0
                   /\ i >= size - n => w[i] = 256 * v[i] + c[size - i]}
<1>0. n \in 0 .. size /\ size - n \in 0 .. size /\ size - (size - n) = n /\ c[n] = 0
  BY DEF IsReplaced
<1>1. ASSUME NEW i \in 0 .. size, i <= size - n PROVE v[i] = 0 /\ w[i] = 0
  <2>1. \A j \in 1 .. i : buf[j] = 0 /\ new[j] = 0
    BY <1>0, <1>1 DEF IsReplaced
  <2>2. AllZero(buf, i) /\ AllZero(new, i)
    BY <2>1 DEF AllZero
  <2>3. (v[i] = 0 <=> AllZero(buf, i)) /\ (w[i] = 0 <=> AllZero(new, i))
    BY ZeroDigits
  <2>4. QED BY <2>2, <2>3
<1>2. 0 \in S
  <2>1. v[0] = 0 /\ w[0] = 0
    BY DEF IsValues
  <2>2. 0 >= size - n => size - n = 0 /\ n = size
    BY <1>0
  <2>3. QED BY <1>0, <2>1, <2>2
<1>3. ASSUME NEW i \in 0 .. size - 1, i \in S PROVE i + 1 \in S
  <2>1. CASE i + 1 <= size - n
    <3>1. v[i + 1] = 0 /\ w[i + 1] = 0
      BY <1>1, <2>1
    <3>2. i + 1 >= size - n => i + 1 = size - n /\ c[size - (i + 1)] = 0
      BY <1>0, <2>1
    <3>3. QED BY <3>1, <3>2
  <2>2. CASE i + 1 > size - n
    <3>1. /\ v[i] \in Nat /\ v[i + 1] \in Nat /\ buf[i + 1] \in Nat
          /\ c[size - i] \in Nat /\ c[size - (i + 1)] \in Nat
          /\ v[i + 1] = 58 * v[i] + buf[i + 1]
          /\ c[size - i] = (c[size - (i + 1)] + 256 * buf[i + 1]) \div 58
      BY CarryRound
    <3>2. new[i + 1] = (c[size - (i + 1)] + 256 * buf[i + 1]) % 58
      BY <1>0, <2>2 DEF IsReplaced
    <3>3. w[i] \in Nat /\ w[i + 1] = w[i] * 58 + new[i + 1]
      BY DEF IsValues
    <3>4. w[i] = 256 * v[i] + c[size - i]
      BY <1>0, <1>3, <2>2
    <3>5. c[size - (i + 1)] + 256 * buf[i + 1] = 58 * c[size - i] + new[i + 1]
          /\ new[i + 1] \in Nat
      <4> DEFINE x == c[size - (i + 1)] + 256 * buf[i + 1]
      <4>1. x \in Nat /\ c[size - i] = x \div 58 /\ new[i + 1] = x % 58
        BY <3>1, <3>2
      <4>2. \A d \in Digits : d \in Nat
        BY DEF Digits, DigitsIn
      <4> HIDE DEF x
      <4>3. x = 58 * (x \div 58) + (x % 58) /\ x % 58 \in Digits
        BY <4>1, Divided
      <4>4. x = 58 * c[size - i] + new[i + 1] /\ new[i + 1] \in Nat
        BY <4>1, <4>2, <4>3
      <4>5. QED BY <4>4 DEF x
    <3>6. w[i + 1] = 256 * v[i + 1] + c[size - (i + 1)]
      BY <3>1, <3>3, <3>4, <3>5
    <3>7. QED BY <2>2, <1>0, <3>6
  <2>3. QED BY <1>0, <2>1, <2>2
<1>4. 0 .. size \subseteq S
  <2> HIDE DEF S
  <2> QED BY <1>2, <1>3, UpTo
<1>5. w[size] = 256 * v[size] + c[size - size]
  BY <1>0, <1>4
<1>6. QED
  BY <1>5 DEF IsCarried

\* A byte is added to the number in the buffer, if there is room.
LEMMA AddByteAdds ==
  ASSUME NEW size \in Nat, NEW a, NEW x, IsBuffered(a, x, size), NEW byte \in Nat,
         Fits(256 * x + byte, size)
  PROVE  IsBuffered(AddByte(a, byte), 256 * x + byte, size)
<1> DEFINE c == Carried(a.buf, byte)
           Loop(n) == [j \in 1 .. size |->
                         IF j <= size - n THEN a.buf[j]
                         ELSE (c[size - j] + 256 * a.buf[j]) % 58]
<1>1. PICK n \in a.used .. size :
        /\ c[n] = 0
        /\ AddByte(a, byte) = [buf |-> Loop(n), used |-> n, within |-> TRUE]
  BY AddByteStops
<1>2. /\ IsString(a.buf, size, Digits) /\ ValueOf(a.buf, 58) = x
      /\ a.used \in 0 .. size /\ \A j \in 1 .. size - a.used : a.buf[j] = 0
  BY DEF IsBuffered
<1>3. IsCarried(c, a.buf, byte, size)
  BY <1>2, CarriedIs
<1> DEFINE new == Loop(n)
<1> HIDE DEF c
<1>4. IsString(new, size, Digits)
  <2>1. ASSUME NEW j \in 1 .. size PROVE new[j] \in Digits
    <3>1. a.buf[j] \in Digits /\ a.buf[j] \in Nat
      BY <1>2, DigitIs
    <3>2. size - j \in 0 .. size
      OBVIOUS
    <3>3. c[size - j] \in Nat
      BY <1>3, <3>2 DEF IsCarried
    <3>4. (c[size - j] + 256 * a.buf[j]) % 58 \in Digits
      BY <3>1, <3>3, Divided
    <3>5. QED BY <3>1, <3>4
  <2>2. QED BY <2>1 DEF IsString
<1>5. IsReplaced(new, c, a.buf, n, size)
  <2>1. n \in 0 .. size /\ size - n <= size - a.used /\ n \in Nat /\ n <= size
    BY <1>1, <1>2
  <2>2. \A j \in 1 .. size - n : new[j] = a.buf[j]
    BY <2>1
  <2>3. \A j \in 1 .. size - n : a.buf[j] = 0
    BY <1>2, <2>1
  <2>4. \A j \in size - n + 1 .. size : new[j] = (c[size - j] + 256 * a.buf[j]) % 58
    BY <2>1
  <2>5. QED BY <1>1, <2>1, <2>2, <2>3, <2>4 DEF IsReplaced
<1> HIDE DEF new
<1>6. /\ Len(a.buf) = size /\ IsValues(Values(a.buf, 58), a.buf, size, 58)
      /\ Len(new) = size /\ IsValues(Values(new, 58), new, size, 58)
  BY <1>2, <1>4, DigitsAreNumbers, ValuesAre
<1>7. Values(new, 58)[size] = 256 * Values(a.buf, 58)[size] + byte
  BY <1>2, <1>3, <1>4, <1>5, <1>6, ReplacedValue
<1>8. ValueOf(new, 58) = 256 * x + byte
  BY <1>2, <1>6, <1>7 DEF ValueOf
<1>9. \A j \in 1 .. size - n : new[j] = 0
  BY <1>5 DEF IsReplaced
<1>10. AddByte(a, byte) = [buf |-> new, used |-> n, within |-> TRUE] /\ n \in 0 .. size
  BY <1>1, <1>2 DEF new
<1>11. QED
  BY <1>4, <1>8, <1>9, <1>10 DEF IsBuffered
-----------------------------------------------------------------------------
(* The room for the digits *)

LEMMA PowersOf58 ==
  /\ Power(58, 0) = 1
  /\ Power(58, 1) = 58
  /\ Power(58, 2) = 3364
  /\ Power(58, 3) = 195112
  /\ Power(58, 4) = 11316496
  /\ Power(58, 5) = 656356768
  /\ Power(58, 6) = 38068692544
  /\ Power(58, 7) = 2207984167552
  /\ Power(58, 8) = 128063081718016
  /\ Power(58, 9) = 7427658739644928
  /\ Power(58, 10) = 430804206899405824
  /\ Power(58, 11) = 24986644000165537792
<1>0. Power(58, 0) = 1
  BY PowerZero
<1>1. Power(58, 1) = 58
  <2>1. Power(58, 0 + 1) = Power(58, 0) * 58
    BY PowerNext
  <2>2. QED BY <2>1, <1>0
<1>2. Power(58, 2) = 3364
  <2>1. Power(58, 1 + 1) = Power(58, 1) * 58
    BY PowerNext
  <2>2. QED BY <2>1, <1>1
<1>3. Power(58, 3) = 195112
  <2>1. Power(58, 2 + 1) = Power(58, 2) * 58
    BY PowerNext
  <2>2. QED BY <2>1, <1>2
<1>4. Power(58, 4) = 11316496
  <2>1. Power(58, 3 + 1) = Power(58, 3) * 58
    BY PowerNext
  <2>2. QED BY <2>1, <1>3
<1>5. Power(58, 5) = 656356768
  <2>1. Power(58, 4 + 1) = Power(58, 4) * 58
    BY PowerNext
  <2>2. QED BY <2>1, <1>4
<1>6. Power(58, 6) = 38068692544
  <2>1. Power(58, 5 + 1) = Power(58, 5) * 58
    BY PowerNext
  <2>2. QED BY <2>1, <1>5
<1>7. Power(58, 7) = 2207984167552
  <2>1. Power(58, 6 + 1) = Power(58, 6) * 58
    BY PowerNext
  <2>2. QED BY <2>1, <1>6
<1>8. Power(58, 8) = 128063081718016
  <2>1. Power(58, 7 + 1) = Power(58, 7) * 58
    BY PowerNext
  <2>2. QED BY <2>1, <1>7
<1>9. Power(58, 9) = 7427658739644928
  <2>1. Power(58, 8 + 1) = Power(58, 8) * 58
    BY PowerNext
  <2>2. QED BY <2>1, <1>8
<1>10. Power(58, 10) = 430804206899405824
  <2>1. Power(58, 9 + 1) = Power(58, 9) * 58
    BY PowerNext
  <2>2. QED BY <2>1, <1>9
<1>11. Power(58, 11) = 24986644000165537792
  <2>1. Power(58, 10 + 1) = Power(58, 10) * 58
    BY PowerNext
  <2>2. QED BY <2>1, <1>10
<1>12. QED
  BY <1>0, <1>1, <1>2, <1>3, <1>4, <1>5, <1>6, <1>7, <1>8, <1>9, <1>10, <1>11

LEMMA PowersOf256 ==
  /\ Power(256, 0) = 1
  /\ Power(256, 1) = 256
  /\ Power(256, 2) = 65536
  /\ Power(256, 3) = 16777216
  /\ Power(256, 4) = 4294967296
  /\ Power(256, 5) = 1099511627776
  /\ Power(256, 6) = 281474976710656
  /\ Power(256, 7) = 72057594037927936
  /\ Power(256, 8) = 18446744073709551616
<1>0. Power(256, 0) = 1
  BY PowerZero
<1>1. Power(256, 1) = 256
  <2>1. Power(256, 0 + 1) = Power(256, 0) * 256
    BY PowerNext
  <2>2. QED BY <2>1, <1>0
<1>2. Power(256, 2) = 65536
  <2>1. Power(256, 1 + 1) = Power(256, 1) * 256
    BY PowerNext
  <2>2. QED BY <2>1, <1>1
<1>3. Power(256, 3) = 16777216
  <2>1. Power(256, 2 + 1) = Power(256, 2) * 256
    BY PowerNext
  <2>2. QED BY <2>1, <1>2
<1>4. Power(256, 4) = 4294967296
  <2>1. Power(256, 3 + 1) = Power(256, 3) * 256
    BY PowerNext
  <2>2. QED BY <2>1, <1>3
<1>5. Power(256, 5) = 1099511627776
  <2>1. Power(256, 4 + 1) = Power(256, 4) * 256
    BY PowerNext
  <2>2. QED BY <2>1, <1>4
<1>6. Power(256, 6) = 281474976710656
  <2>1. Power(256, 5 + 1) = Power(256, 5) * 256
    BY PowerNext
  <2>2. QED BY <2>1, <1>5
<1>7. Power(256, 7) = 72057594037927936
  <2>1. Power(256, 6 + 1) = Power(256, 6) * 256
    BY PowerNext
  <2>2. QED BY <2>1, <1>6
<1>8. Power(256, 8) = 18446744073709551616
  <2>1. Power(256, 7 + 1) = Power(256, 7) * 256
    BY PowerNext
  <2>2. QED BY <2>1, <1>7
<1>9. QED
  BY <1>0, <1>1, <1>2, <1>3, <1>4, <1>5, <1>6, <1>7, <1>8

LEMMA EightBytes ==
  ASSUME NEW q \in Nat
  PROVE  Power(256, 8 * q) <= Power(58, 11 * q)
<1> DEFINE S == {i \in Nat : Power(256, 8 * i) <= Power(58, 11 * i)}
<1>1. 0 \in S
  <2>1. 8 * 0 = 0 /\ 11 * 0 = 0
    OBVIOUS
  <2>2. QED BY <2>1, PowersOf58, PowersOf256
<1>2. ASSUME NEW i \in Nat, i \in S PROVE i + 1 \in S
  <2>1. 8 * i \in Nat /\ 11 * i \in Nat /\ 8 * (i + 1) = 8 * i + 8 /\ 11 * (i + 1) = 11 * i + 11
    OBVIOUS
  <2>2. /\ Power(256, 8 * i + 8) = Power(256, 8 * i) * Power(256, 8)
        /\ Power(58, 11 * i + 11) = Power(58, 11 * i) * Power(58, 11)
    BY <2>1, PowerPlus
  <2>3. Power(256, 8 * i) \in Nat /\ Power(58, 11 * i) \in Nat
    <3>1. 256 \in Nat /\ 58 \in Nat
      OBVIOUS
    <3>2. ASSUME NEW x \in Nat PROVE Power(256, x) \in Nat /\ Power(58, x) \in Nat
      BY <3>1, PowerType
    <3>3. QED BY <2>1, <3>2
  <2>4. Power(256, 8 * i) <= Power(58, 11 * i)
    BY <1>2
  <2>5. \A x, y \in Nat : x <= y => x * 18446744073709551616 <= y * 24986644000165537792
    OBVIOUS
  <2>6. Power(256, 8 * (i + 1)) <= Power(58, 11 * (i + 1))
    BY <2>1, <2>2, <2>3, <2>4, <2>5, PowersOf58, PowersOf256
  <2>7. QED BY <2>6
<1>3. Nat \subseteq S
  <2> HIDE DEF S
  <2> QED BY <1>1, <1>2, SetInduction
<1>4. QED
  BY <1>3

\* What b58enc reserves for n bytes, 138 digits for 100 of them and one more, is enough.
LEMMA ReservedIsEnough ==
  ASSUME NEW n \in Nat
  PROVE  Reserved(n) \in Nat /\ Power(256, n) <= Power(58, Reserved(n))
<1> DEFINE q == n \div 8
           r == n % 8
           d == Reserved(n) - 11 * q
<1>1. q \in Nat /\ r \in 0 .. 7 /\ n = 8 * q + r
  OBVIOUS
<1>2. Reserved(n) = (n * 138) \div 100 + 1 /\ Reserved(n) \in Nat
  BY DEF Reserved
<1>3. d \in Nat /\ 100 * d >= 138 * r
  <2>1. (n * 138) \div 100 + 1 \in Nat /\ 100 * ((n * 138) \div 100 + 1) > 138 * n
    OBVIOUS
  <2> HIDE DEF q, r
  <2>2. QED BY <1>1, <1>2, <2>1
<1>4. ASSUME NEW e \in Nat, e <= d, Power(256, r) <= Power(58, e)
      PROVE  Power(256, n) <= Power(58, Reserved(n))
  <2> DEFINE eights == 8 * q
             elevens == 11 * q
             all == Reserved(n)
  <2>1. /\ eights \in Nat /\ elevens \in Nat /\ elevens + e \in Nat /\ r \in Nat /\ all \in Nat
        /\ elevens + e <= all /\ n = eights + r
    BY <1>1, <1>2, <1>3, <1>4
  <2>2. Power(256, eights) <= Power(58, elevens)
    BY <1>1, EightBytes
  <2>3. Power(256, r) <= Power(58, e)
    BY <1>4
  <2> HIDE DEF q, r, d, eights, elevens, all
  <2>4. ASSUME NEW x \in Nat, NEW y \in Nat
        PROVE  /\ Power(256, x + y) = Power(256, x) * Power(256, y)
               /\ Power(58, x + y) = Power(58, x) * Power(58, y)
               /\ Power(256, x) \in Nat /\ Power(58, x) \in Nat
               /\ x <= y => Power(58, x) <= Power(58, y)
    <3>1. 58 \in Nat \ {0} /\ 256 \in Nat
      OBVIOUS
    <3>2. Power(256, x) \in Nat /\ Power(58, x) \in Nat
      BY <3>1, PowerType
    <3>3. x <= y => Power(58, x) <= Power(58, y)
      BY <3>1, PowerGrows
    <3>4. Power(256, x + y) = Power(256, x) * Power(256, y)
      BY <3>1, PowerPlus
    <3>5. Power(58, x + y) = Power(58, x) * Power(58, y)
      BY <3>1, PowerPlus
    <3>6. QED BY <3>2, <3>3, <3>4, <3>5
  <2>5. \A w, x, y, z \in Nat : w <= x /\ y <= z => w * y <= x * z
    OBVIOUS
  <2>6. Power(256, eights) * Power(256, r) <= Power(58, elevens) * Power(58, e)
    <3>1. eights \in Nat /\ elevens \in Nat /\ r \in Nat /\ e \in Nat
      BY <2>1
    <3>2. 58 \in Nat /\ 256 \in Nat
      OBVIOUS
    <3>3. Power(256, eights) \in Nat /\ Power(256, r) \in Nat
      BY <3>1, <3>2, PowerType
    <3>4. Power(58, elevens) \in Nat /\ Power(58, e) \in Nat
      BY <3>1, <3>2, PowerType
    <3>5. QED BY <2>2, <2>3, <2>5, <3>3, <3>4
  <2>7. /\ Power(256, n) = Power(256, eights) * Power(256, r)
        /\ Power(58, elevens + e) = Power(58, elevens) * Power(58, e)
    BY <2>1, <2>4
  <2> DEFINE enough == elevens + e
  <2>8. enough \in Nat /\ enough <= all
    BY <2>1
  <2>9. Power(256, n) <= Power(58, enough)
    BY <2>6, <2>7
  <2> HIDE DEF enough
  <2>10. /\ Power(58, enough) <= Power(58, all)
         /\ Power(58, enough) \in Nat /\ Power(256, n) \in Nat /\ Power(58, all) \in Nat
    <3>1. all \in Nat /\ 58 \in Nat /\ 256 \in Nat /\ 58 \in Nat \ {0}
      BY <2>1
    <3>2. Power(58, enough) <= Power(58, all)
      BY <2>8, <3>1, PowerGrows
    <3>3. Power(58, enough) \in Nat /\ Power(58, all) \in Nat
      BY <2>8, <3>1, PowerType
    <3>4. Power(256, n) \in Nat
      BY <3>1, PowerType
    <3>5. QED BY <3>2, <3>3, <3>4
  <2>11. Power(256, n) <= Power(58, all)
    BY <2>9, <2>10
  <2>12. QED BY <2>11 DEF all
<1> HIDE DEF q, r, d
<1>5. \E e \in 0 .. d : Power(256, r) <= Power(58, e)
  <2>1. CASE r = 0
    BY <2>1, <1>3, PowersOf58, PowersOf256
  <2>2. CASE r \in {1, 2, 3}
    BY <2>2, <1>3, PowersOf58, PowersOf256
  <2>3. CASE r \in {4, 5}
    BY <2>3, <1>3, PowersOf58, PowersOf256
  <2>4. CASE r \in {6, 7}
    BY <2>4, <1>3, PowersOf58, PowersOf256
  <2>5. QED BY <1>1, <2>1, <2>2, <2>3, <2>4
<1>6. QED
  BY <1>2, <1>3, <1>4, <1>5
-----------------------------------------------------------------------------
(* The number in the buffer *)

LEMMA AddByteType ==
  ASSUME NEW size \in Nat, NEW a \in Buffers(size), NEW byte \in Nat
  PROVE  AddByte(a, byte) \in Buffers(size)
<1> DEFINE c == Carried(a.buf, byte)
           stops == Stops(a.used, c, size)
           n == CHOOSE n \in stops : \A m \in stops : n <= m
           buf == [j \in 1 .. size |-> IF j <= size - n THEN a.buf[j]
                                      ELSE (c[size - j] + 256 * a.buf[j]) % 58]
<1>1. /\ IsString(a.buf, size, Digits) /\ a.used \in 0 .. size /\ a.within \in BOOLEAN
      /\ a.buf \in [1 .. size -> Digits] /\ Len(a.buf) = size
  BY LenIs DEF Buffers, IsString
<1>2. IsCarried(c, a.buf, byte, size)
  BY <1>1, CarriedIs
<1> HIDE DEF c
<1>3. buf \in [1 .. size -> Digits]
  <2> SUFFICES ASSUME NEW j \in 1 .. size PROVE buf[j] \in Digits
    OBVIOUS
  <2>1. a.buf[j] \in Digits /\ a.buf[j] \in Nat
    BY <1>1, DigitIs
  <2>2. size - j \in 0 .. size
    OBVIOUS
  <2>3. c[size - j] \in Nat
    BY <1>2, <2>2 DEF IsCarried
  <2>4. (c[size - j] + 256 * a.buf[j]) % 58 \in Digits
    BY <2>1, <2>3, Divided
  <2> HIDE DEF n
  <2>5. QED BY <2>1, <2>4
<1>4. stops # {} => n \in 0 .. size
  <2>1. stops \subseteq 0 .. size /\ stops \subseteq Nat
    BY <1>1 DEF Stops
  <2> HIDE DEF stops
  <2>2. stops # {} => \E m \in stops : \A k \in stops : m <= k
    BY <2>1, Least
  <2>3. QED BY <2>1, <2>2
<1>5. AddByte(a, byte) =
        IF stops = {} THEN [a EXCEPT !.within = FALSE]
        ELSE [buf |-> buf, used |-> n, within |-> a.within]
  <2> HIDE DEF stops
  <2> QED BY <1>1 DEF AddByte, BytesIn, DigitsIn, c, stops
<1> HIDE DEF stops, n, buf
<1>6. CASE stops = {}
  <2>1. [a EXCEPT !.within = FALSE] \in Buffers(size)
    BY <1>1 DEF Buffers
  <2>2. QED BY <1>5, <1>6, <2>1
<1>7. CASE stops # {}
  <2>1. [buf |-> buf, used |-> n, within |-> a.within] \in Buffers(size)
    BY <1>1, <1>3, <1>4, <1>7 DEF Buffers
  <2>2. QED BY <1>5, <1>7, <2>1
<1>8. QED
  BY <1>6, <1>7

\* After each byte the buffer has the number that the bytes so far are.
LEMMA BufferedIs ==
  ASSUME NEW n \in Nat, NEW s, IsString(s, n, Bytes), NEW v, IsValues(v, s, n, 256),
         NEW z \in 0 .. n, AllZero(s, z)
  PROVE  \A i \in 0 .. n - z : IsBuffered(Buffered(s, z)[i], v[z + i], Reserved(n - z))
<1> DEFINE m == n - z
           size == Reserved(m)
           a == Buffered(s, z)
           first == [buf |-> Zeros(size), used |-> 0, within |-> TRUE]
           step == [i \in 1 .. m |-> [b \in Buffers(size) |-> AddByte(b, s[z + i])]]
           S == {i \in 0 .. m : IsBuffered(a[i], v[z + i], size)}
<1>1. m \in Nat /\ z \in Nat /\ z + 0 = z
  OBVIOUS
<1>2. size \in Nat /\ Power(256, m) <= Power(58, size)
  BY <1>1, ReservedIsEnough
<1>3. ASSUME NEW i \in 1 .. m PROVE s[z + i] \in Nat /\ s[z + i] < 256
  <2>1. z + i \in 1 .. n
    OBVIOUS
  <2>2. QED BY <2>1, ByteIs
<1>4. a = Iterate(first, step, m)
  BY BytesAreNumbers DEF Buffered
<1>5. IsString(Zeros(size), size, Digits) /\ \A j \in 1 .. size : Zeros(size)[j] = 0
  BY DEF IsString, Zeros, Digits, DigitsIn
<1> HIDE DEF m, size, a
<1>6. first \in Buffers(size) /\ 0 \in 0 .. size
  BY <1>2, <1>5 DEF Buffers, IsString
<1>7. step \in Steps(Buffers(size), m)
  <2>1. \A i \in 1 .. m : \A b \in Buffers(size) : AddByte(b, s[z + i]) \in Buffers(size)
    BY <1>2, <1>3, AddByteType
  <2>2. QED BY <2>1 DEF Steps
<1>8. ASSUME NEW i \in 0 .. m - 1, NEW b \in Buffers(size)
      PROVE  step[i + 1][b] = AddByte(b, s[z + (i + 1)]) /\ i + 1 \in 1 .. m
  BY <1>1
<1> HIDE DEF first, step
<1>9. IsRun(a, Buffers(size), first, step, m)
  BY <1>1, <1>4, <1>6, <1>7, Iterates
<1>10. 0 \in S
  <2>1. IsBuffered(first, 0, size)
    <3>1. IsValues(Values(Zeros(size), 58), Zeros(size), size, 58) /\ Len(Zeros(size)) = size
      BY <1>2, <1>5, DigitsAreNumbers, ValuesAre
    <3>2. AllZero(Zeros(size), size) /\ size \in 0 .. size
      BY <1>2, <1>5 DEF AllZero
    <3>3. Values(Zeros(size), 58)[size] = 0
      BY <1>2, <1>5, <3>1, <3>2, ZeroDigits
    <3>4. QED BY <1>5, <1>6, <3>1, <3>3 DEF first, IsBuffered, ValueOf
  <2>2. v[z] = 0
    <3>1. s \in [1 .. n -> Nat] /\ 256 \in Nat \ {0}
      BY BytesAreNumbers
    <3>2. QED BY <3>1, ZeroSoFar
  <2>3. a[0] = first
    BY <1>9 DEF IsRun
  <2>4. QED BY <1>1, <2>1, <2>2, <2>3
<1>11. ASSUME NEW i \in 0 .. m - 1, i \in S PROVE i + 1 \in S
  <2> DEFINE x == v[z + i]
             y == v[z + (i + 1)]
             byte == s[z + (i + 1)]
  <2>1. /\ z + i \in 0 .. n - 1 /\ (z + i) + 1 = z + (i + 1)
        /\ i + 1 \in 1 .. m /\ i \in 0 .. m /\ i + 1 \in 0 .. m
        /\ i + 1 \in Nat /\ i + 1 <= m
    BY <1>1 DEF m
  <2>2. v[(z + i) + 1] = x * 256 + s[(z + i) + 1] /\ x \in Nat
    BY <2>1 DEF IsValues
  <2>3. byte \in Nat
    BY <1>3, <2>1
  <2>4. y = 256 * x + byte
    BY <2>1, <2>2, <2>3
  <2>5. y \in Nat /\ y < Power(256, i + 1)
    BY <2>1, ValueBelow DEF m
  <2> HIDE DEF x, y, byte
  <2>6. Power(256, i + 1) <= Power(256, m)
    <3>1. 256 \in Nat \ {0}
      OBVIOUS
    <3>2. QED BY <1>1, <2>1, <3>1, PowerGrows
  <2>7. Power(256, i + 1) \in Nat /\ Power(256, m) \in Nat /\ Power(58, size) \in Nat
    <3>1. 256 \in Nat /\ 58 \in Nat
      OBVIOUS
    <3>2. QED BY <1>1, <1>2, <2>1, <3>1, PowerType
  <2>8. Fits(256 * x + byte, size)
    BY <1>2, <2>4, <2>5, <2>6, <2>7 DEF Fits
  <2>9. IsBuffered(a[i], x, size)
    BY <1>11 DEF x
  <2>10. IsBuffered(AddByte(a[i], byte), 256 * x + byte, size)
    BY <1>2, <2>3, <2>8, <2>9, AddByteAdds
  <2>11. a[i + 1] = AddByte(a[i], byte)
    BY <1>8, <1>9, <2>1 DEF IsRun, byte
  <2>12. IsBuffered(a[i + 1], y, size)
    BY <2>4, <2>10, <2>11
  <2>13. QED BY <2>1, <2>12 DEF y
<1>12. 0 .. m \subseteq S
  <2> HIDE DEF S
  <2> QED BY <1>1, <1>10, <1>11, UpTo
<1>13. QED
  BY <1>12 DEF a, m, size
-----------------------------------------------------------------------------
(* The digits of the number *)

\* What e, which encodes s, should be: size digits for n bytes, z of which are zeros.
IsEncoding(e, s, n, z, size, room) ==
  /\ e.within = TRUE
  /\ size \in Nat /\ size <= z + Reserved(n - z) /\ size >= z
  /\ e.fits = (room > size)
  /\ IsString(e.digits, size, Digits)
  /\ IsLeading(z, e.digits, size)
  /\ Values(e.digits, 58)[size] = Values(s, 256)[n]

LEMMA Base58Encodes ==
  ASSUME NEW n \in Nat, NEW s, IsString(s, n, Bytes), NEW room \in Nat
  PROVE  /\ IsLeading(LeadingZeros(s), s, n)
         /\ \E size : IsEncoding(Base58Encode(s, room), s, n, LeadingZeros(s), size, room)
<1> DEFINE z == LeadingZeros(s)
           m == n - z
           end == Buffered(s, z)[m]
           all == Reserved(m)
           k == LeadingZeros(end.buf)
           size == z + all - k
           digits == [i \in 1 .. size |-> IF i <= z THEN 0 ELSE end.buf[i - z + k]]
           x == Values(s, 256)[n]
<1>1. s \in [1 .. n -> Nat] /\ Len(s) = n
  BY BytesAreNumbers
<1>2. IsLeading(z, s, n)
  BY <1>1, LeadingZerosAre
<1>3. z \in 0 .. n /\ m \in Nat /\ z + m = n /\ AllZero(s, z) /\ m \in 0 .. m
  BY <1>2 DEF IsLeading, AllZero
<1>4. IsValues(Values(s, 256), s, n, 256)
  <2>1. 256 \in Nat
    OBVIOUS
  <2>2. QED BY <1>1, <2>1, ValuesAre
<1>5. IsBuffered(end, x, all)
  <2>1. \A i \in 0 .. m : IsBuffered(Buffered(s, z)[i], Values(s, 256)[z + i], all)
    <3> HIDE DEF z
    <3> QED BY <1>3, <1>4, BufferedIs
  <2> HIDE DEF z, m
  <2>2. QED BY <1>3, <2>1
<1>6. all \in Nat
  BY <1>3, ReservedIsEnough
<1> HIDE DEF z, m, all, end
<1>7. /\ IsString(end.buf, all, Digits) /\ end.within = TRUE
      /\ end.buf \in [1 .. all -> Nat] /\ Len(end.buf) = all
      /\ ValueOf(end.buf, 58) = x
  BY <1>5, <1>6, DigitsAreNumbers DEF IsBuffered
<1>8. IsLeading(k, end.buf, all)
  BY <1>6, <1>7, LeadingZerosAre
<1> HIDE DEF k
<1>9. /\ k \in 0 .. all /\ size \in Nat /\ size = z + (all - k) /\ z <= size /\ size <= z + all
      /\ k \in Nat /\ z \in Nat
  BY <1>3, <1>6, <1>8 DEF IsLeading
<1>10. Base58Encode(s, room) = [within |-> TRUE, fits |-> (room > size), digits |-> digits]
  BY <1>1, <1>7 DEF Base58Encode, z, m, end, all, k
<1> DEFINE d == digits
<1>11. \A i \in 1 .. size : d[i] = IF i <= z THEN 0 ELSE end.buf[i - z + k]
  OBVIOUS
<1>12. IsString(d, size, Digits)
  <2>1. ASSUME NEW i \in 1 .. size PROVE d[i] \in Digits
    <3>1. CASE i <= z
      BY <3>1 DEF Digits, DigitsIn
    <3>2. CASE i > z
      <4>1. i - z + k \in 1 .. all
        BY <1>6, <1>9, <3>2
      <4>2. end.buf[i - z + k] \in Digits
        BY <1>6, <1>7, <4>1, DigitIs
      <4>3. QED BY <1>9, <3>2, <4>2
    <3>3. QED BY <1>9, <3>1, <3>2
  <2>2. QED BY <2>1 DEF IsString
<1> HIDE DEF d, size
<1>13. \A i \in 1 .. all - k : d[z + i] = end.buf[k + i] /\ z + i \in 1 .. size
  <2> SUFFICES ASSUME NEW i \in 1 .. all - k
               PROVE  d[z + i] = end.buf[k + i] /\ z + i \in 1 .. size
    OBVIOUS
  <2>1. z + i \in 1 .. size /\ ~(z + i <= z) /\ (z + i) - z + k = k + i
    BY <1>6, <1>9
  <2>2. QED BY <1>11, <2>1
<1>14. IsLeading(z, d, size)
  <2>1. z \in 0 .. size /\ \A i \in 1 .. z : d[i] = 0
    BY <1>9, <1>11
  <2>2. ASSUME z < size PROVE d[z + 1] # 0
    <3>1. k < all /\ 1 \in 1 .. all - k
      BY <1>6, <1>9, <2>2
    <3>2. end.buf[k + 1] # 0
      BY <1>8, <3>1 DEF IsLeading
    <3>3. QED BY <1>13, <3>1, <3>2
  <2>3. QED BY <2>1, <2>2 DEF IsLeading
<1>15. Values(d, 58)[size] = x
  <2>1. d \in [1 .. size -> Nat] /\ Len(d) = size /\ 58 \in Nat /\ z \in 0 .. size
    BY <1>9, <1>12, DigitsAreNumbers
  <2>2. IsValues(Values(d, 58), d, size, 58)
    BY <1>9, <2>1, ValuesAre
  <2>3. IsValues(Values(end.buf, 58), end.buf, all, 58)
    BY <1>6, <1>7, <2>1, ValuesAre
  <2>4. Values(end.buf, 58)[k] = 0
    <3>1. AllZero(end.buf, k)
      BY <1>8 DEF IsLeading, AllZero
    <3>2. QED BY <1>6, <1>7, <1>9, <2>3, <3>1, ZeroDigits
  <2>5. Values(d, 58)[z] = 0
    <3>1. AllZero(d, z)
      BY <1>14 DEF IsLeading, AllZero
    <3>2. QED BY <1>9, <1>12, <2>1, <2>2, <3>1, ZeroDigits
  <2>6. IsRest(d, size, z, end.buf, all, k)
    BY <1>9, <1>13 DEF IsRest
  <2>7. Values(d, 58)[size] = Values(end.buf, 58)[all]
    BY <1>6, <1>9, <2>2, <2>3, <2>4, <2>5, <2>6, SameFrom
  <2>8. Values(end.buf, 58)[all] = x
    BY <1>7 DEF ValueOf
  <2>9. QED BY <2>7, <2>8
<1>16. IsEncoding(Base58Encode(s, room), s, n, z, size, room)
  BY <1>9, <1>10, <1>12, <1>14, <1>15 DEF IsEncoding, d, all, m
<1>17. QED
  BY <1>2, <1>16 DEF z
-----------------------------------------------------------------------------
(* b58tobin *)

LEMMA LimbIs ==
  Limb \in Nat \ {0} /\ Limb = Power(256, LimbBytes) /\ LimbBytes \in Nat \ {0}
<1>1. LimbBytes \in Nat \ {0} /\ LimbBytes \in Nat /\ 256 \in Nat \ {0}
  BY EncodingsAssumption
<1>2. Power(256, LimbBytes) \in Nat /\ Power(256, LimbBytes) >= 1
  BY <1>1, PowerPositive
<1>3. QED
  BY <1>1, <1>2 DEF Limb, BytesIn

\* A carry is a digit: 6 bits have room for it.
LEMMA CarryIsADigit ==
  ASSUME NEW b \in Nat \ {0}, NEW o \in Below(b), NEW c \in 0 .. 57
  PROVE  (o * 58 + c) \div b \in 0 .. 57 /\ o * 58 + c \in Nat
<1> DEFINE t == o * 58 + c
           q == t \div b
<1>1. o \in Nat /\ o + 1 <= b
  BY DEF Below
<1>2. t \in Nat /\ t < 58 * b
  BY <1>1
<1> HIDE DEF t
<1>3. q \in Nat /\ q * b <= t
  BY <1>2
<1> HIDE DEF q
<1>4. ASSUME q >= 58 PROVE FALSE
  <2>1. \A x \in Nat : x >= 58 => x * b >= 58 * b
    OBVIOUS
  <2>2. QED BY <1>2, <1>3, <1>4, <2>1
<1>5. QED
  BY <1>2, <1>3, <1>4 DEF q, t

IsCarriedOn(c, outi, digit, n) ==
  /\ c \in [0 .. n -> 0 .. 57]
  /\ c[0] = digit
  /\ \A i \in 0 .. n - 1 : c[i + 1] = (outi[n - i] * 58 + c[i]) \div Limb

LEMMA CarriedOnIs ==
  ASSUME NEW n \in Nat, NEW outi, IsString(outi, n, Below(Limb)), NEW digit \in Digits
  PROVE  IsCarriedOn(CarriedOn(outi, digit), outi, digit, n)
<1> DEFINE step == [i \in 1 .. n |-> [c \in Nat |-> Carry(outi[n + 1 - i] * 58 + c)]]
           c == CarriedOn(outi, digit)
           S == {i \in 0 .. n : c[i] \in 0 .. 57}
<1>1. Limb \in Nat \ {0} /\ digit \in 0 .. 57 /\ digit \in Nat
  BY LimbIs DEF Digits, DigitsIn
<1>2. outi \in [1 .. n -> Nat] /\ Len(outi) = n
  BY <1>1, BelowAreNumbers
<1>3. \A t \in Nat : Carry(t) \in Nat /\ (t \div Limb \in 0 .. 57 => Carry(t) = t \div Limb)
  BY <1>1 DEF Carry
<1>4. step \in Steps(Nat, n)
  <2>1. ASSUME NEW i \in 1 .. n, NEW x \in Nat PROVE Carry(outi[n + 1 - i] * 58 + x) \in Nat
    <3>1. n + 1 - i \in 1 .. n
      OBVIOUS
    <3>2. outi[n + 1 - i] \in Nat
      BY <1>2, <3>1
    <3>3. outi[n + 1 - i] * 58 + x \in Nat
      BY <3>2
    <3>4. QED BY <1>3, <3>3
  <2>2. QED BY <2>1 DEF Steps
<1>5. ASSUME NEW i \in 0 .. n - 1, NEW x \in Nat
      PROVE  step[i + 1][x] = Carry(outi[n - i] * 58 + x)
  <2>1. i + 1 \in 1 .. n /\ n + 1 - (i + 1) = n - i
    OBVIOUS
  <2>2. QED BY <2>1
<1>6. c = Iterate(digit, step, n)
  BY <1>2 DEF CarriedOn, DigitsIn
<1> HIDE DEF step, c
<1>7. IsRun(c, Nat, digit, step, n)
  BY <1>1, <1>4, <1>6, Iterates
<1>8. 0 \in S
  <2>1. c[0] = digit
    BY <1>7 DEF IsRun
  <2>2. QED BY <1>1, <2>1
<1>9. ASSUME NEW i \in 0 .. n - 1, c[i] \in 0 .. 57
      PROVE  c[i + 1] = (outi[n - i] * 58 + c[i]) \div Limb /\ c[i + 1] \in 0 .. 57
  <2> DEFINE o == outi[n - i]
             x == c[i]
  <2>1. c[i + 1] = Carry(o * 58 + x)
    <3>1. x \in Nat /\ c[i + 1] = step[i + 1][x]
      BY <1>7 DEF IsRun
    <3>2. QED BY <1>5, <3>1
  <2>2. o \in Below(Limb)
    <3>1. n - i \in 1 .. n
      OBVIOUS
    <3>2. QED BY <3>1 DEF IsString
  <2>3. x \in 0 .. 57
    BY <1>9
  <2> HIDE DEF o, x
  <2>4. (o * 58 + x) \div Limb \in 0 .. 57 /\ o * 58 + x \in Nat
    BY <1>1, <2>2, <2>3, CarryIsADigit
  <2>5. Carry(o * 58 + x) = (o * 58 + x) \div Limb
    BY <1>3, <2>4
  <2>6. QED BY <2>1, <2>4, <2>5 DEF o, x
<1>10. \A i \in 0 .. n - 1 : i \in S => i + 1 \in S
  BY <1>9
<1>11. 0 .. n \subseteq S
  <2> HIDE DEF S
  <2> QED BY <1>8, <1>10, UpTo
<1>12. \A i \in 0 .. n : c[i] \in 0 .. 57
  BY <1>11
<1>13. c \in [0 .. n -> 0 .. 57] /\ c[0] = digit
  BY <1>7, <1>12 DEF IsRun
<1>14. \A i \in 0 .. n - 1 : c[i + 1] = (outi[n - i] * 58 + c[i]) \div Limb
  BY <1>9, <1>12
<1>15. QED
  BY <1>13, <1>14 DEF IsCarriedOn, c

LEMMA LimbRound ==
  ASSUME NEW b \in Nat, NEW v \in Nat, NEW w \in Nat, NEW p \in Nat, NEW last \in Nat,
         NEW c \in Nat, NEW d \in Nat, NEW o \in Nat, NEW r \in Nat,
         58 * v + c = w + last * p, o * 58 + d = c * b + r
  PROVE  58 * (v * b + o) + d = (w * b + r) + last * (p * b)
<1>1. (58 * v + c) * b = (w + last * p) * b
  OBVIOUS
<1>2. (58 * v + c) * b = 58 * (v * b) + c * b
  OBVIOUS
<1>3. (w + last * p) * b = w * b + last * (p * b)
  OBVIOUS
<1>4. v * b \in Nat /\ c * b \in Nat /\ w * b \in Nat /\ last * (p * b) \in Nat
  OBVIOUS
<1>5. QED
  BY <1>1, <1>2, <1>3, <1>4

LEMMA DividedBy ==
  ASSUME NEW b \in Nat \ {0}, NEW x \in Nat
  PROVE  /\ x \div b \in Nat /\ x % b \in Below(b) /\ x % b \in Nat
         /\ x = (x \div b) * b + (x % b)
  BY DEF Below

\* new is 58 times outi and a digit, but for what is carried out of it.
IsTimes(new, c, outi, n) ==
  \A i \in 0 .. n - 1 : new[i + 1] = (outi[i + 1] * 58 + c[n - (i + 1)]) % Limb

LEMMA TimesValue ==
  ASSUME NEW n \in Nat, NEW outi, IsString(outi, n, Below(Limb)), NEW digit \in Digits,
         NEW c, IsCarriedOn(c, outi, digit, n),
         NEW new, IsTimes(new, c, outi, n), NEW v, IsValues(v, outi, n, Limb),
         NEW w, IsValues(w, new, n, Limb)
  PROVE  58 * v[n] + digit = w[n] + c[n] * Power(Limb, n)
<1> DEFINE S == {i \in 0 .. n : 58 * v[i] + c[n - i] = w[i] + c[n] * Power(Limb, i)}
<1>1. Limb \in Nat \ {0} /\ Limb \in Nat
  BY LimbIs
<1>2. 0 \in S
  <2>1. v[0] = 0 /\ w[0] = 0
    BY DEF IsValues
  <2>2. c[n] \in 0 .. 57 /\ n - 0 = n
    BY DEF IsCarriedOn
  <2>3. Power(Limb, 0) = 1
    BY <1>1, PowerZero
  <2>4. QED BY <2>1, <2>2, <2>3
<1>3. ASSUME NEW i \in 0 .. n - 1, i \in S PROVE i + 1 \in S
  <2> DEFINE k == n - (i + 1)
             o == outi[i + 1]
             r == new[i + 1]
             t == o * 58 + c[k]
             p == Power(Limb, i)
  <2>1. /\ i \in Nat /\ i \in 0 .. n /\ i + 1 \in 1 .. n /\ k \in 0 .. n - 1 /\ k + 1 = n - i
        /\ n - k = i + 1 /\ k \in 0 .. n /\ n - i \in 0 .. n
    OBVIOUS
  <2>2. v[i + 1] = v[i] * Limb + o /\ v[i] \in Nat
    BY <2>1 DEF IsValues
  <2>3. w[i + 1] = w[i] * Limb + r /\ w[i] \in Nat
    BY <2>1 DEF IsValues
  <2>4. o \in Nat
    <3>1. outi \in [1 .. n -> Nat]
      BY <1>1, BelowAreNumbers
    <3>2. QED BY <2>1, <3>1
  <2> HIDE DEF k
  <2>5. c[k] \in 0 .. 57 /\ c[n - i] \in 0 .. 57 /\ c[n] \in 0 .. 57
    BY <2>1 DEF IsCarriedOn
  <2>6. c[n - i] = t \div Limb
    <3>1. c[k + 1] = (outi[n - k] * 58 + c[k]) \div Limb
      BY <2>1 DEF IsCarriedOn
    <3>2. QED BY <2>1, <3>1
  <2>7. r = t % Limb
    BY DEF IsTimes, k
  <2>8. t \in Nat
    BY <2>4, <2>5
  <2> HIDE DEF t
  <2>9. t = c[n - i] * Limb + r /\ r \in Nat
    BY <1>1, <2>6, <2>7, <2>8, DividedBy
  <2>10. Power(Limb, i + 1) = p * Limb /\ p \in Nat
    BY <1>1, <2>1, PowerNext, PowerType
  <2>11. 58 * v[i] + c[n - i] = w[i] + c[n] * p
    BY <1>3
  <2>12. o * 58 + c[k] = c[n - i] * Limb + r
    BY <2>9 DEF t
  <2> HIDE DEF o, r, p
  <2>13. 58 * (v[i] * Limb + o) + c[k] = (w[i] * Limb + r) + c[n] * (p * Limb)
    <3> DEFINE vi == v[i]
               wi == w[i]
               cc == c[n - i]
               cn == c[n]
               ck == c[k]
    <3>1. /\ vi \in Nat /\ wi \in Nat /\ cc \in Nat /\ cn \in Nat /\ ck \in Nat
          /\ 58 * vi + cc = wi + cn * p /\ o * 58 + ck = cc * Limb + r
      BY <2>2, <2>3, <2>5, <2>11, <2>12
    <3> HIDE DEF vi, wi, cc, cn, ck
    <3>2. 58 * (vi * Limb + o) + ck = (wi * Limb + r) + cn * (p * Limb)
      BY <1>1, <2>4, <2>9, <2>10, <3>1, LimbRound
    <3>3. QED BY <3>2 DEF vi, wi, cn, ck
  <2>14. 58 * v[i + 1] + c[k] = w[i + 1] + c[n] * Power(Limb, i + 1)
    BY <2>2, <2>3, <2>10, <2>13
  <2>15. QED BY <2>1, <2>14 DEF k
<1>4. 0 .. n \subseteq S
  <2> HIDE DEF S
  <2> QED BY <1>2, <1>3, UpTo
<1>5. n \in S
  <2> HIDE DEF S
  <2> QED BY <1>4
<1>6. n - n = 0 /\ c[0] = digit
  BY DEF IsCarriedOn
<1>7. QED
  BY <1>5, <1>6

LEMMA AddDigitAdds ==
  ASSUME NEW n \in Nat, NEW outi, IsString(outi, n, Below(Limb)), NEW digit \in Digits
  PROVE  /\ IsString(AddDigit(outi, digit).outi, n, Below(Limb))
         /\ AddDigit(outi, digit).carry \in 0 .. 57
         /\ 58 * Values(outi, Limb)[n] + digit =
              Values(AddDigit(outi, digit).outi, Limb)[n]
                + AddDigit(outi, digit).carry * Power(Limb, n)
<1> DEFINE c == CarriedOn(outi, digit)
           new == [j \in 1 .. n |-> (outi[j] * 58 + c[n - j]) % Limb]
<1>1. Limb \in Nat \ {0} /\ Limb \in Nat
  BY LimbIs
<1>2. outi \in [1 .. n -> Nat] /\ Len(outi) = n
  BY <1>1, BelowAreNumbers
<1>3. IsCarriedOn(c, outi, digit, n)
  BY CarriedOnIs
<1>4. AddDigit(outi, digit) = [outi |-> new, carry |-> c[n]]
  BY <1>2 DEF AddDigit, DigitsIn
<1> HIDE DEF c
<1>5. IsString(new, n, Below(Limb))
  <2>1. ASSUME NEW j \in 1 .. n PROVE new[j] \in Below(Limb)
    <3>1. outi[j] \in Nat
      BY <1>2
    <3>2. n - j \in 0 .. n
      OBVIOUS
    <3>3. c[n - j] \in 0 .. 57
      BY <1>3, <3>2 DEF IsCarriedOn
    <3>4. outi[j] * 58 + c[n - j] \in Nat
      BY <3>1, <3>3
    <3>5. (outi[j] * 58 + c[n - j]) % Limb \in Below(Limb)
      BY <1>1, <3>4, DividedBy
    <3>6. QED BY <3>5
  <2>2. QED BY <2>1 DEF IsString
<1>6. IsTimes(new, c, outi, n)
  <2>1. \A i \in 0 .. n - 1 : i + 1 \in 1 .. n
    OBVIOUS
  <2>2. QED BY <2>1 DEF IsTimes
<1> HIDE DEF new
<1>7. IsValues(Values(outi, Limb), outi, n, Limb) /\ IsValues(Values(new, Limb), new, n, Limb)
  <2>1. new \in [1 .. n -> Nat]
    BY <1>1, <1>5, BelowAreNumbers
  <2>2. QED BY <1>1, <1>2, <2>1, ValuesAre
<1>8. 58 * Values(outi, Limb)[n] + digit = Values(new, Limb)[n] + c[n] * Power(Limb, n)
  BY <1>3, <1>6, <1>7, TimesValue
<1>9. c[n] \in 0 .. 57
  <2>1. n \in 0 .. n
    OBVIOUS
  <2>2. QED BY <1>3, <2>1 DEF IsCarriedOn
<1>10. QED
  BY <1>4, <1>5, <1>8, <1>9

LEMMA Ceiling ==
  ASSUME NEW b \in Nat \ {0}, NEW q \in Nat, NEW r \in 0 .. b - 1
  PROVE  (q * b + r + b - 1) \div b = IF r = 0 THEN q ELSE q + 1
<1>1. q * b \in Nat /\ (q + 1) * b = q * b + b
  OBVIOUS
<1>2. \A x, y \in Nat : y * b <= x /\ x < (y + 1) * b => x \div b = y
  OBVIOUS
<1>3. CASE r = 0
  <2>1. q * b <= q * b + b - 1 /\ q * b + b - 1 < (q + 1) * b /\ q * b + b - 1 \in Nat
    BY <1>1
  <2>2. QED BY <1>2, <1>3, <2>1
<1>4. CASE r # 0
  <2>1. (q + 1 + 1) * b = q * b + b + b
    BY <1>1
  <2>2. (q + 1) * b <= q * b + r + b - 1 /\ q * b + r + b - 1 < (q + 1 + 1) * b
        /\ q * b + r + b - 1 \in Nat /\ q + 1 \in Nat
    BY <1>1, <1>4, <2>1
  <2>3. QED BY <1>2, <1>4, <2>2
<1>5. QED
  BY <1>3, <1>4

\* n limbs have size bytes, r of them in the first, if it is not used in full.
IsLimbs(n, r, size) ==
  /\ n \in Nat
  /\ r \in Nat
  /\ r = 0 => n * LimbBytes = size
  /\ r # 0 => n - 1 \in Nat /\ (n - 1) * LimbBytes + r = size
  /\ n * LimbBytes >= size

LEMMA LimbsAre ==
  ASSUME NEW size \in Nat
  PROVE  IsLimbs(LimbsFor(size), size % LimbBytes, size)
<1> DEFINE b == LimbBytes
           q == size \div b
           r == size % b
<1>1. b \in Nat \ {0}
  BY LimbIs
<1> HIDE DEF b
<1>2. q \in Nat /\ r \in 0 .. b - 1 /\ size = q * b + r /\ r \in Nat
  BY <1>1, DividedBy DEF Below
<1> HIDE DEF q, r
<1>3. (q * b + r + b - 1) \div b = IF r = 0 THEN q ELSE q + 1
  BY <1>1, <1>2, Ceiling
<1>4. LimbsFor(size) = IF r = 0 THEN q ELSE q + 1
  BY <1>2, <1>3 DEF LimbsFor, b
<1>5. CASE r = 0
  <2>1. q * b + 0 = q * b
    BY <1>1, <1>2
  <2>2. QED BY <1>1, <1>2, <1>4, <1>5, <2>1 DEF IsLimbs, b, r
<1>6. CASE r # 0
  <2>1. (q + 1) * b = q * b + b /\ (q + 1) - 1 = q /\ q + 1 \in Nat /\ q * b \in Nat
    BY <1>1, <1>2
  <2>2. (q + 1) * b >= size
    BY <1>1, <1>2, <2>1
  <2>3. QED BY <1>1, <1>2, <1>4, <1>6, <2>1, <2>2 DEF IsLimbs, b, r
<1>7. QED
  BY <1>5, <1>6

LEMMA LimbPower ==
  ASSUME NEW k \in Nat
  PROVE  Power(Limb, k) = Power(256, k * LimbBytes) /\ k * LimbBytes \in Nat
<1>1. LimbBytes \in Nat /\ 256 \in Nat /\ Limb = Power(256, LimbBytes)
  BY LimbIs
<1>2. Power(Power(256, LimbBytes), k) = Power(256, LimbBytes * k)
  BY <1>1, PowerTimes
<1>3. LimbBytes * k = k * LimbBytes /\ k * LimbBytes \in Nat
  BY <1>1
<1>4. QED
  BY <1>1, <1>2, <1>3

\* The limbs have room for size bytes.
LEMMA LimbsHold ==
  ASSUME NEW size \in Nat, NEW n, NEW r, IsLimbs(n, r, size)
  PROVE  Power(Limb, n) \in Nat /\ Power(256, size) \in Nat /\ Power(Limb, n) >= Power(256, size)
<1>1. n \in Nat /\ n * LimbBytes >= size /\ 256 \in Nat \ {0} /\ 256 \in Nat
  BY DEF IsLimbs
<1> DEFINE m == n * LimbBytes
<1>2. Power(Limb, n) = Power(256, m) /\ m \in Nat /\ size <= m
  BY <1>1, LimbPower
<1> HIDE DEF m
<1>3. Power(256, size) <= Power(256, m) /\ Power(256, size) \in Nat /\ Power(256, m) \in Nat
  BY <1>1, <1>2, PowerGrows, PowerType
<1>4. QED
  BY <1>2, <1>3

LEMMA LimbsValue ==
  ASSUME NEW n \in Nat, NEW new, IsString(new, n, Below(Limb))
  PROVE  /\ IsValues(Values(new, Limb), new, n, Limb)
         /\ Values(new, Limb)[n] \in Nat /\ Values(new, Limb)[n] < Power(Limb, n)
<1> DEFINE w == Values(new, Limb)
<1>1. Limb \in Nat \ {0} /\ Limb \in Nat
  BY LimbIs
<1>2. IsValues(w, new, n, Limb)
  <2>1. new \in [1 .. n -> Nat]
    BY <1>1, BelowAreNumbers
  <2>2. QED BY <1>1, <2>1, ValuesAre
<1> HIDE DEF w
<1>3. 0 \in 0 .. n /\ n \in 0 .. n - 0 /\ 0 + n = n
  OBVIOUS
<1>4. w[0 + n] \in Nat /\ w[0 + n] < (w[0] + 1) * Power(Limb, n)
  BY <1>1, <1>2, <1>3, PrefixValue
<1>5. w[0] = 0
  BY <1>2 DEF IsValues
<1>6. Power(Limb, n) \in Nat
  BY <1>1, PowerType
<1>7. QED
  BY <1>2, <1>3, <1>4, <1>5, <1>6 DEF w

\* The limbs and what was carried out of them are a number of more than size bytes.
LEMMA TooBigIs ==
  ASSUME NEW size \in Nat, NEW n, NEW r, IsLimbs(n, r, size),
         NEW new, IsString(new, n, Below(Limb)), NEW carry \in 0 .. 57
  PROVE  TooBig([outi |-> new, carry |-> carry], r) <=>
           Values(new, Limb)[n] + carry * Power(Limb, n) >= Power(256, size)
<1> DEFINE w == Values(new, Limb)
           x == w[n]
           p == Power(Limb, n)
           all == Power(256, size)
<1>1. n \in Nat /\ r \in Nat /\ n * LimbBytes >= size
  BY DEF IsLimbs
<1>2. Limb \in Nat \ {0} /\ Limb \in Nat /\ 256 \in Nat \ {0} /\ 256 \in Nat
  BY LimbIs
<1>3. IsValues(w, new, n, Limb) /\ x \in Nat /\ x < p
  BY <1>1, LimbsValue
<1>4. x \in Nat /\ x < p
  BY <1>3
<1>5. p \in Nat /\ all \in Nat /\ p >= all
  BY LimbsHold
<1> DEFINE added == [outi |-> new, carry |-> carry]
<1>6. TooBig(added, r) <=> carry # 0 \/ (r # 0 /\ new[1] >= Power(256, r))
  BY DEF TooBig, BytesIn
<1> HIDE DEF added, x, p, all, w
<1>7. CASE carry # 0
  <2>1. carry * p >= p
    BY <1>5, <1>7
  <2>2. x + carry * p >= all
    BY <1>4, <1>5, <2>1
  <2>3. QED BY <1>6, <1>7, <2>2 DEF added, x, p, all, w
<1>8. CASE carry = 0 /\ r = 0
  <2>1. p = all
    BY <1>1, <1>8, LimbPower DEF IsLimbs, p, all
  <2>2. x + carry * p = x
    BY <1>4, <1>5, <1>8
  <2>3. ~(x + carry * p >= all)
    BY <1>4, <1>5, <2>1, <2>2
  <2>4. QED BY <1>6, <1>8, <2>3 DEF added, x, p, all, w
<1>9. CASE carry = 0 /\ r # 0
  <2> DEFINE k == n - 1
             first == new[1]
             q == Power(Limb, k)
             f == Power(256, r)
  <2>1. k \in Nat /\ k * LimbBytes + r = size /\ 1 \in 0 .. n /\ 1 \in 1 .. n /\ k \in 0 .. n - 1
        /\ 1 + k = n /\ 0 \in 0 .. n - 1 /\ 0 + 1 = 1
    BY <1>1, <1>9 DEF IsLimbs
  <2> HIDE DEF k
  <2>2. w[1] = first
    <3>1. w[0 + 1] = w[0] * Limb + new[0 + 1] /\ w[0] = 0
      BY <1>3, <2>1 DEF IsValues
    <3>2. new[1] \in Nat
      BY <1>1, <1>2, <2>1, BelowAreNumbers
    <3>3. QED BY <1>2, <2>1, <3>1, <3>2
  <2>3. first \in Nat /\ first * q <= x /\ x < (first + 1) * q
    <3>1. /\ w[1] \in Nat
          /\ w[1] * Power(Limb, k) <= w[1 + k] /\ w[1 + k] < (w[1] + 1) * Power(Limb, k)
      BY <1>1, <1>2, <1>3, <2>1, PrefixValue
    <3>2. QED BY <2>1, <2>2, <3>1 DEF x
  <2>4. q \in Nat /\ f \in Nat /\ all = q * f
    <3> DEFINE m == k * LimbBytes
    <3>1. q = Power(256, m) /\ m \in Nat /\ m + r = size
      BY <2>1, LimbPower
    <3> HIDE DEF m
    <3>2. Power(256, m + r) = Power(256, m) * Power(256, r)
      BY <1>1, <1>2, <3>1, PowerPlus
    <3>3. Power(256, m) \in Nat /\ Power(256, r) \in Nat
      BY <1>1, <1>2, <3>1, PowerType
    <3>4. QED BY <3>1, <3>2, <3>3 DEF all
  <2> HIDE DEF first, q, f
  <2>5. \A y, z \in Nat : y <= z => y * q <= z * q
    BY <2>4
  <2>6. ASSUME first >= f PROVE x >= all
    <3>1. f * q <= first * q
      BY <2>3, <2>4, <2>5, <2>6
    <3>2. f * q = q * f /\ f * q \in Nat /\ first * q \in Nat
      BY <2>3, <2>4
    <3>3. QED BY <1>4, <2>3, <2>4, <3>1, <3>2
  <2>7. ASSUME ~(first >= f) PROVE ~(x >= all)
    <3>1. first + 1 <= f /\ first + 1 \in Nat
      BY <2>3, <2>4, <2>7
    <3>2. (first + 1) * q <= f * q
      BY <2>4, <2>5, <3>1
    <3>3. f * q = q * f /\ f * q \in Nat /\ (first + 1) * q \in Nat
      BY <2>4, <3>1
    <3>4. QED BY <1>4, <2>3, <2>4, <3>2, <3>3
  <2>8. x + carry * p = x
    BY <1>4, <1>5, <1>9
  <2>9. TooBig(added, r) <=> x >= all
    BY <1>6, <1>9, <2>6, <2>7 DEF first, f
  <2>10. QED BY <2>8, <2>9 DEF added, x, p, all, w
<1>10. QED
  BY <1>7, <1>8, <1>9

\* The limbs are the number x, unless it has more than size bytes.
IsRead(a, x, n, size) ==
  /\ a.ok <=> x < Power(256, size)
  /\ a.ok => IsString(a.outi, n, Below(Limb)) /\ Values(a.outi, Limb)[n] = x

Texts == Digits \cup {NotADigit}

LEMMA DigitsAreTexts ==
  ASSUME NEW n \in Nat, NEW t, IsString(t, n, Digits)
  PROVE  IsString(t, n, Texts)
  BY DEF IsString, Texts

LEMMA ReadDigitType ==
  ASSUME NEW size \in Nat, NEW n \in Nat, NEW a \in Outputs(n), NEW digit \in Texts
  PROVE  /\ ReadDigit(a, digit, size) \in Outputs(n)
         /\ ReadDigit(a, digit, size).ok => a.ok /\ digit # NotADigit
<1>1. a.outi \in [1 .. n -> 0 .. Limb - 1] /\ a.ok \in BOOLEAN
  BY DEF Outputs
<1>2. IsString(a.outi, n, Below(Limb))
  BY <1>1 DEF IsString, Below
<1>3. CASE ~a.ok \/ digit = NotADigit
  <2>1. ReadDigit(a, digit, size) = [a EXCEPT !.ok = FALSE]
    BY <1>3 DEF ReadDigit
  <2>2. QED BY <2>1 DEF Outputs
<1>4. CASE ~(~a.ok \/ digit = NotADigit)
  <2> DEFINE added == AddDigit(a.outi, digit)
             big == TooBig(added, size % LimbBytes)
  <2>1. digit \in Digits
    BY <1>4 DEF Texts
  <2>2. IsString(added.outi, n, Below(Limb))
    BY <1>2, <2>1, AddDigitAdds
  <2>3. ReadDigit(a, digit, size) = [outi |-> added.outi, ok |-> ~big]
    BY <1>4 DEF ReadDigit
  <2> HIDE DEF added, big
  <2>4. [outi |-> added.outi, ok |-> ~big] \in Outputs(n)
    BY <2>2 DEF Outputs, IsString, Below
  <2>5. QED BY <1>4, <2>3, <2>4
<1>5. QED
  BY <1>3, <1>4

LEMMA ReadDigitReads ==
  ASSUME NEW size \in Nat, NEW a \in Outputs(LimbsFor(size)), NEW x \in Nat,
         IsRead(a, x, LimbsFor(size), size), NEW digit \in Digits
  PROVE  IsRead(ReadDigit(a, digit, size), 58 * x + digit, LimbsFor(size), size)
<1> DEFINE n == LimbsFor(size)
           r == size % LimbBytes
           y == 58 * x + digit
           all == Power(256, size)
           added == AddDigit(a.outi, digit)
<1>1. IsLimbs(n, r, size) /\ n \in Nat
  BY LimbsAre DEF IsLimbs
<1>2. digit # NotADigit /\ digit \in Nat /\ y \in Nat /\ y >= x
  BY DEF Digits, DigitsIn, NotADigit
<1>3. all \in Nat
  <2>1. 256 \in Nat
    OBVIOUS
  <2>2. QED BY <2>1, PowerType
<1>4. (a.ok <=> x < all) /\ (a.ok => IsString(a.outi, n, Below(Limb)) /\ Values(a.outi, Limb)[n] = x)
  BY DEF IsRead
<1>5. a.ok \in BOOLEAN
  BY DEF Outputs
<1> HIDE DEF n, y, all
<1>6. CASE ~a.ok
  <2>1. ReadDigit(a, digit, size) = [a EXCEPT !.ok = FALSE]
    BY <1>6 DEF ReadDigit
  <2>2. ReadDigit(a, digit, size).ok = FALSE
    BY <2>1 DEF Outputs
  <2>3. ~(y < all)
    BY <1>2, <1>3, <1>4, <1>6
  <2> DEFINE u == ReadDigit(a, digit, size)
  <2>4. u.ok = FALSE
    BY <2>2
  <2> HIDE DEF u
  <2>5. IsRead(u, y, n, size)
    BY <2>3, <2>4 DEF IsRead, all
  <2>6. QED BY <2>5 DEF u, n, y
<1>7. CASE a.ok
  <2>1. IsString(a.outi, n, Below(Limb)) /\ Values(a.outi, Limb)[n] = x
    BY <1>4, <1>7
  <2>2. /\ IsString(added.outi, n, Below(Limb)) /\ added.carry \in 0 .. 57
        /\ y = Values(added.outi, Limb)[n] + added.carry * Power(Limb, n)
    BY <1>1, <2>1, AddDigitAdds DEF y
  <2>3. added = [outi |-> added.outi, carry |-> added.carry]
    BY DEF AddDigit
  <2>4. ReadDigit(a, digit, size) = [outi |-> added.outi, ok |-> ~TooBig(added, r)]
    BY <1>2, <1>7 DEF ReadDigit
  <2> DEFINE new == added.outi
             carry == added.carry
  <2> HIDE DEF added, r, new, carry
  <2>5. IsString(new, n, Below(Limb)) /\ carry \in 0 .. 57
    BY <2>2 DEF new, carry
  <2>6. TooBig([outi |-> new, carry |-> carry], r) <=>
          Values(new, Limb)[n] + carry * Power(Limb, n) >= all
    BY <1>1, <2>5, TooBigIs DEF all
  <2>7. TooBig(added, r) <=> y >= all
    BY <2>2, <2>3, <2>6 DEF new, carry
  <2>8. ASSUME y < all PROVE Values(new, Limb)[n] = y
    <3>1. carry = 0
      <4>1. Power(Limb, n) >= all /\ Power(Limb, n) \in Nat
        BY <1>1, LimbsHold DEF all
      <4>2. Values(new, Limb)[n] \in Nat
        BY <1>1, <2>5, LimbsValue
      <4>3. carry # 0 => carry * Power(Limb, n) >= Power(Limb, n)
        BY <2>5, <4>1
      <4>4. y = Values(new, Limb)[n] + carry * Power(Limb, n)
        BY <2>2 DEF new, carry
      <4>5. carry * Power(Limb, n) \in Nat
        BY <2>5, <4>1
      <4>6. QED BY <1>2, <1>3, <2>8, <4>1, <4>2, <4>3, <4>4, <4>5
    <3>2. y = Values(new, Limb)[n] + 0 * Power(Limb, n)
      BY <2>2, <3>1 DEF new, carry
    <3>3. Power(Limb, n) \in Nat /\ Values(new, Limb)[n] \in Nat
      BY <1>1, <2>5, LimbsHold, LimbsValue
    <3>4. QED BY <3>2, <3>3
  <2>9. ReadDigit(a, digit, size) = [outi |-> new, ok |-> (y < all)]
    <3>1. ~(y >= all) <=> y < all
      BY <1>2, <1>3
    <3>2. QED BY <2>4, <2>7, <3>1 DEF new
  <2>10. IsRead([outi |-> new, ok |-> (y < all)], y, n, size)
    BY <2>5, <2>8 DEF IsRead, all
  <2>11. QED BY <2>9, <2>10 DEF n, y
<1>8. QED
  BY <1>5, <1>6, <1>7

\* The limbs after each digit that follows the first z.
IsReading(a, t, z, m, size) ==
  /\ \A i \in 0 .. m : a[i] \in Outputs(LimbsFor(size))
  /\ a[0] = [outi |-> Zeros(LimbsFor(size)), ok |-> TRUE]
  /\ \A i \in 0 .. m - 1 : a[i + 1] = ReadDigit(a[i], t[z + (i + 1)], size)

LEMMA ReadRuns ==
  ASSUME NEW size \in Nat, NEW n \in Nat, NEW t, IsString(t, n, Texts), NEW z \in 0 .. n
  PROVE  IsReading(Read(t, z, size), t, z, n - z, size)
<1> DEFINE m == n - z
           k == LimbsFor(size)
           a == Read(t, z, size)
           first == [outi |-> Zeros(k), ok |-> TRUE]
           step == [i \in 1 .. m |-> [b \in Outputs(k) |-> ReadDigit(b, t[z + i], size)]]
<1>1. m \in Nat /\ Len(t) = n
  BY LenIs DEF IsString
<1>2. k \in Nat
  BY LimbsAre DEF IsLimbs
<1>3. a = Iterate(first, step, m)
  BY <1>1 DEF Read
<1>4. ASSUME NEW i \in 1 .. m PROVE t[z + i] \in Texts
  <2>1. z + i \in 1 .. n
    OBVIOUS
  <2>2. QED BY <2>1 DEF IsString
<1> HIDE DEF m, k, a
<1>5. first \in Outputs(k)
  <2>1. Limb \in Nat \ {0}
    BY LimbIs
  <2>2. 0 \in 0 .. Limb - 1
    BY <2>1
  <2>3. QED BY <1>2, <2>2 DEF Outputs, Zeros
<1>6. step \in Steps(Outputs(k), m)
  <2>1. \A i \in 1 .. m : \A b \in Outputs(k) : ReadDigit(b, t[z + i], size) \in Outputs(k)
    BY <1>2, <1>4, ReadDigitType
  <2>2. QED BY <2>1 DEF Steps
<1>7. ASSUME NEW i \in 0 .. m - 1, NEW b \in Outputs(k)
      PROVE  step[i + 1][b] = ReadDigit(b, t[z + (i + 1)], size)
  <2>1. i + 1 \in 1 .. m
    BY <1>1
  <2>2. QED BY <2>1
<1> HIDE DEF first, step
<1>8. IsRun(a, Outputs(k), first, step, m)
  BY <1>1, <1>3, <1>5, <1>6, Iterates
<1>9. /\ \A i \in 0 .. m : a[i] \in Outputs(k)
      /\ a[0] = first
      /\ \A i \in 0 .. m - 1 : a[i + 1] = step[i + 1][a[i]]
  BY <1>8 DEF IsRun
<1>10. \A i \in 0 .. m - 1 : a[i + 1] = ReadDigit(a[i], t[z + (i + 1)], size)
  <2>1. \A i \in 0 .. m - 1 : i \in 0 .. m
    BY <1>1
  <2>2. QED BY <1>7, <1>9, <2>1
<1>11. IsReading(a, t, z, m, size)
  BY <1>9, <1>10 DEF IsReading, first, k
<1>12. QED
  BY <1>11 DEF a, m

\* A string with a character that is no digit is not read.
LEMMA OnlyDigitsAreRead ==
  ASSUME NEW size \in Nat, NEW n \in Nat, NEW t, IsString(t, n, Texts), NEW z \in 0 .. n,
         AllZero(t, z), NEW a, IsReading(a, t, z, n - z, size), a[n - z].ok
  PROVE  IsString(t, n, Digits)
<1> DEFINE m == n - z
           S == {i \in 0 .. m : a[i].ok => \A j \in 1 .. i : t[z + j] # NotADigit}
<1>1. m \in Nat /\ LimbsFor(size) \in Nat
  BY LimbsAre DEF IsLimbs
<1>2. 0 \in S
  OBVIOUS
<1>3. ASSUME NEW i \in 0 .. m - 1, i \in S PROVE i + 1 \in S
  <2> DEFINE digit == t[z + (i + 1)]
             b == a[i]
  <2>1. z + (i + 1) \in 1 .. n /\ i \in 0 .. m
    OBVIOUS
  <2>2. digit \in Texts
    BY <2>1 DEF IsString
  <2>3. b \in Outputs(LimbsFor(size)) /\ a[i + 1] = ReadDigit(b, digit, size)
    BY <2>1 DEF IsReading
  <2> HIDE DEF b, digit
  <2>4. ReadDigit(b, digit, size).ok => b.ok /\ digit # NotADigit
    BY <1>1, <2>2, <2>3, ReadDigitType
  <2>5. a[i + 1].ok => \A j \in 1 .. i : t[z + j] # NotADigit
    BY <1>3, <2>3, <2>4 DEF b
  <2>6. a[i + 1].ok => t[z + (i + 1)] # NotADigit
    BY <2>3, <2>4 DEF digit
  <2>7. QED BY <2>5, <2>6
<1>4. 0 .. m \subseteq S
  <2> HIDE DEF S, m
  <2> QED BY <1>1, <1>2, <1>3, UpTo
<1>5. m \in S
  <2> HIDE DEF S
  <2> QED BY <1>1, <1>4
<1>6. \A j \in 1 .. m : t[z + j] # NotADigit
  BY <1>5
<1>7. ASSUME NEW i \in 1 .. n PROVE t[i] \in Digits
  <2>1. CASE i <= z
    <3>1. t[i] = 0
      BY <2>1 DEF AllZero
    <3>2. QED BY <3>1 DEF Digits, DigitsIn
  <2>2. CASE i > z
    <3>1. i - z \in 1 .. m /\ z + (i - z) = i
      BY <2>2
    <3>2. t[i] # NotADigit
      BY <1>6, <3>1
    <3>3. t[i] \in Texts
      BY DEF IsString
    <3>4. QED BY <3>2, <3>3 DEF Texts
  <2>3. QED BY <2>1, <2>2
<1>8. t \in [1 .. n -> Digits]
  BY <1>7 DEF IsString
<1>9. QED
  BY <1>8 DEF IsString

\* What is read is the number that the digits are.
LEMMA ReadIs ==
  ASSUME NEW size \in Nat, NEW n \in Nat, NEW t, IsString(t, n, Digits), NEW z \in 0 .. n,
         AllZero(t, z), NEW a, IsReading(a, t, z, n - z, size)
  PROVE  IsRead(a[n - z], Values(t, 58)[n], LimbsFor(size), size)
<1> DEFINE m == n - z
           k == LimbsFor(size)
           v == Values(t, 58)
           S == {i \in 0 .. m : IsRead(a[i], v[z + i], k, size)}
<1>1. m \in Nat /\ k \in Nat /\ z + 0 = z /\ z + m = n
  BY LimbsAre DEF IsLimbs
<1>2. IsValues(v, t, n, 58)
  <2>1. t \in [1 .. n -> Nat] /\ 58 \in Nat
    BY DigitsAreNumbers
  <2>2. QED BY <2>1, ValuesAre
<1> HIDE DEF v, k
<1>3. 0 \in S
  <2>1. v[z] = 0
    BY <1>2, ZeroDigits
  <2>2. a[0] = [outi |-> Zeros(k), ok |-> TRUE]
    BY DEF IsReading, k
  <2>3. IsString(Zeros(k), k, Below(Limb)) /\ AllZero(Zeros(k), k)
    <3>1. Limb \in Nat \ {0}
      BY LimbIs
    <3>2. 0 \in Below(Limb)
      BY <3>1 DEF Below
    <3>3. QED BY <1>1, <3>2 DEF Zeros, IsString, AllZero
  <2>4. Values(Zeros(k), Limb)[k] = 0
    <3> DEFINE zeros == Zeros(k)
    <3>1. IsValues(Values(zeros, Limb), zeros, k, Limb)
      BY <1>1, <2>3, LimbsValue
    <3>2. Limb \in Nat \ {0} /\ k \in 0 .. k
      BY <1>1, LimbIs
    <3>3. IsString(zeros, k, Below(Limb)) /\ AllZero(zeros, k)
      BY <2>3
    <3> HIDE DEF zeros
    <3>4. Values(zeros, Limb)[k] = 0
      BY <1>1, <3>1, <3>2, <3>3, ZeroBelow
    <3>5. QED BY <3>4 DEF zeros
  <2>5. 0 < Power(256, size)
    <3>1. 256 \in Nat \ {0}
      OBVIOUS
    <3>2. Power(256, size) \in Nat /\ Power(256, size) >= 1
      BY <3>1, PowerPositive
    <3>3. QED BY <3>2
  <2>6. IsRead(a[0], 0, k, size)
    BY <2>2, <2>3, <2>4, <2>5 DEF IsRead
  <2>7. QED BY <1>1, <2>1, <2>6
<1>4. ASSUME NEW i \in 0 .. m - 1, i \in S PROVE i + 1 \in S
  <2> DEFINE x == v[z + i]
             digit == t[z + (i + 1)]
             b == a[i]
  <2>1. /\ z + i \in 0 .. n - 1 /\ (z + i) + 1 = z + (i + 1) /\ (z + i) + 1 \in 1 .. n
        /\ i \in 0 .. m /\ z + (i + 1) \in 1 .. n
    BY <1>1
  <2>2. v[z + (i + 1)] = 58 * x + digit /\ x \in Nat
    <3>1. v[(z + i) + 1] = x * 58 + t[(z + i) + 1] /\ x \in Nat
      BY <1>2, <2>1 DEF IsValues
    <3>2. digit \in Nat
      BY <2>1, DigitIs
    <3>3. QED BY <2>1, <3>1, <3>2
  <2>3. digit \in Digits
    BY <2>1, DigitIs
  <2>4. b \in Outputs(k) /\ a[i + 1] = ReadDigit(b, digit, size)
    BY <2>1 DEF IsReading, k
  <2>5. IsRead(b, x, k, size)
    BY <1>4
  <2> HIDE DEF x, digit, b
  <2>6. IsRead(ReadDigit(b, digit, size), 58 * x + digit, k, size)
    BY <2>2, <2>3, <2>4, <2>5, ReadDigitReads DEF k
  <2>7. IsRead(a[i + 1], v[z + (i + 1)], k, size)
    BY <2>2, <2>4, <2>6
  <2>8. QED BY <2>7
<1>5. 0 .. m \subseteq S
  <2> HIDE DEF S, m
  <2> QED BY <1>1, <1>3, <1>4, UpTo
<1>6. m \in S
  <2> HIDE DEF S
  <2> QED BY <1>1, <1>5
<1>7. QED
  BY <1>1, <1>6 DEF v, k
-----------------------------------------------------------------------------
(* The bytes of the number *)

LEMMA IndexIs ==
  ASSUME NEW b \in Nat \ {0}, NEW j \in Nat, NEW k \in 0 .. b - 1
  PROVE  (j * b + k) \div b = j /\ (j * b + k) % b = k
<1>1. j * b \in Nat
  OBVIOUS
<1>2. QED
  BY <1>1

LEMMA IndexBelow ==
  ASSUME NEW b \in Nat \ {0}, NEW n \in Nat, NEW j \in 0 .. n - 1, NEW k \in 0 .. b - 1
  PROVE  j * b \in Nat /\ n * b \in Nat /\ j * b + k \in 0 .. n * b - 1 /\ (j + 1) * b = j * b + b
         /\ (j + 1) * b <= n * b
<1>1. j * b \in Nat /\ n * b \in Nat /\ (j + 1) * b = j * b + b
  OBVIOUS
<1>2. (j + 1) * b <= n * b
  <2>1. \A x, y \in Nat : x <= y => x * b <= y * b
    OBVIOUS
  <2>2. j + 1 \in Nat /\ j + 1 <= n
    OBVIOUS
  <2>3. QED BY <2>1, <2>2
<1>3. QED
  BY <1>1, <1>2

TwiceDivided(x, a) ==
  /\ x \div a \in Nat
  /\ x \div a = 256 * (x \div (a * 256)) + ((x \div a) % 256)

LEMMA DividedTwice ==
  ASSUME NEW x \in Nat, NEW a \in Nat \ {0}
  PROVE  TwiceDivided(x, a)
<1> DEFINE y == x \div a
<1>1. y \in Nat
  OBVIOUS
<1>2. y \div 256 = x \div (a * 256)
  OBVIOUS
<1> HIDE DEF y
<1>3. y = 256 * (y \div 256) + (y % 256)
  BY <1>1
<1>4. QED
  BY <1>1, <1>2, <1>3 DEF y, TwiceDivided

\* The bytes of each limb, the first ones first.
IsSpread(bytes, outi, n) ==
  /\ IsString(bytes, n * LimbBytes, Bytes)
  /\ \A j \in 0 .. n - 1 : \A k \in 0 .. LimbBytes - 1 :
       bytes[(j * LimbBytes + k) + 1] =
         (outi[j + 1] \div Power(256, LimbBytes - 1 - k)) % 256

LEMMA LimbsSpread ==
  ASSUME NEW n \in Nat, NEW outi, IsString(outi, n, Below(Limb))
  PROVE  IsSpread(LimbsToBytes(outi), outi, n)
<1> DEFINE b == LimbBytes
           bytes == LimbsToBytes(outi)
<1>1. b \in Nat \ {0} /\ 256 \in Nat \ {0}
  BY LimbIs
<1>2. outi \in [1 .. n -> Nat] /\ Len(outi) = n
  BY LimbIs, BelowAreNumbers
<1>3. bytes = [p \in 1 .. n * b |->
                 (outi[((p - 1) \div b) + 1] \div Power(256, b - 1 - ((p - 1) % b))) % 256]
  BY <1>2 DEF LimbsToBytes, BytesIn
<1> HIDE DEF b, bytes
<1>4. ASSUME NEW j \in 0 .. n - 1, NEW k \in 0 .. b - 1
      PROVE  /\ bytes[(j * b + k) + 1] = (outi[j + 1] \div Power(256, b - 1 - k)) % 256
             /\ bytes[(j * b + k) + 1] \in Bytes
  <2> DEFINE p == (j * b + k) + 1
  <2>1. j * b \in Nat /\ j * b + k \in 0 .. n * b - 1 /\ n * b \in Nat
    BY <1>1, IndexBelow
  <2>2. p \in 1 .. n * b /\ p - 1 = j * b + k
    BY <2>1
  <2>3. (j * b + k) \div b = j /\ (j * b + k) % b = k
    BY <1>1, IndexIs
  <2> HIDE DEF p
  <2>4. (p - 1) \div b = j /\ (p - 1) % b = k
    BY <2>2, <2>3
  <2>5. bytes[p] = (outi[j + 1] \div Power(256, b - 1 - k)) % 256
    BY <1>3, <2>2, <2>4
  <2>6. outi[j + 1] \in Nat
    BY <1>2
  <2>7. Power(256, b - 1 - k) \in Nat \ {0}
    <3> DEFINE e == b - 1 - k
    <3>1. e \in Nat
      BY <1>1
    <3> HIDE DEF e
    <3>2. Power(256, e) \in Nat /\ Power(256, e) >= 1
      BY <1>1, <3>1, PowerPositive
    <3>3. QED BY <3>2 DEF e
  <2>8. \A x \in Nat : x % 256 \in Bytes
    BY DEF Bytes, BytesIn
  <2>9. outi[j + 1] \div Power(256, b - 1 - k) \in Nat
    BY <2>6, <2>7, DividedBy
  <2>10. QED BY <2>5, <2>8, <2>9 DEF p
<1>5. ASSUME NEW p \in 1 .. n * b PROVE bytes[p] \in Bytes
  <2> DEFINE j == (p - 1) \div b
             k == (p - 1) % b
  <2>1. n * b \in Nat /\ p - 1 \in Nat
    BY <1>1
  <2>2. j \in Nat /\ k \in 0 .. b - 1 /\ p - 1 = j * b + k
    BY <1>1, <2>1, DividedBy DEF Below
  <2> HIDE DEF j, k
  <2>3. j * b \in Nat /\ j * b < n * b
    BY <1>1, <2>1, <2>2
  <2>4. j < n
    <3>1. \A x, y \in Nat : y <= x => y * b <= x * b
      BY <1>1
    <3>2. QED BY <2>1, <2>2, <2>3, <3>1
  <2>5. j \in 0 .. n - 1 /\ (j * b + k) + 1 = p
    BY <2>1, <2>2, <2>3, <2>4
  <2>6. bytes[(j * b + k) + 1] \in Bytes
    BY <1>4, <2>2, <2>5
  <2>7. QED BY <2>5, <2>6
<1>6. IsString(bytes, n * b, Bytes)
  BY <1>3, <1>5 DEF IsString
<1>7. QED
  BY <1>4, <1>6 DEF IsSpread, b, bytes

\* Going over the bytes of one limb.
LEMMA OneLimb ==
  ASSUME NEW n \in Nat, NEW outi, IsString(outi, n, Below(Limb)),
         NEW bytes, IsSpread(bytes, outi, n),
         NEW u, IsValues(u, bytes, n * LimbBytes, 256),
         NEW v, IsValues(v, outi, n, Limb),
         NEW j \in 0 .. n - 1, u[j * LimbBytes] = v[j]
  PROVE  u[(j + 1) * LimbBytes] = v[j + 1]
<1> DEFINE b == LimbBytes
           o == outi[j + 1]
           w == v[j]
           at == j * b
           S == {k \in 0 .. b : u[at + k] = w * Power(256, k) + (o \div Power(256, b - k))}
<1>1. b \in Nat \ {0} /\ Limb = Power(256, b) /\ 256 \in Nat \ {0} /\ 256 \in Nat /\ b \in Nat
      /\ Limb \in Nat \ {0}
  BY LimbIs
<1>2. o \in Nat /\ o < Limb
  <2>1. o \in Below(Limb)
    BY DEF IsString
  <2>2. QED BY <1>1, <2>1 DEF Below
<1>3. v[j + 1] = w * Limb + o /\ w \in Nat
  BY DEF IsValues
<1> HIDE DEF o, w, b
<1>4. at \in Nat /\ at + 0 = at /\ (j + 1) * b = at + b
  BY <1>1
<1>5. ASSUME NEW k \in Nat
      PROVE  Power(256, k) \in Nat \ {0} /\ Power(256, k + 1) = Power(256, k) * 256
  <2>1. Power(256, k) \in Nat /\ Power(256, k) >= 1
    BY <1>1, PowerPositive
  <2>2. Power(256, k + 1) = Power(256, k) * 256
    BY <1>1, PowerNext
  <2>3. QED BY <2>1, <2>2
<1>6. ASSUME NEW k \in 0 .. b - 1
      PROVE  at + k \in 0 .. n * b - 1 /\ bytes[(at + k) + 1] = (o \div Power(256, b - 1 - k)) % 256
  <2>1. j * b + k \in 0 .. n * b - 1
    BY <1>1, IndexBelow
  <2>2. bytes[(j * b + k) + 1] = (outi[j + 1] \div Power(256, b - 1 - k)) % 256
    BY DEF IsSpread, b
  <2>3. QED BY <2>1, <2>2 DEF o
<1>7. u[at] = w
  BY DEF w, b
<1> HIDE DEF at
<1>8. 0 \in S
  <2>1. Power(256, 0) = 1 /\ b - 0 = b
    BY <1>1, PowersOf256
  <2>2. o \div Power(256, b) = 0
    BY <1>1, <1>2
  <2>3. u[at + 0] = w * Power(256, 0) + (o \div Power(256, b - 0))
    BY <1>3, <1>4, <1>7, <2>1, <2>2
  <2>4. QED BY <1>1, <2>3
<1>9. ASSUME NEW k \in 0 .. b - 1, k \in S PROVE k + 1 \in S
  <2> DEFINE e == b - 1 - k
             p == Power(256, k)
             a == Power(256, e)
  <2>1. e \in Nat /\ b - k = e + 1 /\ b - (k + 1) = e /\ k \in Nat /\ (at + k) + 1 = at + (k + 1)
    BY <1>1, <1>4
  <2>2. u[(at + k) + 1] = u[at + k] * 256 + bytes[(at + k) + 1]
    BY <1>6 DEF IsValues, b
  <2>3. u[at + (k + 1)] = u[at + k] * 256 + ((o \div a) % 256)
    BY <1>6, <2>1, <2>2
  <2> HIDE DEF e
  <2>4. Power(256, e + 1) = a * 256 /\ a \in Nat \ {0} /\ Power(256, k + 1) = p * 256 /\ p \in Nat
    BY <1>5, <2>1
  <2>5. u[at + k] = w * p + (o \div (a * 256))
    BY <1>9, <2>1, <2>4
  <2> HIDE DEF a, p
  <2>6. o \div a = 256 * (o \div (a * 256)) + ((o \div a) % 256) /\ o \div a \in Nat
    <3>1. o \in Nat
      BY <1>2
    <3>2. a \in Nat \ {0}
      BY <2>4
    <3>3. TwiceDivided(o, a)
      BY <3>1, <3>2, DividedTwice
    <3>4. QED
      BY <3>3, Zenon DEF TwiceDivided
  <2> DEFINE high == o \div (a * 256)
             low == (o \div a) % 256
  <2>7. high \in Nat /\ low \in Nat
    <3> DEFINE c == a * 256
               y == o \div a
    <3>1. c \in Nat \ {0} /\ y \in Nat /\ o \in Nat
      BY <1>2, <2>4, <2>6
    <3>2. y % 256 \in Nat
      BY <3>1
    <3> HIDE DEF c
    <3>3. o \div c \in Nat
      BY <3>1, DividedBy
    <3>4. QED BY <3>2, <3>3 DEF c
  <2>8. u[at + (k + 1)] = (w * p + high) * 256 + low /\ o \div a = 256 * high + low
    BY <2>3, <2>5, <2>6
  <2> HIDE DEF high, low
  <2>9. (w * p + high) * 256 + low = w * (p * 256) + (256 * high + low)
    BY <1>3, <2>4, <2>7
  <2>10. u[at + (k + 1)] = w * Power(256, k + 1) + (o \div Power(256, b - (k + 1)))
    BY <2>1, <2>4, <2>8, <2>9 DEF a
  <2>11. QED BY <1>1, <2>10
<1>10. 0 .. b \subseteq S
  <2> HIDE DEF S
  <2> QED BY <1>1, <1>8, <1>9, UpTo
<1>11. b \in S
  <2> HIDE DEF S
  <2> QED BY <1>1, <1>10
<1>12. b - b = 0 /\ Power(256, 0) = 1 /\ o \div 1 = o
  BY <1>1, <1>2, PowersOf256
<1>13. u[at + b] = w * Limb + o
  BY <1>1, <1>11, <1>12
<1>14. QED
  BY <1>3, <1>4, <1>13 DEF b

LEMMA BytesOfLimbs ==
  ASSUME NEW n \in Nat, NEW outi, IsString(outi, n, Below(Limb))
  PROVE  /\ IsString(LimbsToBytes(outi), n * LimbBytes, Bytes)
         /\ Values(LimbsToBytes(outi), 256)[n * LimbBytes] = Values(outi, Limb)[n]
<1> DEFINE bytes == LimbsToBytes(outi)
           u == Values(bytes, 256)
           v == Values(outi, Limb)
           S == {j \in 0 .. n : u[j * LimbBytes] = v[j]}
<1>1. IsSpread(bytes, outi, n)
  BY LimbsSpread
<1>2. IsString(bytes, n * LimbBytes, Bytes) /\ n * LimbBytes \in Nat /\ LimbBytes \in Nat
  BY <1>1, LimbIs DEF IsSpread
<1> HIDE DEF bytes
<1>3. IsValues(u, bytes, n * LimbBytes, 256)
  <2>1. 256 \in Nat
    OBVIOUS
  <2>2. bytes \in [1 .. n * LimbBytes -> Nat]
    BY <1>2, BytesAreNumbers
  <2>3. QED BY <1>2, <2>1, <2>2, ValuesAre
<1>4. IsValues(v, outi, n, Limb)
  BY LimbsValue
<1> HIDE DEF u, v
<1>5. 0 \in S
  <2>1. u[0] = 0 /\ v[0] = 0
    BY <1>3, <1>4 DEF IsValues
  <2>2. 0 * LimbBytes = 0
    BY <1>2
  <2>3. QED BY <2>1, <2>2
<1>6. ASSUME NEW j \in 0 .. n - 1, j \in S PROVE j + 1 \in S
  <2>1. u[j * LimbBytes] = v[j]
    BY <1>6
  <2>2. u[(j + 1) * LimbBytes] = v[j + 1]
    BY <1>1, <1>3, <1>4, <2>1, OneLimb
  <2>3. QED BY <2>2
<1>7. 0 .. n \subseteq S
  <2> HIDE DEF S
  <2> QED BY <1>5, <1>6, UpTo
<1>8. n \in S
  <2> HIDE DEF S
  <2> QED BY <1>7
<1>9. QED
  BY <1>2, <1>8 DEF bytes, u, v

\* Without some of the zeros before it, a number is the same.
LEMMA EndingValue ==
  ASSUME NEW n \in Nat, NEW s, IsString(s, n, Bytes), NEW size \in 0 .. n, AllZero(s, n - size)
  PROVE  /\ IsString(Ending(s, size), size, Bytes)
         /\ Values(Ending(s, size), 256)[size] = Values(s, 256)[n]
         /\ \A i \in 1 .. size : Ending(s, size)[i] = s[n - size + i]
<1> DEFINE k == n - size
           new == Ending(s, size)
           v == Values(s, 256)
           w == Values(new, 256)
<1>1. s \in [1 .. n -> Nat] /\ Len(s) = n /\ 256 \in Nat \ {0} /\ 256 \in Nat
  BY BytesAreNumbers
<1>2. new = [i \in 1 .. size |-> s[n - size + i]]
  BY <1>1 DEF Ending
<1>3. k \in 0 .. n /\ n - k = size /\ size \in Nat /\ 0 \in Nat /\ 0 + (n - k) = size
  OBVIOUS
<1>4. IsString(new, size, Bytes)
  <2>1. \A i \in 1 .. size : n - size + i \in 1 .. n
    BY <1>3
  <2>2. \A i \in 1 .. size : s[n - size + i] \in Bytes
    BY <2>1 DEF IsString
  <2>3. QED BY <1>2, <2>2 DEF IsString
<1>5. IsRest(new, size, 0, s, n, k)
  <2>1. \A i \in 1 .. n - k : new[0 + i] = s[k + i]
    BY <1>2, <1>3
  <2>2. QED BY <1>3, <2>1 DEF IsRest
<1>6. \A i \in 1 .. size : new[i] = s[n - size + i]
  BY <1>2
<1> HIDE DEF new
<1>7. IsValues(v, s, n, 256)
  BY <1>1, ValuesAre
<1>8. IsValues(w, new, size, 256)
  <2>1. new \in [1 .. size -> Nat]
    BY <1>3, <1>4, BytesAreNumbers
  <2>2. QED BY <1>1, <1>3, <2>1, ValuesAre
<1> HIDE DEF v, w, k
<1>9. AllZero(s, k)
  BY DEF k
<1>10. v[k] = 0
  BY <1>1, <1>3, <1>7, <1>9, ZeroSoFar
<1>11. w[0] = 0
  BY <1>8 DEF IsValues
<1>12. w[size] = v[n]
  BY <1>1, <1>3, <1>5, <1>7, <1>8, <1>10, <1>11, SameFrom
<1>13. QED
  BY <1>4, <1>6, <1>12 DEF new, v, w

\* A number below 256 to the size-th begins with zeros, but for size bytes.
LEMMA ZerosBefore ==
  ASSUME NEW n \in Nat, NEW s, IsString(s, n, Bytes), NEW size \in 0 .. n,
         Values(s, 256)[n] < Power(256, size)
  PROVE  AllZero(s, n - size)
<1> DEFINE v == Values(s, 256)
           k == n - size
<1>1. s \in [1 .. n -> Nat] /\ 256 \in Nat \ {0} /\ 256 \in Nat /\ IsString(s, n, Below(256))
  BY BytesAreNumbers, BytesAreBase
<1>2. IsValues(v, s, n, 256)
  BY <1>1, ValuesAre
<1>3. k \in 0 .. n /\ size \in 0 .. n - k /\ k + size = n /\ size \in Nat
  OBVIOUS
<1>4. v[n] < Power(256, size)
  OBVIOUS
<1> HIDE DEF v, k
<1>5. v[k] \in Nat /\ v[k + size] \in Nat /\ v[k] * Power(256, size) <= v[k + size]
  BY <1>1, <1>2, <1>3, PrefixValue
<1>6. Power(256, size) \in Nat
  BY <1>1, <1>3, PowerType
<1>7. v[k] = 0
  <2> DEFINE x == v[k]
             y == v[n]
             q == Power(256, size)
  <2>1. x \in Nat /\ y \in Nat /\ q \in Nat /\ x * q <= y /\ y < q
    BY <1>3, <1>4, <1>5, <1>6
  <2> HIDE DEF x, y, q
  <2>2. x >= 1 => x * q >= q
    BY <2>1
  <2>3. x * q \in Nat
    BY <2>1
  <2>4. x = 0
    BY <2>1, <2>2, <2>3
  <2>5. QED BY <2>4 DEF x
<1>8. AllZero(s, k)
  BY <1>1, <1>2, <1>3, <1>7, ZeroSoFar
<1>9. QED
  BY <1>8 DEF k

\* What d, which decodes t into size bytes, should be.
IsDecoding(d, t, n, z, size) ==
  /\ d.ok => /\ IsString(t, n, Digits)
             /\ IsString(d.bin, size, Bytes)
             /\ Values(d.bin, 256)[size] = Values(t, 58)[n]
             /\ d.size = size - LeadingZeros(d.bin) + z
  /\ IsString(t, n, Digits) /\ Values(t, 58)[n] < Power(256, size) => d.ok

LEMMA Base58Decodes ==
  ASSUME NEW size \in Nat, NEW n \in Nat, NEW t, IsString(t, n, Texts)
  PROVE  /\ IsLeading(LeadingZeros(t), t, n)
         /\ IsDecoding(Base58Decode(t, size), t, n, LeadingZeros(t), size)
<1> DEFINE z == LeadingZeros(t)
           a == Read(t, z, size)
           k == LimbsFor(size)
           end == a[n - z]
           bytes == LimbsToBytes(end.outi)
           bin == Ending(bytes, size)
           x == Values(t, 58)[n]
<1>1. IsLeading(z, t, n)
  BY LeadingZerosFound
<1>2. z \in 0 .. n /\ AllZero(t, z) /\ Len(t) = n
  BY <1>1, LenIs DEF IsLeading, AllZero, IsString
<1> HIDE DEF z
<1>3. IsReading(a, t, z, n - z, size)
  BY <1>2, ReadRuns
<1>4. Base58Decode(t, size) =
        [ok |-> end.ok, bin |-> bin, size |-> size - LeadingZeros(bin) + z]
  BY <1>2 DEF Base58Decode, z
<1> HIDE DEF a
<1>5. end.ok => IsString(t, n, Digits)
  BY <1>2, <1>3, OnlyDigitsAreRead
<1>6. IsString(t, n, Digits) => IsRead(end, x, k, size)
  BY <1>2, <1>3, ReadIs
<1>7. IsLimbs(k, size % LimbBytes, size) /\ k \in Nat
  BY LimbsAre DEF IsLimbs
<1> HIDE DEF end, bytes, bin, x, k
<1>8. ASSUME end.ok PROVE IsString(bin, size, Bytes) /\ Values(bin, 256)[size] = x
  <2> DEFINE all == k * LimbBytes
  <2>1. IsString(end.outi, k, Below(Limb)) /\ Values(end.outi, Limb)[k] = x /\ x < Power(256, size)
    BY <1>5, <1>6, <1>8 DEF IsRead
  <2>2. IsString(bytes, all, Bytes) /\ Values(bytes, 256)[all] = x
    BY <1>7, <2>1, BytesOfLimbs DEF bytes
  <2>3. all \in Nat /\ size \in 0 .. all
    BY <1>7, LimbIs DEF IsLimbs
  <2> HIDE DEF all
  <2>4. Values(bytes, 256)[all] < Power(256, size)
    BY <2>1, <2>2
  <2>5. AllZero(bytes, all - size)
    BY <2>2, <2>3, <2>4, ZerosBefore
  <2>6. /\ IsString(Ending(bytes, size), size, Bytes)
        /\ Values(Ending(bytes, size), 256)[size] = Values(bytes, 256)[all]
    BY <2>2, <2>3, <2>5, EndingValue
  <2>7. QED BY <2>2, <2>6 DEF bin
<1>9. IsString(t, n, Digits) /\ x < Power(256, size) => end.ok
  BY <1>6 DEF IsRead
<1>10. IsDecoding(Base58Decode(t, size), t, n, z, size)
  BY <1>4, <1>5, <1>8, <1>9 DEF IsDecoding, x
<1>11. QED
  BY <1>1, <1>10 DEF z
-----------------------------------------------------------------------------
(* There and back *)

\* size bytes are enough for n, and not too few for what was decoded.
LEMMA EncodedIsDecoded ==
  ASSUME NEW n \in Nat, NEW s, IsString(s, n, Bytes), NEW z, IsLeading(z, s, n),
         NEW e, NEW len, NEW room, IsEncoding(e, s, n, z, len, room), NEW size \in Nat
  PROVE  /\ size >= n => /\ Base58Decode(e.digits, size).ok
                         /\ Base58Decode(e.digits, size).size = n
                         /\ Ending(Base58Decode(e.digits, size).bin, n) = s
                         /\ IsString(Base58Decode(e.digits, size).bin, size, Bytes)
         /\ Base58Decode(e.digits, size).ok => Base58Decode(e.digits, size).size = n
<1> DEFINE t == e.digits
           d == Base58Decode(t, size)
           bin == d.bin
           l == LeadingZeros(bin)
           x == Values(s, 256)[n]
<1>1. len \in Nat /\ IsString(t, len, Digits) /\ IsLeading(z, t, len) /\ Values(t, 58)[len] = x
  BY DEF IsEncoding
<1> HIDE DEF t
<1>2. IsString(t, len, Texts) /\ t \in [1 .. len -> Nat]
  BY <1>1, DigitsAreTexts, DigitsAreNumbers
<1>3. IsLeading(LeadingZeros(t), t, len) /\ IsDecoding(d, t, len, LeadingZeros(t), size)
  BY <1>1, <1>2, Base58Decodes
<1>4. LeadingZeros(t) = z
  BY <1>1, <1>2, <1>3, OneLeading
<1>5. IsDecoding(d, t, len, z, size)
  BY <1>3, <1>4
<1> HIDE DEF d, x
<1>6. z \in 0 .. n
  BY DEF IsLeading
<1>7. IsNumber(x, s, n, z, 256)
  BY BytesAreBase DEF IsNumber, x
<1>8. ASSUME d.ok
      PROVE  /\ IsString(bin, size, Bytes) /\ d.size = n /\ size - l = n - z /\ l \in 0 .. size
             /\ \A i \in 1 .. l : bin[i] = 0
             /\ \A i \in 1 .. n - z : bin[l + i] = s[z + i]
  <2>1. /\ IsString(bin, size, Bytes) /\ Values(bin, 256)[size] = x
        /\ d.size = size - l + z
    BY <1>1, <1>5, <1>8 DEF IsDecoding
  <2> HIDE DEF bin
  <2>2. IsLeading(l, bin, size)
    <3>1. bin \in [1 .. size -> Nat]
      BY <2>1, BytesAreNumbers
    <3>2. QED BY <3>1, LeadingZerosAre
  <2> HIDE DEF l
  <2>3. IsNumber(x, bin, size, l, 256)
    BY <2>1, <2>2, BytesAreBase DEF IsNumber
  <2>4. 256 \in Nat \ {0}
    OBVIOUS
  <2>5. size - l = n - z /\ \A i \in 1 .. size - l : bin[l + i] = s[z + i]
    BY <1>7, <2>3, <2>4, OneNumber
  <2>6. l \in 0 .. size /\ \A i \in 1 .. l : bin[i] = 0
    BY <2>2 DEF IsLeading
  <2>7. d.size = n
    BY <1>6, <2>1, <2>5, <2>6
  <2>8. QED BY <2>1, <2>5, <2>6, <2>7
<1>9. ASSUME size >= n PROVE d.ok
  <2>1. x < Power(256, n) /\ x \in Nat
    <3>1. IsValues(Values(s, 256), s, n, 256)
      <4>1. 256 \in Nat /\ s \in [1 .. n -> Nat]
        BY BytesAreNumbers
      <4>2. QED BY <4>1, ValuesAre
    <3>2. 0 \in 0 .. n /\ AllZero(s, 0) /\ n \in 0 .. n - 0 /\ 0 + n = n
      BY DEF AllZero
    <3>3. Values(s, 256)[0 + n] \in Nat /\ Values(s, 256)[0 + n] < Power(256, n)
      BY <3>1, <3>2, ValueBelow
    <3>4. QED BY <3>2, <3>3 DEF x
  <2>2. Power(256, n) <= Power(256, size) /\ Power(256, n) \in Nat /\ Power(256, size) \in Nat
    <3>1. 256 \in Nat \ {0} /\ 256 \in Nat
      OBVIOUS
    <3>2. n <= size
      BY <1>9
    <3>3. QED BY <3>1, <3>2, PowerGrows, PowerType
  <2>3. x < Power(256, size)
    BY <2>1, <2>2
  <2>4. QED BY <1>1, <1>5, <2>3 DEF IsDecoding
<1>10. ASSUME size >= n PROVE Ending(bin, n) = s
  <2>1. d.ok
    BY <1>9, <1>10
  <2>2. /\ IsString(bin, size, Bytes) /\ size - l = n - z /\ l \in 0 .. size
        /\ \A i \in 1 .. l : bin[i] = 0
        /\ \A i \in 1 .. n - z : bin[l + i] = s[z + i]
    BY <1>8, <2>1
  <2> HIDE DEF bin, l
  <2>3. Len(bin) = size
    BY <2>2, BytesAreNumbers
  <2>4. Ending(bin, n) = [i \in 1 .. n |-> bin[size - n + i]]
    BY <2>3 DEF Ending
  <2>5. ASSUME NEW i \in 1 .. n PROVE bin[size - n + i] = s[i]
    <3>1. CASE i <= z
      <4>1. size - n + i \in 1 .. l
        BY <1>6, <1>10, <2>2, <3>1
      <4>2. s[i] = 0
        BY <3>1 DEF IsLeading
      <4>3. QED BY <2>2, <4>1, <4>2
    <3>2. CASE i > z
      <4>1. i - z \in 1 .. n - z /\ size - n + i = l + (i - z) /\ z + (i - z) = i
        BY <1>6, <2>2, <3>2
      <4>2. bin[l + (i - z)] = s[z + (i - z)]
        BY <2>2, <4>1
      <4>3. QED BY <4>1, <4>2
    <3>3. QED BY <1>6, <3>1, <3>2
  <2>6. s = [i \in 1 .. n |-> s[i]]
    BY DEF IsString
  <2>7. QED BY <2>4, <2>5, <2>6
<1>11. (size >= n => d.ok /\ d.size = n /\ Ending(bin, n) = s /\ IsString(bin, size, Bytes))
       /\ (d.ok => d.size = n)
  BY <1>8, <1>9, <1>10
<1>12. QED
  BY <1>11 DEF t, d

\* No two strings of digits are decoded to the same bytes.
LEMMA DecodedIsEncoded ==
  ASSUME NEW n \in Nat, NEW t, IsString(t, n, Texts), NEW size \in Nat, NEW room \in Nat,
         Base58Decode(t, size).ok, Base58Decode(t, size).size <= size
  PROVE  Base58Encode(Ending(Base58Decode(t, size).bin, Base58Decode(t, size).size), room).digits = t
<1> DEFINE d == Base58Decode(t, size)
           z == LeadingZeros(t)
           bin == d.bin
           l == LeadingZeros(bin)
           m == d.size
           y == Ending(bin, m)
           e == Base58Encode(y, room)
           x == Values(t, 58)[n]
<1>1. IsLeading(z, t, n) /\ IsDecoding(d, t, n, z, size)
  BY Base58Decodes
<1>2. d.ok /\ m <= size
  OBVIOUS
<1> HIDE DEF d, z
<1>3. /\ IsString(t, n, Digits) /\ IsString(bin, size, Bytes) /\ Values(bin, 256)[size] = x
      /\ m = size - l + z
  BY <1>1, <1>2 DEF IsDecoding
<1>4. z \in 0 .. n
  BY <1>1 DEF IsLeading
<1> HIDE DEF bin
<1>5. IsLeading(l, bin, size)
  <2>1. bin \in [1 .. size -> Nat]
    BY <1>3, BytesAreNumbers
  <2>2. QED BY <2>1, LeadingZerosAre
<1> HIDE DEF l, m
<1>6. l \in 0 .. size /\ z <= l /\ m \in 0 .. size /\ size - m = l - z /\ m \in Nat
  BY <1>2, <1>3, <1>4, <1>5 DEF IsLeading
<1>7. AllZero(bin, size - m)
  BY <1>4, <1>5, <1>6 DEF IsLeading, AllZero
<1>8. /\ IsString(y, m, Bytes) /\ Values(y, 256)[m] = x
      /\ \A i \in 1 .. m : y[i] = bin[size - m + i]
  BY <1>3, <1>6, <1>7, EndingValue
<1> HIDE DEF y
<1>9. IsLeading(z, y, m)
  <2>1. z \in 0 .. m
    BY <1>3, <1>4, <1>6
  <2>2. ASSUME NEW i \in 1 .. z PROVE y[i] = 0
    <3>1. i \in 1 .. m /\ size - m + i \in 1 .. l
      BY <1>4, <1>6, <2>1
    <3>2. bin[size - m + i] = 0
      BY <1>5, <3>1 DEF IsLeading
    <3>3. QED BY <1>8, <3>1, <3>2
  <2>3. ASSUME z < m PROVE y[z + 1] # 0
    <3>1. z + 1 \in 1 .. m /\ size - m + (z + 1) = l + 1 /\ l < size
      BY <1>3, <1>4, <1>6, <2>3
    <3>2. bin[l + 1] # 0
      BY <1>5, <3>1 DEF IsLeading
    <3>3. QED BY <1>8, <3>1, <3>2
  <2>4. QED BY <2>1, <2>2, <2>3 DEF IsLeading
<1>10. LeadingZeros(y) = z
  <2>1. y \in [1 .. m -> Nat]
    BY <1>6, <1>8, BytesAreNumbers
  <2>2. IsLeading(LeadingZeros(y), y, m)
    BY <1>6, <2>1, LeadingZerosAre
  <2>3. QED BY <1>6, <1>9, <2>1, <2>2, OneLeading
<1>11. PICK len : IsEncoding(e, y, m, z, len, room)
  BY <1>6, <1>8, <1>10, Base58Encodes
<1> DEFINE u == e.digits
<1>12. len \in Nat /\ IsString(u, len, Digits) /\ IsLeading(z, u, len) /\ Values(u, 58)[len] = x
  BY <1>8, <1>11 DEF IsEncoding
<1> HIDE DEF u, x
<1>13. IsNumber(x, u, len, z, 58) /\ IsNumber(x, t, n, z, 58)
  BY <1>1, <1>3, <1>12, DigitsAreBase DEF IsNumber, x
<1>14. len - z = n - z /\ \A i \in 1 .. len - z : u[z + i] = t[z + i]
  <2>1. 58 \in Nat \ {0}
    OBVIOUS
  <2>2. QED BY <1>13, <2>1, OneNumber
<1>15. len = n
  BY <1>4, <1>12, <1>14
<1>16. ASSUME NEW i \in 1 .. n PROVE u[i] = t[i]
  <2>1. CASE i <= z
    BY <1>1, <1>12, <2>1 DEF IsLeading
  <2>2. CASE i > z
    <3>1. i - z \in 1 .. len - z /\ z + (i - z) = i
      BY <1>4, <1>15, <2>2
    <3>2. u[z + (i - z)] = t[z + (i - z)]
      BY <1>14, <3>1
    <3>3. QED BY <3>1, <3>2
  <2>3. QED BY <1>4, <2>1, <2>2
<1>17. u = t
  <2>1. u = [i \in 1 .. n |-> u[i]] /\ t = [i \in 1 .. n |-> t[i]]
    BY <1>3, <1>12, <1>15 DEF IsString
  <2>2. QED BY <1>16, <2>1
<1>18. QED
  BY <1>17 DEF u, e, y, m, bin, d
-----------------------------------------------------------------------------
(* The properties *)

IsInput(i) ==
  /\ i.kind = "bytes" => Len(i.text) \in Nat /\ IsString(i.text, Len(i.text), Bytes)
  /\ i.kind = "digits" => Len(i.text) \in Nat /\ IsString(i.text, Len(i.text), Texts)

LEMMA InputIs ==
  ASSUME EncodingsInit
  PROVE  IsInput(input)
<1>1. ASSUME NEW S, NEW t \in Seq(S) PROVE Len(t) \in Nat /\ IsString(t, Len(t), S)
  BY <1>1 DEF IsString
<1>2. Bytes = 0 .. 255 /\ Texts = -1 .. 57
  BY DEF Bytes, BytesIn, Texts, Digits, DigitsIn, NotADigit
<1>3. CASE input = NoInput
  <2>1. input.kind = "none"
    BY <1>3 DEF NoInput
  <2>2. QED BY <2>1 DEF IsInput
<1>4. CASE input \in Inputs
  <2>1. \/ input.kind = "bytes" /\ input.text \in Seq(Bytes)
        \/ input.kind = "digits" /\ input.text \in Seq(Texts)
    BY <1>2, <1>4, EncodingsAssumption
  <2>2. CASE input.kind = "bytes" /\ input.text \in Seq(Bytes)
    BY <1>1, <2>2 DEF IsInput
  <2>3. CASE input.kind = "digits" /\ input.text \in Seq(Texts)
    BY <1>1, <2>3 DEF IsInput
  <2>4. QED BY <2>1, <2>2, <2>3
<1>5. QED
  BY <1>3, <1>4 DEF EncodingsInit

LEMMA InputStays == EncodingsSpec => []IsInput(input)
<1>1. IsInput(input) /\ [FALSE]_input => IsInput(input)'
  BY DEF IsInput
<1>2. QED
  BY <1>1, InputIs, PTL DEF EncodingsSpec

\* Four characters for a byte are more than enough.
LEMMA RoomIsEnough ==
  ASSUME NEW n \in Nat \ {0}, NEW z \in 0 .. n
  PROVE  4 * n > z + Reserved(n - z)
<1> DEFINE m == n - z
<1>1. m \in Nat /\ n = z + m /\ z \in Nat
  OBVIOUS
<1> HIDE DEF m
<1>2. (m * 138) \div 100 \in Nat /\ 100 * ((m * 138) \div 100) <= 138 * m
  BY <1>1
<1>3. QED
  BY <1>1, <1>2 DEF Reserved, m

\* b58enc computes in place, carries from digit to digit, and stops where nothing is
\* carried any more; what it writes are still the digits of the number, for any bytes.
THEOREM AnyBytesAreEncoded ==
  ASSUME NEW n \in Nat, NEW s \in [1 .. n -> Bytes]
  PROVE  /\ HasherEncode(s).within
         /\ n > 0 => HasherEncode(s).fits
         /\ LeadingZeros(HasherEncode(s).digits) = LeadingZeros(s)
         /\ ValueOf(HasherEncode(s).digits, DigitsIn) = ValueOf(s, BytesIn)
<1> DEFINE e == HasherEncode(s)
           z == LeadingZeros(s)
           room == 4 * n
<1>1. IsString(s, n, Bytes) /\ Len(s) = n /\ room \in Nat
  BY LenIs DEF IsString
<1>2. e = Base58Encode(s, room)
  BY <1>1 DEF HasherEncode
<1> HIDE DEF e, z, room
<1>3. IsLeading(z, s, n) /\ \E size : IsEncoding(e, s, n, z, size, room)
  BY <1>1, <1>2, Base58Encodes DEF z
<1>4. PICK size : IsEncoding(e, s, n, z, size, room)
  BY <1>3
<1>5. /\ e.within = TRUE /\ e.fits = (room > size)
      /\ size \in Nat /\ size <= z + Reserved(n - z)
      /\ IsString(e.digits, size, Digits) /\ IsLeading(z, e.digits, size)
      /\ Values(e.digits, 58)[size] = Values(s, 256)[n]
  BY <1>4 DEF IsEncoding
<1>6. ASSUME n > 0 PROVE e.fits
  <2>1. z \in 0 .. n /\ n \in Nat \ {0}
    BY <1>3, <1>6 DEF IsLeading
  <2>2. room > z + Reserved(n - z) /\ n - z \in Nat
    BY <2>1, RoomIsEnough DEF room
  <2>3. Reserved(n - z) \in Nat
    BY <2>2, ReservedIsEnough
  <2>4. room > size
    BY <1>1, <1>5, <2>1, <2>2, <2>3
  <2>5. QED BY <1>5, <2>4
<1>7. e.digits \in [1 .. size -> Nat] /\ Len(e.digits) = size
  BY <1>5, DigitsAreNumbers
<1>8. LeadingZeros(e.digits) = z
  <2>1. IsLeading(LeadingZeros(e.digits), e.digits, size)
    BY <1>5, <1>7, LeadingZerosAre
  <2>2. QED BY <1>5, <1>7, <2>1, OneLeading
<1>9. ValueOf(e.digits, DigitsIn) = ValueOf(s, BytesIn)
  BY <1>1, <1>5, <1>7 DEF ValueOf, DigitsIn, BytesIn
<1>10. QED
  BY <1>5, <1>6, <1>8, <1>9 DEF e, z

\* The same of the inputs that the runs look at: b58enc writes the digits of the number
\* that the bytes are, in its buffer and in the hasher's.
THEOREM NumbersAreEncoded == EncodingsSpec => []EncodesTheNumber
<1>1. ASSUME IsInput(input) PROVE EncodesTheNumber
  <2> SUFFICES ASSUME input.kind = "bytes"
               PROVE  /\ HasherEncode(input.text).within
                      /\ input.text # <<>> => HasherEncode(input.text).fits
                      /\ LeadingZeros(HasherEncode(input.text).digits) = LeadingZeros(input.text)
                      /\ ValueOf(HasherEncode(input.text).digits, DigitsIn)
                           = ValueOf(input.text, BytesIn)
    BY DEF EncodesTheNumber
  <2> DEFINE s == input.text
             n == Len(s)
  <2>1. n \in Nat /\ s \in [1 .. n -> Bytes]
    BY <1>1 DEF IsInput, IsString
  <2>2. s # <<>> => n > 0
    <3>1. n = 0 => s = <<>>
      BY <2>1
    <3>2. QED BY <2>1, <3>1
  <2> HIDE DEF s, n
  <2>3. /\ HasherEncode(s).within
        /\ n > 0 => HasherEncode(s).fits
        /\ LeadingZeros(HasherEncode(s).digits) = LeadingZeros(s)
        /\ ValueOf(HasherEncode(s).digits, DigitsIn) = ValueOf(s, BytesIn)
    BY <2>1, AnyBytesAreEncoded
  <2>4. QED BY <2>2, <2>3 DEF s
<1>2. QED
  BY <1>1, InputStays, PTL

\* b58tobin reads back, into limbs whose carries are cut to six bits, what b58enc wrote,
\* if there is room; and with less room it fails, or gives a size that is beyond it.
THEOREM EncodedBytesAreDecoded == EncodingsSpec => []DecodesWhatWasEncoded
<1>1. ASSUME IsInput(input) PROVE DecodesWhatWasEncoded
  <2> SUFFICES ASSUME input.kind = "bytes", NEW binsz \in 1 .. Len(input.text) + LimbBytes
               PROVE  LET d == Base58Decode(HasherEncode(input.text).digits, binsz) IN
                        IF binsz >= Len(input.text)
                          THEN /\ d.ok /\ d.size = Len(input.text)
                               /\ Ending(d.bin, d.size) = input.text
                          ELSE d.ok => d.size > binsz
    BY DEF DecodesWhatWasEncoded
  <2> DEFINE s == input.text
             n == Len(s)
             e == HasherEncode(s)
             d == Base58Decode(e.digits, binsz)
             room == 4 * n
  <2>1. n \in Nat /\ IsString(s, n, Bytes)
    BY <1>1 DEF IsInput
  <2>2. binsz \in Nat
    BY <2>1, LimbIs
  <2> HIDE DEF s, n
  <2>3. room \in Nat /\ e = Base58Encode(s, room)
    BY <2>1 DEF HasherEncode, n
  <2> HIDE DEF room
  <2>4. IsLeading(LeadingZeros(s), s, n)
        /\ \E len : IsEncoding(Base58Encode(s, room), s, n, LeadingZeros(s), len, room)
    BY <2>1, <2>3, Base58Encodes
  <2>5. PICK len : IsEncoding(e, s, n, LeadingZeros(s), len, room)
    BY <2>3, <2>4
  <2> HIDE DEF e
  <2>6. /\ binsz >= n => d.ok /\ d.size = n /\ Ending(d.bin, n) = s
        /\ d.ok => d.size = n
    BY <2>1, <2>2, <2>4, <2>5, EncodedIsDecoded
  <2> HIDE DEF d
  <2>7. IF binsz >= n THEN d.ok /\ d.size = n /\ Ending(d.bin, d.size) = s
        ELSE d.ok => d.size > binsz
    BY <2>1, <2>2, <2>6
  <2>8. QED BY <2>7 DEF d, e, n, s
<1>2. QED
  BY <1>1, InputStays, PTL

\* What b58tobin accepts b58enc writes again: it reads no two strings as the same bytes.
THEOREM OnlyItsOwnAreRead == EncodingsSpec => []ReadsOnlyItsOwn
<1>1. ASSUME IsInput(input) PROVE ReadsOnlyItsOwn
  <2> SUFFICES ASSUME input.kind = "digits", NEW binsz \in 1 .. 3,
                      Base58Decode(input.text, binsz).ok,
                      Base58Decode(input.text, binsz).size <= binsz
               PROVE  LET d == Base58Decode(input.text, binsz) IN
                        Base58Encode(Ending(d.bin, d.size), 4 * binsz).digits = input.text
    BY DEF ReadsOnlyItsOwn
  <2> DEFINE t == input.text
             n == Len(t)
             room == 4 * binsz
  <2>1. n \in Nat /\ IsString(t, n, Texts)
    BY <1>1 DEF IsInput
  <2>2. binsz \in Nat /\ room \in Nat
    OBVIOUS
  <2>3. Base58Decode(t, binsz).ok /\ Base58Decode(t, binsz).size <= binsz
    OBVIOUS
  <2> HIDE DEF t, n, room
  <2>4. Base58Encode(Ending(Base58Decode(t, binsz).bin, Base58Decode(t, binsz).size),
                     room).digits = t
    BY <2>1, <2>2, <2>3, DecodedIsEncoded
  <2>5. QED BY <2>4 DEF t, room
<1>2. QED
  BY <1>1, InputStays, PTL

(* The check sum is four bytes after the others. *)

LEMMA CheckSumType ==
  ASSUME NEW n \in Nat, NEW s, IsString(s, n, Bytes)
  PROVE  CheckSum(s) \in Seq(Bytes) /\ Len(CheckSum(s)) = 4
<1> DEFINE b == SumsIn
           V == 0 .. b - 1
           step == [i \in 1 .. n |-> [a \in V |-> (31 * a + s[i] + 7) % b]]
           h == Iterate(1, step, n)[n]
<1>1. Len(s) = n /\ b \in Nat \ {0} /\ 1 < b /\ b < 65536
  BY BytesAreNumbers DEF SumsIn
<1>2. CheckSum(s) = <<h % 256, h \div 256, (h * 7) % 256, (h * 11) % 256>>
  BY <1>1 DEF CheckSum, BytesIn
<1> HIDE DEF b
<1>3. step \in Steps(V, n) /\ 1 \in V
  <2>1. ASSUME NEW i \in 1 .. n, NEW a \in V PROVE (31 * a + s[i] + 7) % b \in V
    <3>1. s[i] \in Nat
      BY ByteIs
    <3>2. 31 * a + s[i] + 7 \in Nat
      BY <1>1, <3>1
    <3>3. \A x \in Nat : x % b \in V
      BY <1>1
    <3>4. QED BY <3>2, <3>3
  <2>2. QED BY <1>1, <2>1 DEF Steps
<1>4. h \in V
  <2> HIDE DEF step, V
  <2>1. IsRun(Iterate(1, step, n), V, 1, step, n)
    BY <1>3, Iterates
  <2>2. QED BY <2>1 DEF IsRun
<1> HIDE DEF h
<1>5. h \in Nat /\ h < 65536
  BY <1>1, <1>4
<1>6. \A x \in Nat : x % 256 \in Bytes /\ (x < 65536 => x \div 256 \in Bytes)
  BY DEF Bytes, BytesIn
<1>7. h * 7 \in Nat /\ h * 11 \in Nat
  BY <1>5
<1>8. h % 256 \in Bytes /\ h \div 256 \in Bytes /\ (h * 7) % 256 \in Bytes /\ (h * 11) % 256 \in Bytes
  BY <1>5, <1>6, <1>7
<1>9. QED
  BY <1>2, <1>8

LEMMA WithCheckSum ==
  ASSUME NEW text \in Seq(Bytes), text # <<>>, NEW s,
         s = (<<Head(text)>> \o Tail(text)) \o CheckSum(<<Head(text)>> \o Tail(text))
  PROVE  /\ s \in Seq(Bytes) /\ Len(s) = Len(text) + 4 /\ Len(text) \in Nat
         /\ Ending(s, 4) = CheckSum(SubSeq(s, 1, Len(s) - 4))
         /\ s[1] = Head(text)
<1> DEFINE sum == CheckSum(text)
           n == Len(text)
<1>1. Head(text) \in Bytes /\ Tail(text) \in Seq(Bytes) /\ Len(Tail(text)) = n - 1
      /\ n \in Nat \ {0} /\ text \in [1 .. n -> Bytes] /\ Head(text) = text[1]
  BY HeadTailProperties, EmptySeq, LenProperties
<1>2. <<Head(text)>> \o Tail(text) = text
  <2>1. <<Head(text)>> \in Seq(Bytes) /\ Len(<<Head(text)>>) = 1 /\ <<Head(text)>>[1] = text[1]
    BY <1>1
  <2>2. /\ <<Head(text)>> \o Tail(text) \in Seq(Bytes)
        /\ Len(<<Head(text)>> \o Tail(text)) = n
        /\ \A i \in 1 .. n : (<<Head(text)>> \o Tail(text))[i] =
                               IF i <= 1 THEN <<Head(text)>>[i] ELSE Tail(text)[i - 1]
    BY <1>1, <2>1, ConcatProperties
  <2>3. \A i \in 1 .. n - 1 : Tail(text)[i] = text[i + 1]
    BY <1>1, HeadTailProperties
  <2>4. ASSUME NEW i \in 1 .. n PROVE (<<Head(text)>> \o Tail(text))[i] = text[i]
    <3>1. CASE i = 1
      BY <2>1, <2>2, <3>1
    <3>2. CASE i # 1
      <4>1. i - 1 \in 1 .. n - 1 /\ (i - 1) + 1 = i /\ ~(i <= 1)
        BY <1>1, <3>2
      <4>2. QED BY <2>2, <2>3, <4>1
    <3>3. QED BY <3>1, <3>2
  <2>5. QED BY <2>2, <2>4, SeqEqual
<1>3. sum \in Seq(Bytes) /\ Len(sum) = 4
  BY <1>1, CheckSumType DEF IsString
<1> HIDE DEF sum
<1>4. s = text \o sum
  BY <1>2 DEF sum
<1>5. /\ s \in Seq(Bytes) /\ Len(s) = n + 4
      /\ \A i \in 1 .. n + 4 : s[i] = IF i <= n THEN text[i] ELSE sum[i - n]
  <2>1. /\ text \o sum \in Seq(Bytes) /\ Len(text \o sum) = n + Len(sum)
        /\ \A i \in 1 .. n + Len(sum) :
             (text \o sum)[i] = IF i <= n THEN text[i] ELSE sum[i - n]
    BY <1>3, ConcatProperties
  <2>2. QED BY <1>3, <1>4, <2>1
<1>6. SubSeq(s, 1, Len(s) - 4) = text
  <2>1. \A i \in 1 .. n : s[i] \in Bytes
    <3>1. \A i \in 1 .. n : s[i] = text[i]
      BY <1>1, <1>5
    <3>2. QED BY <1>1, <3>1
  <2>2. 1 \in Int /\ n \in Int /\ 1 <= n /\ n - 1 + 1 = n /\ Len(s) - 4 = n
    BY <1>1, <1>5
  <2>3. /\ SubSeq(s, 1, n) \in Seq(Bytes) /\ Len(SubSeq(s, 1, n)) = n
        /\ \A i \in 1 .. n : SubSeq(s, 1, n)[i] = s[1 + i - 1]
    BY <2>1, <2>2, SubSeqProperties
  <2>4. \A i \in 1 .. n : SubSeq(s, 1, n)[i] = text[i]
    BY <1>1, <1>5, <2>3
  <2>5. SubSeq(s, 1, n) = text
    BY <2>3, <2>4, SeqEqual
  <2>6. QED BY <2>2, <2>5
<1>7. Ending(s, 4) = sum
  <2>1. Ending(s, 4) = [i \in 1 .. 4 |-> s[n + 4 - 4 + i]]
    BY <1>5 DEF Ending
  <2>2. ASSUME NEW i \in 1 .. 4 PROVE s[n + 4 - 4 + i] = sum[i]
    <3>1. n + 4 - 4 + i = n + i /\ n + i \in 1 .. n + 4 /\ ~(n + i <= n) /\ (n + i) - n = i
      BY <1>1
    <3>2. s[n + i] = sum[(n + i) - n]
      BY <1>5, <3>1
    <3>3. QED BY <3>1, <3>2
  <2>3. sum = [i \in 1 .. 4 |-> sum[i]]
    BY <1>3
  <2>4. QED BY <2>1, <2>2, <2>3
<1>8. s[1] = Head(text)
  BY <1>1, <1>5
<1>9. Ending(s, 4) = CheckSum(SubSeq(s, 1, Len(s) - 4))
  BY <1>6, <1>7, Zenon DEF sum
<1>10. QED
  BY <1>1, <1>5, <1>8, <1>9

LEMMA OneZeroMore ==
  ASSUME NEW n \in Nat, NEW t, IsString(t, n, Digits), NEW z, IsLeading(z, t, n)
  PROVE  LeadingZeros(<<0>> \o t) = z + 1
<1> DEFINE u == <<0>> \o t
<1>1. t \in Seq(Nat) /\ Len(t) = n /\ <<0>> \in Seq(Nat) /\ Len(<<0>>) = 1
  <2>1. t \in [1 .. n -> Nat] /\ Len(t) = n
    BY DigitsAreNumbers
  <2>2. QED BY <2>1
<1>2. /\ u \in Seq(Nat) /\ Len(u) = n + 1
      /\ \A i \in 1 .. n + 1 : u[i] = IF i <= 1 THEN 0 ELSE t[i - 1]
  <2>1. /\ u \in Seq(Nat) /\ Len(u) = Len(<<0>>) + Len(t)
        /\ \A i \in 1 .. Len(<<0>>) + Len(t) :
             u[i] = IF i <= Len(<<0>>) THEN <<0>>[i] ELSE t[i - Len(<<0>>)]
    BY <1>1, ConcatProperties
  <2>2. Len(<<0>>) + Len(t) = n + 1 /\ <<0>>[1] = 0
    BY <1>1
  <2>3. QED BY <1>1, <2>1, <2>2
<1> HIDE DEF u
<1>3. u \in [1 .. n + 1 -> Nat] /\ n + 1 \in Nat
  BY <1>2
<1>4. z \in 0 .. n
  BY DEF IsLeading
<1>5. IsLeading(z + 1, u, n + 1)
  <2>1. ASSUME NEW i \in 1 .. z + 1 PROVE u[i] = 0
    <3>1. CASE i = 1
      BY <1>2, <3>1
    <3>2. CASE i # 1
      <4>1. i - 1 \in 1 .. z /\ i \in 1 .. n + 1 /\ ~(i <= 1)
        BY <1>4, <3>2
      <4>2. t[i - 1] = 0
        BY <4>1 DEF IsLeading
      <4>3. QED BY <1>2, <4>1, <4>2
    <3>3. QED BY <3>1, <3>2
  <2>2. ASSUME z + 1 < n + 1 PROVE u[(z + 1) + 1] # 0
    <3>1. z < n /\ (z + 1) + 1 \in 1 .. n + 1 /\ ~((z + 1) + 1 <= 1) /\ ((z + 1) + 1) - 1 = z + 1
      BY <1>4, <2>2
    <3>2. t[z + 1] # 0
      BY <3>1 DEF IsLeading
    <3>3. QED BY <1>2, <3>1, <3>2
  <2>3. QED BY <1>4, <2>1, <2>2 DEF IsLeading
<1>6. IsLeading(LeadingZeros(u), u, n + 1)
  BY <1>3, LeadingZerosAre
<1> DEFINE m == n + 1
           y == z + 1
<1>7. m \in Nat /\ u \in [1 .. m -> Nat] /\ IsLeading(y, u, m) /\ IsLeading(LeadingZeros(u), u, m)
  BY <1>3, <1>5, <1>6
<1> HIDE DEF m, y
<1>8. LeadingZeros(u) = y
  BY <1>7, OneLeading
<1>9. QED
  BY <1>8 DEF u, y

LEMMA OneZeroLess ==
  ASSUME NEW n \in Nat, NEW t, IsString(t, n, Digits), NEW z, IsLeading(z, t, n), z > 0
  PROVE  LeadingZeros(Tail(t)) = z - 1
<1> DEFINE u == Tail(t)
<1>1. t \in Seq(Nat) /\ Len(t) = n /\ z \in 1 .. n
  <2>1. t \in [1 .. n -> Nat] /\ Len(t) = n
    BY DigitsAreNumbers
  <2>2. QED BY <2>1 DEF IsLeading
<1>2. /\ u \in Seq(Nat) /\ Len(u) = n - 1
      /\ \A i \in 1 .. n - 1 : u[i] = t[i + 1]
  <2>1. t # <<>>
    BY <1>1, EmptySeq
  <2>2. QED BY <1>1, <2>1, HeadTailProperties
<1> HIDE DEF u
<1>3. u \in [1 .. n - 1 -> Nat] /\ n - 1 \in Nat
  BY <1>1, <1>2
<1>4. IsLeading(z - 1, u, n - 1)
  <2>1. ASSUME NEW i \in 1 .. z - 1 PROVE u[i] = 0
    <3>1. i \in 1 .. n - 1 /\ i + 1 \in 1 .. z
      BY <1>1
    <3>2. t[i + 1] = 0
      BY <3>1 DEF IsLeading
    <3>3. QED BY <1>2, <3>1, <3>2
  <2>2. ASSUME z - 1 < n - 1 PROVE u[(z - 1) + 1] # 0
    <3>1. z < n /\ (z - 1) + 1 = z /\ z \in 1 .. n - 1
      BY <1>1, <2>2
    <3>2. t[z + 1] # 0
      BY <3>1 DEF IsLeading
    <3>3. QED BY <1>2, <3>1, <3>2
  <2>3. z - 1 \in 0 .. n - 1
    BY <1>1
  <2>4. QED BY <2>1, <2>2, <2>3 DEF IsLeading
<1>5. IsLeading(LeadingZeros(u), u, n - 1)
  BY <1>3, LeadingZerosAre
<1> DEFINE m == n - 1
           y == z - 1
<1>6. m \in Nat /\ u \in [1 .. m -> Nat] /\ IsLeading(y, u, m) /\ IsLeading(LeadingZeros(u), u, m)
  BY <1>3, <1>4, <1>5
<1> HIDE DEF m, y
<1>7. LeadingZeros(u) = y
  BY <1>6, OneLeading
<1>8. QED
  BY <1>7 DEF u, y

\* b58check finds right what b58check_enc wrote, and the zeros wrong with one more or one
\* less: the number alone would not tell.
THEOREM CheckedBytesCheckOut == EncodingsSpec => []ChecksOut
<1>1. ASSUME IsInput(input) PROVE ChecksOut
  <2> SUFFICES ASSUME input.kind = "bytes", input.text # <<>>
               PROVE  LET e == CheckEncode(Head(input.text), Tail(input.text),
                                           4 * (Len(input.text) + 4))
                          size == Len(input.text) + 4
                          d == Base58Decode(e.digits, size)
                      IN  /\ e.fits
                          /\ d.ok /\ Check(d.bin, e.digits) = Head(input.text)
                          /\ Check(d.bin, <<0>> \o e.digits) = -3
                          /\ LeadingZeros(e.digits) > 0 => Check(d.bin, Tail(e.digits)) = -3
    BY DEF ChecksOut
  <2> DEFINE text == input.text
             buf == <<Head(text)>> \o Tail(text)
             s == buf \o CheckSum(buf)
             n == Len(text) + 4
             room == 4 * n
             e == CheckEncode(Head(text), Tail(text), room)
             d == Base58Decode(e.digits, n)
             z == LeadingZeros(s)
  <2>1. text \in Seq(Bytes) /\ text # <<>>
    BY <1>1 DEF IsInput, IsString
  <2> HIDE DEF text
  <2>2. /\ s \in Seq(Bytes) /\ Len(s) = n /\ Len(text) \in Nat
        /\ Ending(s, 4) = CheckSum(SubSeq(s, 1, Len(s) - 4))
        /\ s[1] = Head(text)
    BY <2>1, WithCheckSum
  <2>3. e = Base58Encode(s, room)
    BY DEF CheckEncode
  <2> HIDE DEF e, buf, s
  <2>4. n \in Nat /\ n \in Nat \ {0} /\ room \in Nat /\ n >= 4
    BY <2>2
  <2> HIDE DEF n
  <2>5. IsString(s, n, Bytes)
    BY <2>2, LenProperties DEF IsString
  <2> HIDE DEF room
  <2>6. IsLeading(z, s, n) /\ \E len : IsEncoding(e, s, n, z, len, room)
    BY <2>3, <2>4, <2>5, Base58Encodes
  <2> HIDE DEF z
  <2>7. PICK len : IsEncoding(e, s, n, z, len, room)
    BY <2>6
  <2>8. /\ len \in Nat /\ len <= z + Reserved(n - z) /\ e.fits = (room > len)
        /\ IsString(e.digits, len, Digits) /\ IsLeading(z, e.digits, len)
    BY <2>7 DEF IsEncoding
  <2>9. e.fits
    <3>1. z \in 0 .. n /\ n - z \in Nat
      BY <2>4, <2>6 DEF IsLeading
    <3>2. room > z + Reserved(n - z)
      BY <2>4, <3>1, RoomIsEnough DEF room
    <3>3. Reserved(n - z) \in Nat
      BY <3>1, ReservedIsEnough
    <3>4. room > len
      BY <2>4, <2>8, <3>1, <3>2, <3>3
    <3>5. QED BY <2>8, <3>4
  <2>10. d.ok /\ Ending(d.bin, n) = s /\ IsString(d.bin, n, Bytes)
    <3>1. n >= n
      BY <2>4
    <3>2. QED BY <2>4, <2>5, <2>6, <2>7, <3>1, EncodedIsDecoded
  <2> HIDE DEF d
  <2>11. d.bin = s
    <3> DEFINE bin == d.bin
    <3>1. Len(bin) = n /\ bin = [i \in 1 .. n |-> bin[i]]
      BY <2>4, <2>10, BytesAreNumbers DEF IsString
    <3>2. \A i \in 1 .. n : n - n + i = i
      BY <2>4
    <3>3. Ending(bin, n) = [i \in 1 .. n |-> bin[n - n + i]]
      BY <3>1 DEF Ending
    <3>4. Ending(bin, n) = [i \in 1 .. n |-> bin[i]]
      BY <3>2, <3>3
    <3>5. QED BY <2>10, <3>1, <3>4
  <2>12. LeadingZeros(e.digits) = z
    <3>1. e.digits \in [1 .. len -> Nat]
      BY <2>8, DigitsAreNumbers
    <3>2. IsLeading(LeadingZeros(e.digits), e.digits, len)
      BY <2>8, <3>1, LeadingZerosAre
    <3>3. QED BY <2>8, <3>1, <3>2, OneLeading
  <2>13. LeadingZeros(<<0>> \o e.digits) = z + 1
    BY <2>8, OneZeroMore
  <2>14. z \in Nat /\ z # z + 1
    BY <2>4, <2>6 DEF IsLeading
  <2>15. Check(s, e.digits) = s[1]
    <3>1. LeadingZeros(s) = LeadingZeros(e.digits)
      BY <2>12 DEF z
    <3>2. ~(Len(s) < 4)
      BY <2>2, <2>4
    <3>3. QED BY <2>2, <3>1, <3>2, Zenon DEF Check
  <2>16. Check(s, <<0>> \o e.digits) = -3
    <3>1. LeadingZeros(s) # LeadingZeros(<<0>> \o e.digits)
      BY <2>13, <2>14 DEF z
    <3>2. ~(Len(s) < 4)
      BY <2>2, <2>4
    <3>3. QED BY <2>2, <3>1, <3>2, Zenon DEF Check
  <2>17. LeadingZeros(e.digits) > 0 => Check(s, Tail(e.digits)) = -3
    <3> SUFFICES ASSUME z > 0 PROVE Check(s, Tail(e.digits)) = -3
      BY <2>12
    <3>1. LeadingZeros(Tail(e.digits)) = z - 1
      BY <2>8, OneZeroLess
    <3>2. LeadingZeros(s) # LeadingZeros(Tail(e.digits))
      BY <2>14, <3>1 DEF z
    <3>3. ~(Len(s) < 4)
      BY <2>2, <2>4
    <3>4. QED BY <2>2, <3>2, <3>3, Zenon DEF Check
  <2>18. /\ e.fits /\ d.ok /\ Check(d.bin, e.digits) = Head(text)
         /\ Check(d.bin, <<0>> \o e.digits) = -3
         /\ LeadingZeros(e.digits) > 0 => Check(d.bin, Tail(e.digits)) = -3
    BY <2>2, <2>9, <2>10, <2>11, <2>15, <2>16, <2>17
  <2>19. QED BY <2>18 DEF d, e, room, n, text
<1>2. QED
  BY <1>1, InputStays, PTL
-----------------------------------------------------------------------------
(* Base64 *)

\* The first n elements.
First(s, n) == [i \in 1 .. n |-> s[i]]

\* A loop that appends.
LEMMA OneMore ==
  ASSUME NEW S, NEW n \in Nat, NEW s \in [1 .. n -> S], NEW i \in 0 .. n - 1
  PROVE  Append(First(s, i), s[i + 1]) = First(s, i + 1)
<1>1. First(s, i) \in Seq(S) /\ Len(First(s, i)) = i /\ s[i + 1] \in S
  BY DEF First
<1>2. First(s, i + 1) \in Seq(S) /\ Len(First(s, i + 1)) = i + 1
  BY DEF First
<1>3. /\ Append(First(s, i), s[i + 1]) \in Seq(S)
      /\ Len(Append(First(s, i), s[i + 1])) = i + 1
  BY <1>1, AppendProperties
<1>4. ASSUME NEW j \in 1 .. i + 1
      PROVE  Append(First(s, i), s[i + 1])[j] = First(s, i + 1)[j]
  <2>1. CASE j = i + 1
    BY <1>1, <2>1, AppendProperties DEF First
  <2>2. CASE j # i + 1
    <3>1. j \in 1 .. i
      BY <2>2
    <3>2. Append(First(s, i), s[i + 1])[j] = First(s, i)[j]
      BY <1>1, <3>1, AppendProperties
    <3>3. QED BY <3>1, <3>2 DEF First
  <2>3. QED BY <2>1, <2>2
<1>5. QED
  BY <1>2, <1>3, <1>4, SeqEqual

\* What is kept of a string of which only the first m characters are in S.
LEMMA KeptIs ==
  ASSUME NEW n \in Nat, NEW s \in [1 .. n -> Characters], NEW m \in 0 .. n, NEW S,
         \A i \in 1 .. n : s[i] \in S <=> i <= m
  PROVE  Kept(s, S) = First(s, m)
<1> DEFINE step == [i \in 1 .. n |-> [kept \in Seq(Characters) |->
                      IF s[i] \in S THEN Append(kept, s[i]) ELSE kept]]
           run == Iterate(<<>>, step, n)
           T == {i \in 0 .. n : run[i] = First(s, IF i <= m THEN i ELSE m)}
<1>1. step \in Steps(Seq(Characters), n) /\ <<>> \in Seq(Characters)
  <2>1. \A i \in 1 .. n : \A kept \in Seq(Characters) : Append(kept, s[i]) \in Seq(Characters)
    BY AppendProperties
  <2>2. QED BY <2>1 DEF Steps
<1>2. \A i \in 0 .. n - 1 : \A kept \in Seq(Characters) :
        step[i + 1][kept] = IF s[i + 1] \in S THEN Append(kept, s[i + 1]) ELSE kept
  OBVIOUS
<1>3. Kept(s, S) = run[n]
  BY LenIs DEF Kept
<1> HIDE DEF step
<1>4. IsRun(run, Seq(Characters), <<>>, step, n)
  BY <1>1, Iterates
<1> HIDE DEF run
<1>5. 0 \in T
  <2>1. First(s, 0) = <<>>
    BY DEF First
  <2>2. QED BY <1>4, <2>1 DEF IsRun
<1>6. ASSUME NEW i \in 0 .. n - 1, i \in T PROVE i + 1 \in T
  <2>1. run[i + 1] = IF s[i + 1] \in S THEN Append(run[i], s[i + 1]) ELSE run[i]
    <3>1. run[i] \in Seq(Characters) /\ run[i + 1] = step[i + 1][run[i]]
      BY <1>4 DEF IsRun
    <3>2. QED BY <1>2, <3>1
  <2>2. run[i] = First(s, IF i <= m THEN i ELSE m)
    BY <1>6
  <2>3. CASE i + 1 <= m
    <3>1. s[i + 1] \in S /\ i <= m
      BY <2>3
    <3>2. run[i + 1] = First(s, i + 1)
      BY <2>1, <2>2, <3>1, OneMore
    <3>3. QED BY <2>3, <3>2
  <2>4. CASE ~(i + 1 <= m)
    <3>1. s[i + 1] \notin S /\ (IF i <= m THEN i ELSE m) = m
      BY <2>4
    <3>2. run[i + 1] = First(s, m)
      BY <2>1, <2>2, <3>1
    <3>3. QED BY <2>4, <3>2
  <2>5. QED BY <2>3, <2>4
<1>7. 0 .. n \subseteq T
  <2> HIDE DEF T
  <2> QED BY <1>5, <1>6, UpTo
<1>8. n \in T /\ (IF n <= m THEN n ELSE m) = m
  BY <1>7
<1>9. QED
  BY <1>3, <1>8

\* q are the four characters of three bytes, of which those that are not there are 0.
IsSextets(q, a, b, c) ==
  /\ q \in [1 .. 4 -> Standard]
  /\ b = 0 /\ c = 0 => q[3] = 0
  /\ c = 0 => q[4] = 0
  /\ Octets(q[1], q[2], q[3], q[4]) = <<a, b, c>>

LEMMA SextetsAre ==
  ASSUME NEW a \in 0 .. 255, NEW b \in 0 .. 255, NEW c \in 0 .. 255
  PROVE  IsSextets(Sextets(a, b, c), a, b, c)
<1> DEFINE q1 == a \div 4
           q2 == (a % 4) * 16 + b \div 16
           q3 == (b % 16) * 4 + c \div 64
           q4 == c % 64
<1>1. /\ a % 4 \in 0 .. 3 /\ a \div 4 \in 0 .. 63 /\ a = 4 * (a \div 4) + (a % 4)
      /\ b % 16 \in 0 .. 15 /\ b \div 16 \in 0 .. 15 /\ b = 16 * (b \div 16) + (b % 16)
      /\ c % 64 \in 0 .. 63 /\ c \div 64 \in 0 .. 3 /\ c = 64 * (c \div 64) + (c % 64)
  OBVIOUS
<1>2. q1 \in 0 .. 63 /\ q2 \in 0 .. 63 /\ q3 \in 0 .. 63 /\ q4 \in 0 .. 63
  BY <1>1
<1>3. /\ q2 \div 16 = a % 4 /\ q2 % 16 = b \div 16
      /\ q3 \div 4 = b % 16 /\ q3 % 4 = c \div 64
  BY <1>1
<1>4. /\ q1 * 4 + (q2 \div 16) = a
      /\ (q2 % 16) * 16 + (q3 \div 4) = b
      /\ (q3 % 4) * 64 + q4 = c
  BY <1>1, <1>3
<1>5. (b = 0 /\ c = 0 => q3 = 0) /\ (c = 0 => q4 = 0)
  BY <1>1
<1>6. Sextets(a, b, c) = <<q1, q2, q3, q4>>
  BY DEF Sextets
<1> HIDE DEF q1, q2, q3, q4
<1>7. Octets(q1, q2, q3, q4) = <<a, b, c>>
  BY <1>4 DEF Octets
<1>8. QED
  BY <1>2, <1>5, <1>6, <1>7 DEF IsSextets, Standard

\* n bytes are g groups of three.
IsGroups(n, g) == g \in Nat /\ 3 * g \in n .. n + 2

\* The k-th group.
Group(s, k) == Sextets(At(s, 3 * k + 1), At(s, 3 * k + 2), At(s, 3 * k + 3))

\* e are the characters of the n bytes s, n + g of them and then padding.
IsEncoding64(e, s, n, g) ==
  /\ e \in [1 .. 4 * g -> Characters]
  /\ \A p \in 1 .. 4 * g : e[p] \in Standard \cup {Equals} /\ (e[p] # Equals <=> p <= n + g)
  /\ \A k \in 0 .. g - 1 : \A j \in 1 .. 4 : 4 * k + j <= n + g => e[4 * k + j] = Group(s, k)[j]

IsBytes(s, n) == s \in [1 .. n -> 0 .. 255]

LEMMA AtIs ==
  ASSUME NEW n \in Nat, NEW s, IsBytes(s, n), NEW i \in Nat \ {0}
  PROVE  /\ At(s, i) \in 0 .. 255
         /\ i <= n => At(s, i) = s[i]
         /\ i > n => At(s, i) = 0
  BY LenIs DEF At, IsBytes

LEMMA GroupIs ==
  ASSUME NEW n \in Nat, NEW s, IsBytes(s, n), NEW k \in Nat
  PROVE  IsSextets(Group(s, k), At(s, 3 * k + 1), At(s, 3 * k + 2), At(s, 3 * k + 3))
<1>1. 3 * k + 1 \in Nat \ {0} /\ 3 * k + 2 \in Nat \ {0} /\ 3 * k + 3 \in Nat \ {0}
  OBVIOUS
<1>2. At(s, 3 * k + 1) \in 0 .. 255 /\ At(s, 3 * k + 2) \in 0 .. 255
        /\ At(s, 3 * k + 3) \in 0 .. 255
  BY <1>1, AtIs
<1>3. QED
  BY <1>2, SextetsAre DEF Group

LEMMA Fourths ==
  ASSUME NEW p \in Nat \ {0}
  PROVE  /\ (p - 1) \div 4 \in Nat
         /\ p - 4 * ((p - 1) \div 4) \in 1 .. 4
  OBVIOUS

LEMMA FourthIs ==
  ASSUME NEW k \in Nat, NEW j \in 1 .. 4
  PROVE  (4 * k + j - 1) \div 4 = k
  OBVIOUS

LEMMA EncodingIs ==
  ASSUME NEW n \in Nat, NEW s, IsBytes(s, n)
  PROVE  \E g : IsGroups(n, g) /\ IsEncoding64(Encoded64(s), s, n, g)
<1> DEFINE g == (n + 2) \div 3
           e == Encoded64(s)
           group(p) == (p - 1) \div 4
           at(p) == p - 4 * group(p)
<1>1. IsGroups(n, g)
  BY DEF IsGroups
<1>2. Len(s) = n
  BY LenIs DEF IsBytes
<1>3. e = [p \in 1 .. 4 * g |->
             IF 3 * group(p) + at(p) > n + 1 THEN Equals ELSE Group(s, group(p))[at(p)]]
  BY <1>2 DEF Encoded64, Group
<1> HIDE DEF g, e
<1>4. ASSUME NEW p \in 1 .. 4 * g
      PROVE  /\ group(p) \in 0 .. g - 1 /\ at(p) \in 1 .. 4
             /\ 3 * group(p) + at(p) > n + 1 <=> p > n + g
             /\ e[p] = IF p > n + g THEN Equals ELSE Group(s, group(p))[at(p)]
             /\ Group(s, group(p))[at(p)] \in Standard
  <2>0. g \in Nat
    BY <1>1 DEF IsGroups
  <2>1. group(p) \in Nat /\ at(p) \in 1 .. 4
    BY <2>0, Fourths
  <2>2. PICK k \in Nat, j \in 1 .. 4 : k = group(p) /\ j = at(p) /\ p = 4 * k + j
    BY <2>0, <2>1
  <2>3. k \in 0 .. g - 1 /\ (3 * k + j > n + 1 <=> 4 * k + j > n + g)
    BY <1>1, <2>2 DEF IsGroups
  <2>4. Group(s, k)[j] \in Standard
    <3>1. IsSextets(Group(s, k), At(s, 3 * k + 1), At(s, 3 * k + 2), At(s, 3 * k + 3))
      BY <2>2, GroupIs
    <3>2. Group(s, k) \in [1 .. 4 -> Standard]
      BY <3>1 DEF IsSextets
    <3>3. QED BY <2>2, <3>2
  <2>5. QED BY <1>3, <2>2, <2>3, <2>4
<1>5. Equals \notin Standard /\ Equals \in Characters /\ Standard \subseteq Characters
  BY DEF Equals, Standard, Characters
<1>6. e \in [1 .. 4 * g -> Characters]
  BY <1>3, <1>4, <1>5
<1>7. \A p \in 1 .. 4 * g : e[p] \in Standard \cup {Equals} /\ (e[p] # Equals <=> p <= n + g)
  <2>1. g \in Nat
    BY <1>1 DEF IsGroups
  <2> HIDE DEF group, at
  <2> QED BY <1>4, <1>5, <2>1
<1>8. ASSUME NEW k \in 0 .. g - 1, NEW j \in 1 .. 4, 4 * k + j <= n + g
      PROVE  e[4 * k + j] = Group(s, k)[j]
  <2>1. g \in Nat
    BY <1>1 DEF IsGroups
  <2>2. 4 * k + j \in 1 .. 4 * g /\ ~(4 * k + j > n + g) /\ k \in Nat
    BY <1>8, <2>1
  <2>3. group(4 * k + j) = k /\ at(4 * k + j) = j
    BY <2>2, FourthIs
  <2> HIDE DEF group, at
  <2>4. QED BY <1>4, <2>2, <2>3
<1>9. QED
  BY <1>1, <1>6, <1>7, <1>8 DEF IsEncoding64, e

LEMMA EqualsIs == Equals \in Characters /\ Equals \notin Standard /\ Standard \subseteq Characters
  BY DEF Equals, Standard, Characters

\* What is not padding.
LEMMA UnpaddedIs ==
  ASSUME NEW m \in Nat, NEW e \in [1 .. m -> Characters], NEW k \in 0 .. m,
         \A p \in 1 .. m : e[p] # Equals <=> p <= k
  PROVE  Unpadded(e) = First(e, k)
<1> DEFINE S == Characters \ {Equals}
<1>1. \A p \in 1 .. m : e[p] \in S <=> p <= k
  OBVIOUS
<1> HIDE DEF S
<1>2. Kept(e, S) = First(e, k)
  BY <1>1, KeptIs
<1>3. QED
  BY <1>2 DEF Unpadded, S

\* The characters of a group without the padding, or 0: those that are not there are 0.
LEMMA CharactersOf ==
  ASSUME NEW n \in Nat, NEW s, IsBytes(s, n), NEW g, IsGroups(n, g),
         NEW e, IsEncoding64(e, s, n, g), NEW k \in 0 .. g - 1, 3 * k < n, NEW j \in 1 .. 4
  PROVE  At(First(e, n + g), 4 * k + j) = Group(s, k)[j]
<1>1. g \in Nat /\ 3 * g \in n .. n + 2
  BY DEF IsGroups
<1>2. Len(First(e, n + g)) = n + g
  BY <1>1 DEF First
<1>3. CASE 4 * k + j <= n + g
  <2>1. 4 * k + j \in 1 .. n + g
    BY <1>1, <1>3
  <2>2. First(e, n + g)[4 * k + j] = e[4 * k + j]
    BY <2>1 DEF First
  <2>3. At(First(e, n + g), 4 * k + j) = e[4 * k + j]
    BY <1>2, <1>3, <2>2 DEF At
  <2>4. QED BY <1>3, <2>3 DEF IsEncoding64
<1>4. CASE ~(4 * k + j <= n + g)
  <2>1. At(First(e, n + g), 4 * k + j) = 0
    BY <1>2, <1>4 DEF At
  <2>2. k \in Nat /\ 3 * k + 2 \in Nat \ {0} /\ 3 * k + 3 \in Nat \ {0}
    BY <1>1
  <2>3. IsSextets(Group(s, k), At(s, 3 * k + 1), At(s, 3 * k + 2), At(s, 3 * k + 3))
    BY <2>2, GroupIs
  <2>4. CASE j = 4
    <3>1. 3 * k + 3 > n
      BY <1>1, <1>4, <2>4
    <3>2. At(s, 3 * k + 3) = 0
      BY <2>2, <3>1, AtIs
    <3>3. QED BY <2>1, <2>3, <2>4, <3>2 DEF IsSextets
  <2>5. CASE j = 3
    <3>1. 3 * k + 3 > n /\ 3 * k + 2 > n
      BY <1>1, <1>4, <2>5
    <3>2. At(s, 3 * k + 3) = 0 /\ At(s, 3 * k + 2) = 0
      BY <2>2, <3>1, AtIs
    <3>3. QED BY <2>1, <2>3, <2>5, <3>2 DEF IsSextets
  <2>6. j = 3 \/ j = 4
    BY <1>1, <1>4
  <2>7. QED BY <2>4, <2>5, <2>6
<1>5. QED
  BY <1>3, <1>4

LEMMA Thirds ==
  ASSUME NEW n \in Nat, NEW g, IsGroups(n, g), NEW p \in 1 .. n
  PROVE  /\ (p - 1) \div 3 \in 0 .. g - 1
         /\ p - 3 * ((p - 1) \div 3) \in 1 .. 3
         /\ 3 * ((p - 1) \div 3) < n
         /\ (3 * (n + g)) \div 4 = n
  BY DEF IsGroups

\* What stands for some bytes is decoded to them.
LEMMA DecodingIs ==
  ASSUME NEW n \in Nat, NEW s, IsBytes(s, n), NEW g, IsGroups(n, g),
         NEW e, IsEncoding64(e, s, n, g)
  PROVE  Decodable(e) /\ Decoded64(e) = s
<1>1. g \in Nat /\ 3 * g \in n .. n + 2 /\ n + g \in 0 .. 4 * g /\ 4 * g \in Nat
  BY DEF IsGroups
<1>2. /\ e \in [1 .. 4 * g -> Characters]
      /\ \A p \in 1 .. 4 * g : e[p] # Equals <=> p <= n + g
  BY DEF IsEncoding64
<1>3. Len(e) = 4 * g /\ DOMAIN e = 1 .. 4 * g
  BY <1>1, <1>2, LenIs
<1>4. Decodable(e)
  <2>1. (4 * g) % 4 = 0
    BY <1>1
  <2>2. ASSUME NEW i \in 1 .. 4 * g, e[i] = Equals
        PROVE  i > 4 * g - 2 /\ e[4 * g] = Equals
    <3>1. ~(i <= n + g)
      BY <1>2, <2>2
    <3>2. i > 4 * g - 2 /\ 4 * g \in 1 .. 4 * g /\ ~(4 * g <= n + g)
      BY <1>1, <3>1
    <3>3. QED BY <1>2, <3>2
  <2>3. QED BY <1>3, <2>1, <2>2 DEF Decodable
<1> DEFINE c == First(e, n + g)
<1>5. Unpadded(e) = c
  BY <1>1, <1>2, UnpaddedIs
<1>6. Len(c) = n + g
  BY <1>1 DEF First
<1>7. (3 * (n + g)) \div 4 = n
  BY <1>1
<1> DEFINE octets(k) == Octets(At(c, 4 * k + 1), At(c, 4 * k + 2), At(c, 4 * k + 3),
                               At(c, 4 * k + 4))
<1>8. Decoded64(e) = [p \in 1 .. n |-> octets((p - 1) \div 3)[p - 3 * ((p - 1) \div 3)]]
  BY <1>5, <1>6, <1>7 DEF Decoded64
<1> HIDE DEF c
<1>9. ASSUME NEW p \in 1 .. n
      PROVE  octets((p - 1) \div 3)[p - 3 * ((p - 1) \div 3)] = s[p]
  <2>1. PICK k \in 0 .. g - 1, j \in 1 .. 3 :
          k = (p - 1) \div 3 /\ j = p - 3 * ((p - 1) \div 3) /\ 3 * k < n /\ p = 3 * k + j
    BY <1>1, Thirds
  <2>2. /\ At(c, 4 * k + 1) = Group(s, k)[1] /\ At(c, 4 * k + 2) = Group(s, k)[2]
        /\ At(c, 4 * k + 3) = Group(s, k)[3] /\ At(c, 4 * k + 4) = Group(s, k)[4]
    BY <2>1, CharactersOf DEF c
  <2>3. k \in Nat /\ p \in Nat \ {0} /\ p <= n
    BY <1>1
  <2>4. IsSextets(Group(s, k), At(s, 3 * k + 1), At(s, 3 * k + 2), At(s, 3 * k + 3))
    BY <2>3, GroupIs
  <2>5. octets(k) = <<At(s, 3 * k + 1), At(s, 3 * k + 2), At(s, 3 * k + 3)>>
    BY <2>2, <2>4 DEF IsSextets
  <2>6. octets(k)[j] = At(s, 3 * k + j)
    <3> HIDE DEF octets
    <3> QED BY <2>1, <2>5
  <2>7. At(s, p) = s[p]
    BY <2>3, AtIs
  <2>8. QED BY <2>1, <2>6, <2>7
<1>10. s = [p \in 1 .. n |-> s[p]]
  BY DEF IsBytes
<1>11. Decoded64(e) = s
  <2> HIDE DEF octets
  <2> QED BY <1>8, <1>9, <1>10
<1>12. QED
  BY <1>4, <1>11

\* The alphabet of URLs.
Url(s) == Replaced(Replaced(s, Slash, Underscore), Plus, Hyphen)
Plain(s) == Replaced(Replaced(s, Underscore, Slash), Hyphen, Plus)

LEMMA UrlIs ==
  ASSUME NEW m \in Nat, NEW e \in [1 .. m -> Standard \cup {Equals}]
  PROVE  /\ Url(e) \in [1 .. m -> Characters]
         /\ \A i \in 1 .. m : Url(e)[i] = Equals <=> e[i] = Equals
         /\ \A k \in 0 .. m : Plain(First(Url(e), k)) = First(e, k)
<1> DEFINE one(x) == IF x = Slash THEN Underscore ELSE IF x = Plus THEN Hyphen ELSE x
           back(x) == IF x = Underscore THEN Slash ELSE IF x = Hyphen THEN Plus ELSE x
<1>1. \A x \in Standard \cup {Equals} :
        /\ one(x) \in Characters /\ (one(x) = Equals <=> x = Equals) /\ back(one(x)) = x
  BY DEF Standard, Equals, Characters, Slash, Underscore, Plus, Hyphen
<1>2. Url(e) = [i \in 1 .. m |-> one(e[i])]
  BY DEF Url, Replaced, Slash, Underscore, Plus, Hyphen
<1>3. ASSUME NEW k \in 0 .. m PROVE Plain(First(Url(e), k)) = First(e, k)
  <2>1. First(Url(e), k) = [i \in 1 .. k |-> one(e[i])]
    BY <1>2 DEF First
  <2> HIDE DEF one
  <2>2. Plain([i \in 1 .. k |-> one(e[i])]) = [i \in 1 .. k |-> back(one(e[i]))]
    BY DEF Plain, Replaced, Slash, Underscore, Plus, Hyphen
  <2> HIDE DEF back
  <2>3. \A i \in 1 .. k : back(one(e[i])) = e[i]
    BY <1>1
  <2>4. QED BY <2>1, <2>2, <2>3 DEF First
<1> HIDE DEF one
<1>4. QED
  BY <1>1, <1>2, <1>3

LEMMA FirstAll ==
  ASSUME NEW m \in Nat, NEW S, NEW e \in [1 .. m -> S]
  PROVE  First(e, m) = e
  BY DEF First

\* The padding is put back.
LEMMA PaddedIs ==
  ASSUME NEW n \in Nat, NEW s, NEW g, IsGroups(n, g), NEW e, IsEncoding64(e, s, n, g),
         NEW k \in {n + g, 4 * g}
  PROVE  PaddedAgain(First(e, k)) = e
<1>1. g \in Nat /\ 3 * g \in n .. n + 2 /\ n + g \in 0 .. 4 * g /\ 4 * g \in Nat
  BY DEF IsGroups
<1>2. k \in 0 .. 4 * g /\ 4 * g - k \in 0 .. 2
  BY <1>1
<1>3. (4 - (k % 4)) % 4 = 4 * g - k
  BY <1>1, <1>2
<1>4. Len(First(e, k)) = k
  BY <1>2 DEF First
<1> DEFINE padding == [i \in 1 .. 4 * g - k |-> Equals]
<1>5. PaddedAgain(First(e, k)) = First(e, k) \o padding
  BY <1>3, <1>4 DEF PaddedAgain
<1>6. /\ e \in [1 .. 4 * g -> Characters]
      /\ \A p \in 1 .. 4 * g : e[p] # Equals <=> p <= n + g
  BY DEF IsEncoding64
<1>7. /\ First(e, k) \in Seq(Characters) /\ padding \in Seq(Characters)
      /\ e \in Seq(Characters) /\ Len(e) = 4 * g /\ Len(padding) = 4 * g - k
  BY <1>1, <1>2, <1>6, EqualsIs DEF First
<1> HIDE DEF padding
<1> DEFINE whole == First(e, k) \o padding
           size == Len(First(e, k)) + Len(padding)
<1>8. /\ whole \in Seq(Characters) /\ Len(whole) = size
       /\ \A i \in 1 .. size : whole[i] = IF i <= Len(First(e, k)) THEN First(e, k)[i]
                                         ELSE padding[i - Len(First(e, k))]
  BY <1>7, ConcatProperties
<1>9. size = 4 * g
  BY <1>1, <1>2, <1>4, <1>7
<1>10. /\ First(e, k) \o padding \in Seq(Characters)
      /\ Len(First(e, k) \o padding) = 4 * g
  BY <1>8, <1>9
<1>11. ASSUME NEW i \in 1 .. 4 * g PROVE (First(e, k) \o padding)[i] = e[i]
  <2>1. (First(e, k) \o padding)[i] = IF i <= k THEN First(e, k)[i] ELSE padding[i - k]
    BY <1>4, <1>8, <1>9
  <2>2. CASE i <= k
    BY <2>1, <2>2, <1>2 DEF First
  <2>3. CASE ~(i <= k)
    <3>1. i - k \in 1 .. 4 * g - k /\ ~(i <= n + g)
      BY <1>1, <1>2, <2>3
    <3>2. padding[i - k] = Equals /\ e[i] = Equals
      BY <1>6, <3>1 DEF padding
    <3>3. QED BY <2>1, <2>3, <3>2
  <2>4. QED BY <2>2, <2>3
<1>12. QED
  BY <1>5, <1>7, <1>10, <1>11, SeqEqual

\* Whatever the alphabet, and with or without padding.
LEMMA Base64IsDecoded ==
  ASSUME NEW n \in Nat, NEW s, IsBytes(s, n), NEW url \in BOOLEAN, NEW padding \in BOOLEAN
  PROVE  LET d == Base64Decode(Base64Encode(s, url, padding), url) IN
           ~d.raised /\ d.data = s
<1> DEFINE e == Encoded64(s)
<1>1. PICK g : IsGroups(n, g) /\ IsEncoding64(e, s, n, g)
  BY EncodingIs
<1> HIDE DEF e
<1>2. g \in Nat /\ n + g \in 0 .. 4 * g /\ 4 * g \in Nat
  BY <1>1 DEF IsGroups
<1>3. /\ e \in [1 .. 4 * g -> Standard \cup {Equals}] /\ e \in [1 .. 4 * g -> Characters]
      /\ \A p \in 1 .. 4 * g : e[p] # Equals <=> p <= n + g
  BY <1>1 DEF IsEncoding64
<1> DEFINE u == IF url THEN Url(e) ELSE e
           k == IF padding THEN 4 * g ELSE n + g
           plain(x) == IF url THEN Plain(x) ELSE x
<1>4. k \in {n + g, 4 * g} /\ k \in 0 .. 4 * g
  BY <1>2
<1>5. u \in [1 .. 4 * g -> Characters] /\ \A p \in 1 .. 4 * g : u[p] # Equals <=> p <= n + g
  BY <1>2, <1>3, UrlIs
<1>6. Base64Encode(s, url, padding) = First(u, k)
  <2>1. Base64Encode(s, url, padding) = IF padding THEN u ELSE Unpadded(u)
    BY DEF Base64Encode, Url, e
  <2> HIDE DEF u
  <2>2. Unpadded(u) = First(u, n + g)
    BY <1>2, <1>5, UnpaddedIs
  <2>3. First(u, 4 * g) = u
    BY <1>2, <1>5, FirstAll
  <2>4. QED BY <2>1, <2>2, <2>3
<1>7. plain(First(u, k)) = First(e, k)
  <2> HIDE DEF k
  <2>1. CASE url
    BY <1>2, <1>3, <1>4, <2>1, UrlIs
  <2>2. CASE ~url
    BY <2>2
  <2>3. QED BY <2>1, <2>2
<1> HIDE DEF k, u
<1>8. PaddedAgain(plain(First(u, k))) = e
  BY <1>1, <1>4, <1>7, PaddedIs
<1>9. Kept(e, Standard \cup {Equals}) = e
  <2> DEFINE S == Standard \cup {Equals}
  <2>1. \A i \in 1 .. 4 * g : e[i] \in S <=> i <= 4 * g
    BY <1>2, <1>3
  <2> HIDE DEF S
  <2>2. Kept(e, S) = First(e, 4 * g)
    BY <1>2, <1>3, <2>1, KeptIs
  <2>3. First(e, 4 * g) = e
    BY <1>2, <1>3, FirstAll
  <2>4. QED BY <2>2, <2>3 DEF S
<1>10. Decodable(e) /\ Decoded64(e) = s
  BY <1>1, DecodingIs
<1>11. Base64Decode(First(u, k), url) =
         [raised |-> ~Decodable(e), data |-> IF Decodable(e) THEN Decoded64(e) ELSE <<>>]
  <2>1. Base64Decode(First(u, k), url) =
          LET known == Kept(PaddedAgain(plain(First(u, k))), Standard \cup {Equals}) IN
            [raised |-> ~Decodable(known),
             data |-> IF Decodable(known) THEN Decoded64(known) ELSE <<>>]
    BY DEF Base64Decode, Plain
  <2> HIDE DEF plain
  <2>2. QED BY <1>8, <1>9, <2>1
<1>12. Base64Decode(First(u, k), url) = [raised |-> FALSE, data |-> s]
  BY <1>10, <1>11
<1>13. QED
  BY <1>6, <1>12

\* Signatures and keys are decoded to what was encoded, in each way of encoding them:
\* no length leaves too much or too little padding to put back.
THEOREM Base64Decodes == EncodingsSpec => []DecodesBase64
<1>1. ASSUME IsInput(input) PROVE DecodesBase64
  <2>1. SUFFICES ASSUME input.kind = "bytes", NEW url \in BOOLEAN, NEW padding \in BOOLEAN
                 PROVE  LET d == Base64Decode(Base64Encode(input.text, url, padding), url) IN
                          ~d.raised /\ d.data = input.text
    BY DEF DecodesBase64
  <2>2. Bytes = 0 .. 255
    BY DEF Bytes, BytesIn
  <2>3. Len(input.text) \in Nat /\ IsBytes(input.text, Len(input.text))
    BY <1>1, <2>1, <2>2 DEF IsInput, IsString, IsBytes
  <2>4. QED
    BY <2>3, Base64IsDecoded
<1>2. QED
  BY <1>1, InputStays, PTL
=============================================================================
