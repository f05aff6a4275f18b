------------------------ MODULE AddressPatternProofs ------------------------
(***************************************************************************)
(* What an address pattern matches, for addresses of any number of bytes.  *)
(***************************************************************************)
EXTENDS AddressPattern, TLAPS

\* The bits of the mask in its byte n, if it has m in all.
BitsInByte(m, n) ==
  IF n < m \div 8 THEN 8 ELSE IF n = m \div 8 THEN m % 8 ELSE 0

BitOfByte(x, j) == (x \div 2 ^ (7 - j)) % 2

\* A byte under a mask of its first s bits is y, if and only if y agrees
\* with it in these bits and has no other.
Agrees(x, y, s) ==
  /\ \A j \in 0 .. s - 1 : BitOfByte(x, j) = BitOfByte(y, j)
  /\ \A j \in s .. 7 : BitOfByte(y, j) = 0

\* A byte is the sum of its bits; the remainder by a power of two is that of
\* the last ones.
LEMMA BitsOfByte ==
  ASSUME NEW x \in Byte
  PROVE  /\ \A j \in 0 .. 7 : BitOfByte(x, j) \in 0 .. 1
         /\ x = 128 * BitOfByte(x, 0) + 64 * BitOfByte(x, 1) + 32 * BitOfByte(x, 2)
                  + 16 * BitOfByte(x, 3) + 8 * BitOfByte(x, 4) + 4 * BitOfByte(x, 5)
                  + 2 * BitOfByte(x, 6) + BitOfByte(x, 7)
<1>0. /\ x \in 0 .. 255
      /\ 2 ^ 0 = 1 /\ 2 ^ 1 = 2 /\ 2 ^ 2 = 4 /\ 2 ^ 3 = 8 /\ 2 ^ 4 = 16
      /\ 2 ^ 5 = 32 /\ 2 ^ 6 = 64 /\ 2 ^ 7 = 128
  BY DEF Byte
<1>1. /\ BitOfByte(x, 0) = (x \div 128) % 2
      /\ BitOfByte(x, 1) = (x \div 64) % 2
      /\ BitOfByte(x, 2) = (x \div 32) % 2
      /\ BitOfByte(x, 3) = (x \div 16) % 2
      /\ BitOfByte(x, 4) = (x \div 8) % 2
      /\ BitOfByte(x, 5) = (x \div 4) % 2
      /\ BitOfByte(x, 6) = (x \div 2) % 2
      /\ BitOfByte(x, 7) = x % 2
  BY <1>0 DEF BitOfByte
<1>2. \A j \in 0 .. 7 : j = 0 \/ j = 1 \/ j = 2 \/ j = 3 \/ j = 4 \/ j = 5 \/ j = 6 \/ j = 7
  OBVIOUS
<1>3. \A z \in Int : z % 2 \in 0 .. 1
  OBVIOUS
<1>4. /\ x \in Int /\ x \div 128 \in Int /\ x \div 64 \in Int /\ x \div 32 \in Int /\ x \div 16 \in Int
      /\ x \div 8 \in Int /\ x \div 4 \in Int /\ x \div 2 \in Int
  BY <1>0
<1>5. \A j \in 0 .. 7 : BitOfByte(x, j) \in 0 .. 1
  BY <1>1, <1>2, <1>3, <1>4
<1>6. \A z \in Int : z = 2 * (z \div 2) + (z % 2)
  OBVIOUS
<1>7. /\ (x \div 64) \div 2 = x \div 128 /\ (x \div 32) \div 2 = x \div 64
      /\ (x \div 16) \div 2 = x \div 32 /\ (x \div 8) \div 2 = x \div 16
      /\ (x \div 4) \div 2 = x \div 8 /\ (x \div 2) \div 2 = x \div 4
  BY <1>0
<1>8. x \div 128 = (x \div 128) % 2
  BY <1>0
<1>9. /\ x = 2 * (x \div 2) + (x % 2)
      /\ x \div 2 = 2 * (x \div 4) + ((x \div 2) % 2)
      /\ x \div 4 = 2 * (x \div 8) + ((x \div 4) % 2)
      /\ x \div 8 = 2 * (x \div 16) + ((x \div 8) % 2)
      /\ x \div 16 = 2 * (x \div 32) + ((x \div 16) % 2)
      /\ x \div 32 = 2 * (x \div 64) + ((x \div 32) % 2)
      /\ x \div 64 = 2 * (x \div 128) + ((x \div 64) % 2)
  BY <1>4, <1>6, <1>7
<1>10. x = 128 * BitOfByte(x, 0) + 64 * BitOfByte(x, 1) + 32 * BitOfByte(x, 2)
             + 16 * BitOfByte(x, 3) + 8 * BitOfByte(x, 4) + 4 * BitOfByte(x, 5)
             + 2 * BitOfByte(x, 6) + BitOfByte(x, 7)
  <2>1. ASSUME NEW b0 \in Int, NEW b1 \in Int, NEW b2 \in Int, NEW b3 \in Int,
               NEW b4 \in Int, NEW b5 \in Int, NEW b6 \in Int, NEW b7 \in Int,
               NEW x1 \in Int, NEW x2 \in Int, NEW x3 \in Int, NEW x4 \in Int,
               NEW x5 \in Int, NEW x6 \in Int,
               x = 2 * x1 + b7, x1 = 2 * x2 + b6, x2 = 2 * x3 + b5, x3 = 2 * x4 + b4,
               x4 = 2 * x5 + b3, x5 = 2 * x6 + b2, x6 = 2 * b0 + b1
        PROVE  x = 128 * b0 + 64 * b1 + 32 * b2 + 16 * b3 + 8 * b4 + 4 * b5 + 2 * b6 + b7
    BY <2>1
  <2>2. \A z \in Int : z % 2 \in Int
    OBVIOUS
  <2>3. /\ (x \div 128) % 2 \in Int /\ (x \div 64) % 2 \in Int /\ (x \div 32) % 2 \in Int
        /\ (x \div 16) % 2 \in Int /\ (x \div 8) % 2 \in Int /\ (x \div 4) % 2 \in Int
        /\ (x \div 2) % 2 \in Int /\ x % 2 \in Int
    BY <1>4, <2>2
  <2>4. x \div 64 = 2 * ((x \div 128) % 2) + ((x \div 64) % 2)
    BY <1>8, <1>9
  <2> QED  BY <1>1, <1>4, <1>9, <2>1, <2>3, <2>4
<1> QED  BY <1>5, <1>10

LEMMA ByteMasked ==
  ASSUME NEW x \in Byte, NEW y \in Byte, NEW s \in 0 .. 8
  PROVE  x - (x % 2 ^ (8 - s)) = y <=> Agrees(x, y, s)
<1>1. /\ x \in 0 .. 255 /\ y \in 0 .. 255
      /\ 2 ^ 0 = 1 /\ 2 ^ 1 = 2 /\ 2 ^ 2 = 4 /\ 2 ^ 3 = 8 /\ 2 ^ 4 = 16
      /\ 2 ^ 5 = 32 /\ 2 ^ 6 = 64 /\ 2 ^ 7 = 128 /\ 2 ^ 8 = 256
  BY DEF Byte
<1> DEFINE b(j) == BitOfByte(x, j)
           c(j) == BitOfByte(y, j)
<1>2. /\ \A j \in 0 .. 7 : b(j) \in 0 .. 1 /\ c(j) \in 0 .. 1
      /\ x = 128 * b(0) + 64 * b(1) + 32 * b(2) + 16 * b(3) + 8 * b(4) + 4 * b(5) + 2 * b(6) + b(7)
      /\ y = 128 * c(0) + 64 * c(1) + 32 * c(2) + 16 * c(3) + 8 * c(4) + 4 * c(5) + 2 * c(6) + c(7)
  BY BitsOfByte
<1>3. /\ b(0) \in 0 .. 1 /\ b(1) \in 0 .. 1 /\ b(2) \in 0 .. 1 /\ b(3) \in 0 .. 1
      /\ b(4) \in 0 .. 1 /\ b(5) \in 0 .. 1 /\ b(6) \in 0 .. 1 /\ b(7) \in 0 .. 1
      /\ c(0) \in 0 .. 1 /\ c(1) \in 0 .. 1 /\ c(2) \in 0 .. 1 /\ c(3) \in 0 .. 1
      /\ c(4) \in 0 .. 1 /\ c(5) \in 0 .. 1 /\ c(6) \in 0 .. 1 /\ c(7) \in 0 .. 1
  BY <1>2
<1>4. Agrees(x, y, s) <=> /\ \A j \in 0 .. s - 1 : b(j) = c(j)
                          /\ \A j \in s .. 7 : c(j) = 0
  BY DEF Agrees
<1> HIDE DEF b, c
<1>5. \A h, l \in Int : x = h + l => x - l = h
  OBVIOUS
<1>6. CASE s = 0
  <2>1. Agrees(x, y, s) <=>
          c(0) = 0 /\ c(1) = 0 /\ c(2) = 0 /\ c(3) = 0 /\ c(4) = 0 /\ c(5) = 0 /\ c(6) = 0 /\ c(7) = 0
    BY <1>4, <1>6
  <2>2. x % 256 = 128 * b(0) + 64 * b(1) + 32 * b(2) + 16 * b(3) + 8 * b(4) + 4 * b(5) + 2 * b(6) + b(7)
    BY <1>2, <1>3
  <2>3. x = (0) + (128 * b(0) + 64 * b(1) + 32 * b(2) + 16 * b(3) + 8 * b(4) + 4 * b(5) + 2 * b(6) + b(7))
    BY <1>2, <1>3
  <2>4. x - (x % 256) = 0
    <3> 0 \in Int /\ 128 * b(0) + 64 * b(1) + 32 * b(2) + 16 * b(3) + 8 * b(4) + 4 * b(5) + 2 * b(6) + b(7) \in Int
      BY <1>3
    <3> QED  BY <1>5, <2>2, <2>3
  <2>5. 0 = y <=> c(0) = 0 /\ c(1) = 0 /\ c(2) = 0 /\ c(3) = 0 /\ c(4) = 0 /\ c(5) = 0 /\ c(6) = 0 /\ c(7) = 0
    BY <1>2, <1>3
  <2>6. 2 ^ (8 - s) = 256
    BY <1>1, <1>6
  <2> QED  BY <2>1, <2>4, <2>5, <2>6
<1>7. CASE s = 1
  <2>1. Agrees(x, y, s) <=>
          b(0) = c(0) /\ c(1) = 0 /\ c(2) = 0 /\ c(3) = 0 /\ c(4) = 0 /\ c(5) = 0 /\ c(6) = 0 /\ c(7) = 0
    BY <1>4, <1>7
  <2>2. x % 128 = 64 * b(1) + 32 * b(2) + 16 * b(3) + 8 * b(4) + 4 * b(5) + 2 * b(6) + b(7)
    BY <1>2, <1>3
  <2>3. x = (128 * b(0)) + (64 * b(1) + 32 * b(2) + 16 * b(3) + 8 * b(4) + 4 * b(5) + 2 * b(6) + b(7))
    BY <1>2, <1>3
  <2>4. x - (x % 128) = 128 * b(0)
    <3> 128 * b(0) \in Int /\ 64 * b(1) + 32 * b(2) + 16 * b(3) + 8 * b(4) + 4 * b(5) + 2 * b(6) + b(7) \in Int
      BY <1>3
    <3> QED  BY <1>5, <2>2, <2>3
  <2>5. 128 * b(0) = y <=> b(0) = c(0) /\ c(1) = 0 /\ c(2) = 0 /\ c(3) = 0 /\ c(4) = 0 /\ c(5) = 0 /\ c(6) = 0 /\ c(7) = 0
    BY <1>2, <1>3
  <2>6. 2 ^ (8 - s) = 128
    BY <1>1, <1>7
  <2> QED  BY <2>1, <2>4, <2>5, <2>6
<1>8. CASE s = 2
  <2>1. Agrees(x, y, s) <=>
          b(0) = c(0) /\ b(1) = c(1) /\ c(2) = 0 /\ c(3) = 0 /\ c(4) = 0 /\ c(5) = 0 /\ c(6) = 0 /\ c(7) = 0
    BY <1>4, <1>8
  <2>2. x % 64 = 32 * b(2) + 16 * b(3) + 8 * b(4) + 4 * b(5) + 2 * b(6) + b(7)
    BY <1>2, <1>3
  <2>3. x = (128 * b(0) + 64 * b(1)) + (32 * b(2) + 16 * b(3) + 8 * b(4) + 4 * b(5) + 2 * b(6) + b(7))
    BY <1>2, <1>3
  <2>4. x - (x % 64) = 128 * b(0) + 64 * b(1)
    <3> 128 * b(0) + 64 * b(1) \in Int /\ 32 * b(2) + 16 * b(3) + 8 * b(4) + 4 * b(5) + 2 * b(6) + b(7) \in Int
      BY <1>3
    <3> QED  BY <1>5, <2>2, <2>3
  <2>5. 128 * b(0) + 64 * b(1) = y <=> b(0) = c(0) /\ b(1) = c(1) /\ c(2) = 0 /\ c(3) = 0 /\ c(4) = 0 /\ c(5) = 0 /\ c(6) = 0 /\ c(7) = 0
    BY <1>2, <1>3
  <2>6. 2 ^ (8 - s) = 64
    BY <1>1, <1>8
  <2> QED  BY <2>1, <2>4, <2>5, <2>6
<1>9. CASE s = 3
  <2>1. Agrees(x, y, s) <=>
          b(0) = c(0) /\ b(1) = c(1) /\ b(2) = c(2) /\ c(3) = 0 /\ c(4) = 0 /\ c(5) = 0 /\ c(6) = 0 /\ c(7) = 0
    BY <1>4, <1>9
  <2>2. x % 32 = 16 * b(3) + 8 * b(4) + 4 * b(5) + 2 * b(6) + b(7)
    BY <1>2, <1>3
  <2>3. x = (128 * b(0) + 64 * b(1) + 32 * b(2)) + (16 * b(3) + 8 * b(4) + 4 * b(5) + 2 * b(6) + b(7))
    BY <1>2, <1>3
  <2>4. x - (x % 32) = 128 * b(0) + 64 * b(1) + 32 * b(2)
    <3> 128 * b(0) + 64 * b(1) + 32 * b(2) \in Int /\ 16 * b(3) + 8 * b(4) + 4 * b(5) + 2 * b(6) + b(7) \in Int
      BY <1>3
    <3> QED  BY <1>5, <2>2, <2>3
  <2>5. 128 * b(0) + 64 * b(1) + 32 * b(2) = y <=> b(0) = c(0) /\ b(1) = c(1) /\ b(2) = c(2) /\ c(3) = 0 /\ c(4) = 0 /\ c(5) = 0 /\ c(6) = 0 /\ c(7) = 0
    BY <1>2, <1>3
  <2>6. 2 ^ (8 - s) = 32
    BY <1>1, <1>9
  <2> QED  BY <2>1, <2>4, <2>5, <2>6
<1>10. CASE s = 4
  <2>1. Agrees(x, y, s) <=>
          b(0) = c(0) /\ b(1) = c(1) /\ b(2) = c(2) /\ b(3) = c(3) /\ c(4) = 0 /\ c(5) = 0 /\ c(6) = 0 /\ c(7) = 0
    BY <1>4, <1>10
  <2>2. x % 16 = 8 * b(4) + 4 * b(5) + 2 * b(6) + b(7)
    BY <1>2, <1>3
  <2>3. x = (128 * b(0) + 64 * b(1) + 32 * b(2) + 16 * b(3)) + (8 * b(4) + 4 * b(5) + 2 * b(6) + b(7))
    BY <1>2, <1>3
  <2>4. x - (x % 16) = 128 * b(0) + 64 * b(1) + 32 * b(2) + 16 * b(3)
    <3> 128 * b(0) + 64 * b(1) + 32 * b(2) + 16 * b(3) \in Int /\ 8 * b(4) + 4 * b(5) + 2 * b(6) + b(7) \in Int
      BY <1>3
    <3> QED  BY <1>5, <2>2, <2>3
  <2>5. 128 * b(0) + 64 * b(1) + 32 * b(2) + 16 * b(3) = y <=> b(0) = c(0) /\ b(1) = c(1) /\ b(2) = c(2) /\ b(3) = c(3) /\ c(4) = 0 /\ c(5) = 0 /\ c(6) = 0 /\ c(7) = 0
    BY <1>2, <1>3
  <2>6. 2 ^ (8 - s) = 16
    BY <1>1, <1>10
  <2> QED  BY <2>1, <2>4, <2>5, <2>6
<1>11. CASE s = 5
  <2>1. Agrees(x, y, s) <=>
          b(0) = c(0) /\ b(1) = c(1) /\ b(2) = c(2) /\ b(3) = c(3) /\ b(4) = c(4) /\ c(5) = 0 /\ c(6) = 0 /\ c(7) = 0
    BY <1>4, <1>11
  <2>2. x % 8 = 4 * b(5) + 2 * b(6) + b(7)
    BY <1>2, <1>3
  <2>3. x = (128 * b(0) + 64 * b(1) + 32 * b(2) + 16 * b(3) + 8 * b(4)) + (4 * b(5) + 2 * b(6) + b(7))
    BY <1>2, <1>3
  <2>4. x - (x % 8) = 128 * b(0) + 64 * b(1) + 32 * b(2) + 16 * b(3) + 8 * b(4)
    <3> 128 * b(0) + 64 * b(1) + 32 * b(2) + 16 * b(3) + 8 * b(4) \in Int /\ 4 * b(5) + 2 * b(6) + b(7) \in Int
      BY <1>3
    <3> QED  BY <1>5, <2>2, <2>3
  <2>5. 128 * b(0) + 64 * b(1) + 32 * b(2) + 16 * b(3) + 8 * b(4) = y <=> b(0) = c(0) /\ b(1) = c(1) /\ b(2) = c(2) /\ b(3) = c(3) /\ b(4) = c(4) /\ c(5) = 0 /\ c(6) = 0 /\ c(7) = 0
    BY <1>2, <1>3
  <2>6. 2 ^ (8 - s) = 8
    BY <1>1, <1>11
  <2> QED  BY <2>1, <2>4, <2>5, <2>6
<1>12. CASE s = 6
  <2>1. Agrees(x, y, s) <=>
          b(0) = c(0) /\ b(1) = c(1) /\ b(2) = c(2) /\ b(3) = c(3) /\ b(4) = c(4) /\ b(5) = c(5) /\ c(6) = 0 /\ c(7) = 0
    BY <1>4, <1>12
  <2>2. x % 4 = 2 * b(6) + b(7)
    BY <1>2, <1>3
  <2>3. x = (128 * b(0) + 64 * b(1) + 32 * b(2) + 16 * b(3) + 8 * b(4) + 4 * b(5)) + (2 * b(6) + b(7))
    BY <1>2, <1>3
  <2>4. x - (x % 4) = 128 * b(0) + 64 * b(1) + 32 * b(2) + 16 * b(3) + 8 * b(4) + 4 * b(5)
    <3> 128 * b(0) + 64 * b(1) + 32 * b(2) + 16 * b(3) + 8 * b(4) + 4 * b(5) \in Int /\ 2 * b(6) + b(7) \in Int
      BY <1>3
    <3> QED  BY <1>5, <2>2, <2>3
  <2>5. 128 * b(0) + 64 * b(1) + 32 * b(2) + 16 * b(3) + 8 * b(4) + 4 * b(5) = y <=> b(0) = c(0) /\ b(1) = c(1) /\ b(2) = c(2) /\ b(3) = c(3) /\ b(4) = c(4) /\ b(5) = c(5) /\ c(6) = 0 /\ c(7) = 0
    BY <1>2, <1>3
  <2>6. 2 ^ (8 - s) = 4
    BY <1>1, <1>12
  <2> QED  BY <2>1, <2>4, <2>5, <2>6
<1>13. CASE s = 7
  <2>1. Agrees(x, y, s) <=>
          b(0) = c(0) /\ b(1) = c(1) /\ b(2) = c(2) /\ b(3) = c(3) /\ b(4) = c(4) /\ b(5) = c(5) /\ b(6) = c(6) /\ c(7) = 0
    BY <1>4, <1>13
  <2>2. x % 2 = b(7)
    BY <1>2, <1>3
  <2>3. x = (128 * b(0) + 64 * b(1) + 32 * b(2) + 16 * b(3) + 8 * b(4) + 4 * b(5) + 2 * b(6)) + (b(7))
    BY <1>2, <1>3
  <2>4. x - (x % 2) = 128 * b(0) + 64 * b(1) + 32 * b(2) + 16 * b(3) + 8 * b(4) + 4 * b(5) + 2 * b(6)
    <3> 128 * b(0) + 64 * b(1) + 32 * b(2) + 16 * b(3) + 8 * b(4) + 4 * b(5) + 2 * b(6) \in Int /\ b(7) \in Int
      BY <1>3
    <3> QED  BY <1>5, <2>2, <2>3
  <2>5. 128 * b(0) + 64 * b(1) + 32 * b(2) + 16 * b(3) + 8 * b(4) + 4 * b(5) + 2 * b(6) = y <=> b(0) = c(0) /\ b(1) = c(1) /\ b(2) = c(2) /\ b(3) = c(3) /\ b(4) = c(4) /\ b(5) = c(5) /\ b(6) = c(6) /\ c(7) = 0
    BY <1>2, <1>3
  <2>6. 2 ^ (8 - s) = 2
    BY <1>1, <1>13
  <2> QED  BY <2>1, <2>4, <2>5, <2>6
<1>14. CASE s = 8
  <2>1. Agrees(x, y, s) <=>
          b(0) = c(0) /\ b(1) = c(1) /\ b(2) = c(2) /\ b(3) = c(3) /\ b(4) = c(4) /\ b(5) = c(5) /\ b(6) = c(6) /\ b(7) = c(7)
    BY <1>4, <1>14
  <2>2. x % 1 = 0
    BY <1>2, <1>3
  <2>3. x = (128 * b(0) + 64 * b(1) + 32 * b(2) + 16 * b(3) + 8 * b(4) + 4 * b(5) + 2 * b(6) + b(7)) + (0)
    BY <1>2, <1>3
  <2>4. x - (x % 1) = 128 * b(0) + 64 * b(1) + 32 * b(2) + 16 * b(3) + 8 * b(4) + 4 * b(5) + 2 * b(6) + b(7)
    <3> 128 * b(0) + 64 * b(1) + 32 * b(2) + 16 * b(3) + 8 * b(4) + 4 * b(5) + 2 * b(6) + b(7) \in Int /\ 0 \in Int
      BY <1>3
    <3> QED  BY <1>5, <2>2, <2>3
  <2>5. 128 * b(0) + 64 * b(1) + 32 * b(2) + 16 * b(3) + 8 * b(4) + 4 * b(5) + 2 * b(6) + b(7) = y <=> b(0) = c(0) /\ b(1) = c(1) /\ b(2) = c(2) /\ b(3) = c(3) /\ b(4) = c(4) /\ b(5) = c(5) /\ b(6) = c(6) /\ b(7) = c(7)
    <3>1. ASSUME 128 * b(0) + 64 * b(1) + 32 * b(2) + 16 * b(3) + 8 * b(4) + 4 * b(5) + 2 * b(6) + b(7) = y
          PROVE  b(0) = c(0) /\ b(1) = c(1) /\ b(2) = c(2) /\ b(3) = c(3) /\ b(4) = c(4) /\ b(5) = c(5) /\ b(6) = c(6) /\ b(7) = c(7)
      <4>1. 128 * b(0) + 64 * b(1) + 32 * b(2) + 16 * b(3) + 8 * b(4) + 4 * b(5) + 2 * b(6) + b(7)
              = 128 * c(0) + 64 * c(1) + 32 * c(2) + 16 * c(3) + 8 * c(4) + 4 * c(5) + 2 * c(6) + c(7)
        BY <1>2, <3>1
      <4>2. b(7) = c(7)
        BY <1>3, <4>1
      <4>3. 64 * b(0) + 32 * b(1) + 16 * b(2) + 8 * b(3) + 4 * b(4) + 2 * b(5) + b(6)
              = 64 * c(0) + 32 * c(1) + 16 * c(2) + 8 * c(3) + 4 * c(4) + 2 * c(5) + c(6)
        BY <1>3, <4>1, <4>2
      <4>4. b(6) = c(6)
        BY <1>3, <4>3
      <4>5. 32 * b(0) + 16 * b(1) + 8 * b(2) + 4 * b(3) + 2 * b(4) + b(5)
              = 32 * c(0) + 16 * c(1) + 8 * c(2) + 4 * c(3) + 2 * c(4) + c(5)
        BY <1>3, <4>3, <4>4
      <4>6. b(0) = c(0) /\ b(1) = c(1) /\ b(2) = c(2) /\ b(3) = c(3) /\ b(4) = c(4) /\ b(5) = c(5)
        BY <1>3, <4>5
      <4> QED  BY <4>2, <4>4, <4>6
    <3>2. ASSUME b(0) = c(0) /\ b(1) = c(1) /\ b(2) = c(2) /\ b(3) = c(3) /\ b(4) = c(4) /\ b(5) = c(5) /\ b(6) = c(6) /\ b(7) = c(7)
          PROVE  128 * b(0) + 64 * b(1) + 32 * b(2) + 16 * b(3) + 8 * b(4) + 4 * b(5) + 2 * b(6) + b(7) = y
      BY <1>2, <3>2
    <3> QED  BY <3>1, <3>2
  <2>6. 2 ^ (8 - s) = 1
    BY <1>1, <1>14
  <2> QED  BY <2>1, <2>4, <2>5, <2>6
<1> QED  BY <1>6, <1>7, <1>8, <1>9, <1>10, <1>11, <1>12, <1>13, <1>14

-----------------------------------------------------------------------------
\* The mask keeps the first BitsInByte bits of byte n.
LEMMA MaskByteKeeps ==
  ASSUME NEW m \in Nat, NEW n \in Nat
  PROVE  /\ BitsInByte(m, n) \in 0 .. 8
         /\ 256 - MaskByte(m, n) = 2 ^ (8 - BitsInByte(m, n))
<1>1. /\ 2 ^ 0 = 1 /\ 2 ^ 1 = 2 /\ 2 ^ 2 = 4 /\ 2 ^ 3 = 8 /\ 2 ^ 4 = 16
      /\ 2 ^ 5 = 32 /\ 2 ^ 6 = 64 /\ 2 ^ 7 = 128 /\ 2 ^ 8 = 256
  OBVIOUS
<1>2. m \div 8 \in Nat /\ m % 8 \in 0 .. 7
  OBVIOUS
<1>3. CASE n < m \div 8
  <2>1. MaskByte(m, n) = 255 /\ BitsInByte(m, n) = 8
    BY <1>3 DEF MaskByte, BitsInByte
  <2> QED  BY <1>1, <2>1
<1>4. CASE n = m \div 8
  <2>1. PICK r \in 0 .. 7 : r = m % 8
    BY <1>2
  <2>2. MaskByte(m, n) = (255 * 2 ^ (8 - r)) % 256 /\ BitsInByte(m, n) = r
    BY <1>2, <1>4, <2>1 DEF MaskByte, BitsInByte
  <2>3. 256 - ((255 * 2 ^ (8 - r)) % 256) = 2 ^ (8 - r)
    <3>1. \A z \in {2, 4, 8, 16, 32, 64, 128, 256} : 256 - ((255 * z) % 256) = z
      OBVIOUS
    <3>2. 2 ^ (8 - r) \in {2, 4, 8, 16, 32, 64, 128, 256}
      <4>1. CASE r = 0  BY <1>1, <4>1
      <4>2. CASE r = 1  BY <1>1, <4>2
      <4>3. CASE r = 2  BY <1>1, <4>3
      <4>4. CASE r = 3  BY <1>1, <4>4
      <4>5. CASE r = 4  BY <1>1, <4>5
      <4>6. CASE r = 5  BY <1>1, <4>6
      <4>7. CASE r = 6  BY <1>1, <4>7
      <4>8. CASE r = 7  BY <1>1, <4>8
      <4> QED  BY <4>1, <4>2, <4>3, <4>4, <4>5, <4>6, <4>7, <4>8
    <3> QED  BY <3>1, <3>2
  <2> QED  BY <2>2, <2>3
<1>5. CASE ~(n < m \div 8) /\ n # m \div 8
  <2>1. MaskByte(m, n) = 0 /\ BitsInByte(m, n) = 0
    BY <1>5 DEF MaskByte, BitsInByte
  <2> QED  BY <1>1, <2>1
<1> QED  BY <1>3, <1>4, <1>5

\* A byte under its byte of the mask is y, if and only if y has its first
\* bits and no other.
LEMMA MaskedAgrees ==
  ASSUME NEW m \in Nat, NEW n \in Nat, NEW x \in Byte, NEW y \in Byte
  PROVE  Masked(x, MaskByte(m, n)) = y <=> Agrees(x, y, BitsInByte(m, n))
<1>1. PICK s \in 0 .. 8 : s = BitsInByte(m, n) /\ 256 - MaskByte(m, n) = 2 ^ (8 - s)
  BY MaskByteKeeps
<1>2. Masked(x, MaskByte(m, n)) = x - (x % 2 ^ (8 - s))
  BY <1>1 DEF Masked
<1>3. x - (x % 2 ^ (8 - s)) = y <=> Agrees(x, y, s)
  BY ByteMasked, Zenon
<1> QED  BY <1>1, <1>2, <1>3, Zenon

\* Bit 8n + j of an address is bit j of its byte n, and one of the m first
\* ones if it is one of the BitsInByte first ones of that byte.
LEMMA BitPlaces ==
  ASSUME NEW m \in Nat, NEW n \in Nat, NEW j \in 0 .. 7
  PROVE  /\ (8 * n + j) \div 8 = n
         /\ (8 * n + j) % 8 = j
         /\ 8 * n + j < m <=> j < BitsInByte(m, n)
<1>1. (8 * n + j) \div 8 = n
  OBVIOUS
<1>2. (8 * n + j) % 8 = j
  OBVIOUS
<1>3. PICK q \in Nat, r \in 0 .. 7 : q = m \div 8 /\ r = m % 8 /\ m = 8 * q + r
  OBVIOUS
<1>4. 8 * n + j < m <=> n < q \/ (n = q /\ j < r)
  BY <1>3
<1>5. BitsInByte(m, n) = IF n < q THEN 8 ELSE IF n = q THEN r ELSE 0
  BY <1>3 DEF BitsInByte
<1> QED  BY <1>1, <1>2, <1>4, <1>5

\* Every bit of an address is one of a byte of it.
LEMMA BitSplits ==
  ASSUME NEW k \in 0 .. 8 * Bytes - 1
  PROVE  \E n \in Position, j \in 0 .. 7 : k = 8 * n + j
<1>1. PICK n \in Nat, j \in 0 .. 7 : k = 8 * n + j
  <2>1. k \div 8 \in Nat /\ k % 8 \in 0 .. 7 /\ k = 8 * (k \div 8) + (k % 8)
    BY BytesAssumption
  <2> QED  BY <2>1
<1>2. n \in Position
  BY <1>1, BytesAssumption DEF Position
<1> QED  BY <1>1, <1>2

LEMMA BitOfPlace ==
  ASSUME NEW a \in Address, NEW n \in Position, NEW j \in 0 .. 7
  PROVE  Bit(a, 8 * n + j) = BitOfByte(a[n], j)
<1>1. (8 * n + j) \div 8 = n /\ (8 * n + j) % 8 = j
  BY BytesAssumption DEF Position
<1> QED  BY <1>1 DEF Bit, BitOfByte

LEMMA MaskBitsType ==
  ASSUME NEW arg \in Argument, BitsOK(arg)
  PROVE  MaskBits(arg) \in 0 .. 8 * Bytes
<1>1. CASE arg.bits = NoBits
  BY <1>1, BytesAssumption DEF MaskBits
<1>2. CASE arg.bits # NoBits /\ arg.version = 4
  <2>1. arg.bits \in 0 .. 8 * V4Bytes
    BY <1>2 DEF BitsOK
  <2> QED  BY <1>2, <2>1, BytesAssumption DEF MaskBits
<1>3. CASE arg.bits # NoBits /\ arg.version # 4
  <2>1. arg.bits \in 0 .. 8 * Bytes
    BY <1>3 DEF BitsOK
  <2> QED  BY <1>3, <2>1, BytesAssumption DEF MaskBits
<1> QED  BY <1>1, <1>2, <1>3

\* The pattern of an argument (AddressPattern::assign(), matches()), for
\* addresses of any number of bytes and every number of bits that is
\* accepted: it matches the addresses that agree with the argument in the
\* bits it asks for, and it matches one at all only if the argument has none
\* of the others.
THEOREM MasksCorrect ==
  ASSUME NEW arg \in Argument, BitsOK(arg), NEW a \in Address
  PROVE  Matches(Pattern(arg), a) <=> InNetwork(a, arg) /\ Canonical(arg)
<1> DEFINE m == MaskBits(arg)
           net == arg.address
           p == Pattern(arg)
<1>1. m \in 0 .. 8 * Bytes /\ m \in Nat /\ net \in Address
  BY MaskBitsType, BytesAssumption DEF Argument
<1>2. /\ Position \subseteq Nat
      /\ \A n \in Position, j \in 0 .. 7 : 8 * n + j \in 0 .. 8 * Bytes - 1
  BY BytesAssumption DEF Position
<1>3. \A n \in Position : a[n] \in Byte /\ net[n] \in Byte
  BY <1>1 DEF Address
<1>4. \A n \in Position : p.network[n] = net[n] /\ p.mask[n] = MaskByte(m, n)
  BY DEF Pattern
<1> HIDE DEF m, net, p
<1>5. \A n \in Position : Masked(a[n], p.mask[n]) = p.network[n] <=> Agrees(a[n], net[n], BitsInByte(m, n))
  BY <1>1, <1>2, <1>3, <1>4, MaskedAgrees
<1>6. Matches(p, a) <=> \A n \in Position : Agrees(a[n], net[n], BitsInByte(m, n))
  BY <1>5 DEF Matches
<1>7. \A n \in Position : BitsInByte(m, n) \in 0 .. 8
  BY <1>1, <1>2, MaskByteKeeps
<1>8. \A n \in Position, j \in 0 .. 7 :
        /\ Bit(a, 8 * n + j) = BitOfByte(a[n], j)
        /\ Bit(net, 8 * n + j) = BitOfByte(net[n], j)
        /\ 8 * n + j < m <=> j < BitsInByte(m, n)
  BY <1>1, <1>2, BitOfPlace, BitPlaces
<1>9. InNetwork(a, arg) <=> \A k \in 0 .. m - 1 : Bit(a, k) = Bit(net, k)
  BY DEF InNetwork, m, net
<1>10. Canonical(arg) <=> \A k \in m .. 8 * Bytes - 1 : Bit(net, k) = 0
  BY DEF Canonical, m, net
<1>11. ASSUME Matches(p, a)
       PROVE  InNetwork(a, arg) /\ Canonical(arg)
  <2>1. ASSUME NEW k \in 0 .. 8 * Bytes - 1
        PROVE  /\ k < m => Bit(a, k) = Bit(net, k)
               /\ ~(k < m) => Bit(net, k) = 0
    <3>1. PICK n \in Position, j \in 0 .. 7 : k = 8 * n + j
      BY BitSplits
    <3>2. Agrees(a[n], net[n], BitsInByte(m, n))
      BY <1>6, <1>11
    <3>3. /\ j < BitsInByte(m, n) => BitOfByte(a[n], j) = BitOfByte(net[n], j)
          /\ ~(j < BitsInByte(m, n)) => BitOfByte(net[n], j) = 0
      BY <1>7, <3>2 DEF Agrees
    <3> QED  BY <1>8, <3>1, <3>3
  <2>2. /\ \A k \in 0 .. m - 1 : k \in 0 .. 8 * Bytes - 1 /\ k < m
        /\ \A k \in m .. 8 * Bytes - 1 : k \in 0 .. 8 * Bytes - 1 /\ ~(k < m)
    BY <1>1, BytesAssumption
  <2> QED  BY <1>9, <1>10, <2>1, <2>2
<1>12. ASSUME InNetwork(a, arg), Canonical(arg)
       PROVE  Matches(p, a)
  <2>1. ASSUME NEW n \in Position
        PROVE  Agrees(a[n], net[n], BitsInByte(m, n))
    <3>1. ASSUME NEW j \in 0 .. BitsInByte(m, n) - 1
          PROVE  BitOfByte(a[n], j) = BitOfByte(net[n], j)
      <4>1. j \in 0 .. 7 /\ j < BitsInByte(m, n)
        BY <1>7
      <4>2. 8 * n + j \in 0 .. m - 1
        BY <1>1, <1>2, <1>8, <4>1
      <4> QED  BY <1>8, <1>9, <1>12, <4>1, <4>2
    <3>2. ASSUME NEW j \in BitsInByte(m, n) .. 7
          PROVE  BitOfByte(net[n], j) = 0
      <4>1. j \in 0 .. 7 /\ ~(j < BitsInByte(m, n))
        BY <1>7
      <4>2. 8 * n + j \in m .. 8 * Bytes - 1
        BY <1>1, <1>2, <1>8, <4>1
      <4> QED  BY <1>8, <1>10, <1>12, <4>1, <4>2
    <3> QED  BY <3>1, <3>2 DEF Agrees
  <2> QED  BY <1>6, <2>1
<1> QED  BY <1>11, <1>12 DEF p
=============================================================================
