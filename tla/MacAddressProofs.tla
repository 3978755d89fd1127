-------------------------- MODULE MacAddressProofs --------------------------
(***************************************************************************)
(* Proofs about MacAddress: names that differ in one character get different *)
(* addresses, whatever their length and their characters.                    *)
(***************************************************************************)
EXTENDS MacAddress, Integers, TLAPS

Byte == 0..255

-----------------------------------------------------------------------------
(* Bytes as bits: k in K is the weight of a bit. *)

K == {1, 2, 4, 8, 16, 32, 64, 128}

Weighted(p) == p[1] + 2 * p[2] + 4 * p[4] + 8 * p[8]
                 + 16 * p[16] + 32 * p[32] + 64 * p[64] + 128 * p[128]

Bits(a) == [k \in K |-> Bit(a, k)]
Differences(a, b) == [k \in K |-> IF Bit(a, k) # Bit(b, k) THEN 1 ELSE 0]

LEMMA BitsType == \A a \in Byte : Bits(a) \in [K -> {0, 1}]
  BY DEF Bits, Bit, Byte, K

LEMMA DifferencesType == \A a, b \in Byte : Differences(a, b) \in [K -> {0, 1}]
  BY DEF Differences

LEMMA ByteBits == \A a \in Byte : a = Weighted(Bits(a))
  BY DEF Weighted, Bits, Bit, Byte, K

\* The sum tells each of its bits.
LEMMA SameBits ==
    ASSUME NEW p \in [K -> {0, 1}], NEW q \in [K -> {0, 1}], Weighted(p) = Weighted(q)
    PROVE  p = q
  <1> DEFINE Eq(k) == p[k] = q[k]
  <1>1. \A k \in K : p[k] \in {0, 1} /\ q[k] \in {0, 1}
    OBVIOUS
  <1>2. Eq(1) /\ Eq(2) /\ Eq(4) /\ Eq(8) /\ Eq(16) /\ Eq(32) /\ Eq(64) /\ Eq(128)
    BY <1>1, SMTT(30) DEF Weighted, K
  <1> QED
    BY <1>2 DEF K

LEMMA XorBits ==
    ASSUME NEW a \in Byte, NEW b \in Byte
    PROVE  Xor(a, b) = Weighted(Differences(a, b)) /\ Xor(a, b) \in Byte
  <1>1. Xor(a, b) = Weighted(Differences(a, b))
    BY DEF Xor, Weighted, Differences, K
  <1>2. \A p \in [K -> {0, 1}] : Weighted(p) \in Byte
    BY SMTT(30) DEF Weighted, Byte, K
  <1> QED
    BY <1>1, <1>2, DifferencesType

\* "xor" keeps two bytes apart, on either side.
LEMMA XorInjective ==
    ASSUME NEW a \in Byte, NEW b \in Byte, NEW c \in Byte, NEW d \in Byte,
           Xor(a, c) = Xor(b, d), a = b \/ c = d
    PROVE  a = b /\ c = d
  <1>1. Differences(a, c) = Differences(b, d)
    <2>1. Weighted(Differences(a, c)) = Weighted(Differences(b, d))
      BY XorBits
    <2>2. Differences(a, c) \in [K -> {0, 1}] /\ Differences(b, d) \in [K -> {0, 1}]
      BY DifferencesType
    <2> QED
      BY <2>1, <2>2, SameBits
  <1>2. \A k \in K : /\ Differences(a, c)[k] = IF Bit(a, k) # Bit(c, k) THEN 1 ELSE 0
                     /\ Differences(b, d)[k] = IF Bit(b, k) # Bit(d, k) THEN 1 ELSE 0
    BY DEF Differences
  <1>3. \A k \in K : Bit(a, k) # Bit(c, k) <=> Bit(b, k) # Bit(d, k)
    BY <1>1, <1>2
  <1>4. \A k \in K : \A e \in Byte : Bit(e, k) \in {0, 1}
    BY BitsType DEF Bits
  <1>5. \A k \in K : Bit(a, k) = Bit(b, k) /\ Bit(c, k) = Bit(d, k)
    BY <1>3, <1>4
  <1>6. Bits(a) = Bits(b) /\ Bits(c) = Bits(d)
    BY <1>5 DEF Bits
  <1> QED
    BY <1>6, ByteBits

-----------------------------------------------------------------------------
(* One byte of the hash *)

LEMMA Limbs == ASSUME NEW h \in UInt32 PROVE h.hi \in UInt16 /\ h.lo \in UInt16
  BY DEF UInt32

\* What is done with the limbs keeps to the natural numbers.
LEMMA LimbParts ==
    ASSUME NEW n \in UInt16
    PROVE  n \in Nat /\ n % 256 \in Byte /\ n \div 256 \in Nat
  BY SMT DEF UInt16, Byte

LEMMA ByteOf == ASSUME NEW n \in Nat PROVE n % 256 \in Byte
  BY DEF Byte

LEMMA LimbOf == ASSUME NEW n \in Nat PROVE n % 65536 \in UInt16
  BY SMT DEF UInt16

\* Neither a limb's upper byte nor the upper limb matters to the lowest byte.
LEMMA LowestOf ==
    ASSUME NEW n \in Nat, NEW q \in Nat
    PROVE  (n % 65536) % 256 = n % 256 /\ (256 * q + n) % 256 = n % 256
  OBVIOUS

LEMMA AbsorbType ==
    ASSUME NEW h \in UInt32, NEW b \in Byte
    PROVE  Absorb(h, b) \in UInt32
  <1> DEFINE y == (h.lo \div 256) * 256 + Xor(h.lo % 256, b)
             k == [h EXCEPT !.lo = y]
             up == h.hi * 403 + (y * 403) \div 65536 + (y % 256) * 256
  <1>1. y \in Nat
    <2> DEFINE q == h.lo \div 256
               x == Xor(h.lo % 256, b)
    <2>1. q \in Nat /\ x \in Byte
      BY Limbs, LimbParts, XorBits
    <2> HIDE DEF q, x
    <2>2. q * 256 + x \in Nat
      BY <2>1, SMT DEF Byte
    <2> QED
      BY <2>2 DEF q, x
  <1>2. k = [hi |-> h.hi, lo |-> y]
    BY DEF UInt32
  <1> HIDE DEF y, k
  <1>3. h.hi \in Nat
    BY Limbs, LimbParts
  <1>4. up \in Nat /\ y * 403 \in Nat
    <2>1. y * 403 \in Nat
      BY <1>1
    <2>2. (y * 403) \div 65536 \in Nat
      BY <2>1
    <2>3. (y % 256) * 256 \in Nat
      BY <1>1
    <2> QED
      BY <1>3, <2>1, <2>2, <2>3
  <1>5. Absorb(h, b) = [hi |-> up % 65536, lo |-> (y * 403) % 65536]
    BY <1>2 DEF Absorb, TimesPrime, y, k
  <1> HIDE DEF up
  <1> QED
    BY <1>4, <1>5, LimbOf DEF UInt32

LEMMA LowestByte ==
    ASSUME NEW h \in UInt32, NEW b \in Byte
    PROVE  Absorb(h, b).lo % 256 = (Xor(h.lo % 256, b) * 403) % 256
  <1> DEFINE x == Xor(h.lo % 256, b)
             q == h.lo \div 256
             y == q * 256 + x
             k == [h EXCEPT !.lo = y]
  <1>1. x \in Byte
    BY Limbs, LimbParts, XorBits
  <1>2. q \in Nat
    BY Limbs, LimbParts
  <1>3. k.lo = y
    BY DEF UInt32
  <1>4. Absorb(h, b).lo = (y * 403) % 65536
    BY <1>3 DEF Absorb, TimesPrime
  <1> HIDE DEF x, q, k
  <1>5. y * 403 \in Nat /\ q * 403 \in Nat /\ x * 403 \in Nat
    BY <1>1, <1>2, SMT DEF Byte
  <1>6. y * 403 = 256 * (q * 403) + x * 403
    BY <1>1, <1>2, SMT DEF Byte
  <1>7. ((y * 403) % 65536) % 256 = (x * 403) % 256
    BY <1>5, <1>6, LowestOf
  <1> QED
    BY <1>4, <1>7 DEF x

\* 403 is odd, so it has an inverse, 155: multiplied by it, bytes stay apart.
LEMMA Inverse155 ==
    ASSUME NEW x \in Byte
    PROVE  (((x * 403) % 256) * 155) % 256 = x
  <1> DEFINE q == (x * 403) \div 256
             r == (x * 403) % 256
  <1>1. q \in Int /\ r \in Int /\ x * 403 = 256 * q + r
    BY SMT DEF Byte
  <1> HIDE DEF q, r
  <1>2. r * 155 = 256 * (244 * x - 155 * q) + x
    BY <1>1, SMT DEF Byte
  <1>3. \A t \in Int : (256 * t + x) % 256 = x
    BY SMT DEF Byte
  <1>4. 244 * x - 155 * q \in Int
    BY <1>1, SMT DEF Byte
  <1> QED
    BY <1>2, <1>3, <1>4 DEF r

LEMMA OddInjective ==
    ASSUME NEW x \in Byte, NEW y \in Byte, (x * 403) % 256 = (y * 403) % 256
    PROVE  x = y
  <1>1. (((x * 403) % 256) * 155) % 256 = x /\ (((y * 403) % 256) * 155) % 256 = y
    BY Inverse155
  <1> QED
    BY <1>1

LEMMA AbsorbApart ==
    ASSUME NEW h \in UInt32, NEW k \in UInt32, NEW a \in Byte, NEW b \in Byte,
           Absorb(h, a).lo % 256 = Absorb(k, b).lo % 256,
           h.lo % 256 = k.lo % 256 \/ a = b
    PROVE  h.lo % 256 = k.lo % 256 /\ a = b
  <1>1. h.lo % 256 \in Byte /\ k.lo % 256 \in Byte
    BY Limbs, LimbParts
  <1>2. Xor(h.lo % 256, a) = Xor(k.lo % 256, b)
    BY <1>1, LowestByte, OddInjective, XorBits
  <1> QED
    BY <1>1, <1>2, XorInjective

\* The last octet is the lowest byte.
LEMMA LastOctet ==
    ASSUME NEW h \in UInt32
    PROVE  getMacAddress(h)[6] = h.lo % 256
  <1>1. getMacAddress(h)[6] = ((h.hi % 256) * (65536 % 256) + h.lo) % 256
    BY DEF getMacAddress, Residue
  <1>2. 65536 % 256 = 0
    OBVIOUS
  <1>3. h.hi % 256 \in Byte /\ h.lo \in Nat
    BY Limbs, LimbParts
  <1>4. (h.hi % 256) * 0 + h.lo = h.lo
    <2> DEFINE u == h.hi % 256
               l == h.lo
    <2> HIDE DEF u, l
    <2>1. u \in Byte /\ l \in Nat => u * 0 + l = l
      BY SMT DEF Byte
    <2> QED
      BY <1>3, <2>1 DEF u, l
  <1> QED
    BY <1>1, <1>2, <1>4

-----------------------------------------------------------------------------
(* Two names side by side *)

MacInv == TypeOK /\ LowestByteInv

LEMMA MacInit == Init => MacInv
  <1>1. 33052 \in UInt16 /\ 40389 \in UInt16
    BY SMT DEF UInt16
  <1>2. Offset \in UInt32
    BY <1>1 DEF Offset, UInt32
  <1> QED
    BY <1>2 DEF Init, MacInv, TypeOK, LowestByteInv

LEMMA MacNext == MacInv /\ [Next]_vars => MacInv'
  <1> SUFFICES ASSUME MacInv, [Next]_vars PROVE MacInv'
    OBVIOUS
  <1>1. CASE Next
    <2>1. PICK a \in Bytes, b \in Bytes : Read(a, b)
      BY <1>1 DEF Next
    <2>2. a \in Byte /\ b \in Byte /\ first \in UInt32 /\ second \in UInt32
      BY BytesAssumption DEF MacInv, TypeOK, Byte
    <2>3. TypeOK'
      BY <2>1, <2>2, AbsorbType DEF MacInv, TypeOK, Read
    <2>4. apart' = 0 => first' = second'
      BY <2>1 DEF MacInv, TypeOK, LowestByteInv, Read
    <2>5. ASSUME apart' = 1 PROVE first'.lo % 256 # second'.lo % 256
      <3>1. CASE a = b
        <4>1. first.lo % 256 # second.lo % 256
          BY <2>1, <2>5, <3>1 DEF MacInv, LowestByteInv, Read
        <4> QED
          BY <2>1, <2>2, <3>1, <4>1, AbsorbApart DEF Read
      <3>2. CASE a # b
        <4>1. first = second
          BY <2>1, <2>5, <3>2 DEF MacInv, TypeOK, LowestByteInv, Read
        <4> QED
          BY <2>1, <2>2, <3>2, <4>1, AbsorbApart DEF Read
      <3> QED
        BY <3>1, <3>2
    <2> QED
      BY <2>3, <2>4, <2>5 DEF MacInv, LowestByteInv
  <1>2. CASE UNCHANGED vars
    BY <1>2 DEF vars, MacInv, TypeOK, LowestByteInv
  <1> QED
    BY <1>1, <1>2

\* Once two names have differed in a character and in no other, the lowest bytes of
\* their hashes never meet again, whatever characters follow; names that have not
\* differed have one hash.
THEOREM LowestBytesApart == Spec => []LowestByteInv
  <1>1. MacInv => LowestByteInv
    BY DEF MacInv
  <1> QED
    BY <1>1, MacInit, MacNext, PTL DEF Spec

\* Two names of one length that differ in one character never get one address.
THEOREM MacAddressesDiffer == Spec => []OneCharacterApart
  <1>1. MacInv => OneCharacterApart
    <2> SUFFICES ASSUME MacInv, apart = 1 PROVE getMacAddress(first) # getMacAddress(second)
      BY DEF OneCharacterApart
    <2>1. getMacAddress(first)[6] # getMacAddress(second)[6]
      BY LastOctet DEF MacInv, TypeOK, LowestByteInv
    <2> QED
      BY <2>1
  <1> QED
    BY <1>1, MacInit, MacNext, PTL DEF Spec
=============================================================================
