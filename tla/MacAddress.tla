----------------------------- MODULE MacAddress -----------------------------
(***************************************************************************)
(* The MAC address that a machine's virtual network card gets from the name  *)
(* of its Machine: three octets are fixed, three are residues of the 32 bit  *)
(* FNV-1a hash of the name. Two names are hashed side by side, one byte of   *)
(* each after the other.                                                     *)
(***************************************************************************)
EXTENDS Naturals

CONSTANTS
    Bytes,      \* the characters that a name may have
    MaxLength   \* bound on the length of a name

ASSUME BytesAssumption == Bytes \subseteq 0..255
ASSUME LengthAssumption == MaxLength \in Nat

\* A uint32, as TLC's integers are smaller: hi * 2^16 + lo.
UInt16 == 0..65535
UInt32 == [hi : UInt16, lo : UInt16]

Bit(a, k) == (a \div k) % 2

\* Mutant: "or" in the place of "xor".
Or(a, b) ==
    LET bit(k) == IF Bit(a, k) + Bit(b, k) > 0 THEN k ELSE 0
    IN  bit(1) + bit(2) + bit(4) + bit(8) + bit(16) + bit(32) + bit(64) + bit(128)

Xor(a, b) ==
    LET bit(k) == IF Bit(a, k) # Bit(b, k) THEN k ELSE 0
    IN  bit(1) + bit(2) + bit(4) + bit(8) + bit(16) + bit(32) + bit(64) + bit(128)

\* FNV's offset basis, 0x811c9dc5.
Offset == [hi |-> 33052, lo |-> 40389]

\* Mutant: the carry from the lower half is dropped.
TimesPrimeShort(h) ==
    [hi |-> (h.hi * 403 + (h.lo % 256) * 256) % 65536,
     lo |-> (h.lo * 403) % 65536]

\* h times FNV's prime, 0x01000193 = 2^24 + 403, mod 2^32.
TimesPrime(h) ==
    [hi |-> (h.hi * 403 + (h.lo * 403) \div 65536 + (h.lo % 256) * 256) % 65536,
     lo |-> (h.lo * 403) % 65536]

\* One byte of hash: "xor" it to the lowest byte, multiply.
Absorb(h, b) == TimesPrime([h EXCEPT !.lo = (@ \div 256) * 256 + Xor(@ % 256, b)])

\* h % n, for an n below 2^8.
Residue(h, n) == ((h.hi % n) * (65536 % n) + h.lo) % n

getMacAddress(h) ==
    <<82, 84, 0, Residue(h, 211), Residue(h, 251), Residue(h, 256)>>

-----------------------------------------------------------------------------
VARIABLES
    first, second,   \* the hashes of what has been read of the two names
    length,          \* how much that is
    apart            \* in how many places they differ

vars == <<first, second, length, apart>>

TypeOK ==
    /\ first \in UInt32
    /\ second \in UInt32
    /\ length \in Nat
    /\ apart \in Nat

Init == first = Offset /\ second = Offset /\ length = 0 /\ apart = 0

Read(a, b) ==
    /\ length < MaxLength
    /\ first' = Absorb(first, a)
    /\ second' = Absorb(second, b)
    /\ length' = length + 1
    /\ apart' = IF a = b THEN apart ELSE apart + 1

Next == \E a, b \in Bytes : Read(a, b)

Spec == Init /\ [][Next]_vars

\* Names of one length that differ in one character, as "node-1" and "node-2" do,
\* never get the same MAC address. Nothing of the kind holds for other names: the
\* address has fewer bits than the hash.
OneCharacterApart == apart = 1 => getMacAddress(first) # getMacAddress(second)

\* Why: the last octet comes of the hash's lowest byte alone, and no step can
\* make two lowest bytes the same if the characters are.
LowestByteInv ==
    /\ apart = 0 => first = second
    /\ apart = 1 => first.lo % 256 # second.lo % 256
=============================================================================
