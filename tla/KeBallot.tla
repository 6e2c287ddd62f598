------------------------------ MODULE KeBallot ------------------------------
(***************************************************************************)
(* Ballot arithmetic of src/kepaxos.c, as pure operators.                  *)
(*                                                                         *)
(* A ballot is a uint32_t.  The code treats the low 8 bits as the index of *)
(* the replica and the rest as a counter, and rebuilds a ballot with the   *)
(* sequence  mask, >> 1, ++, << 1, | my_index.  The operators below keep   *)
(* exactly that sequence, on BallotBits-wide unsigned integers: the code   *)
(* has BallotBits = 32, a model takes a smaller width because TLC's        *)
(* integers are 32-bit signed.  The index field keeps its 8 bits.          *)
(***************************************************************************)
EXTENDS Naturals, Bitwise

CONSTANT BallotBits     \* width of a ballot in bits (32 in the code)

IndexBits == 8

ASSUME BallotBits \in Nat /\ BallotBits > IndexBits

Wrap      == 2^BallotBits                 \* unsigned arithmetic is modulo Wrap
IndexMask == Wrap - 2^IndexBits           \* the constant 0xFFFFFF00
Ballots   == 0 .. (Wrap - 1)

ShiftR1(x) == x \div 2                    \* x >> 1
ShiftL1(x) == (2 * x) % Wrap              \* x << 1
Incr(x)    == (x + 1) % Wrap              \* x++

(* The index field of a ballot.                                            *)
LowBits(b)  == b % 2^IndexBits

(* kepaxos_run_command, lines 308-310: the ballot of a new PRE_ACCEPT.     *)
(* The code ORs the mask into the local ballot (it does not AND it), so    *)
(* the counter field of the result is all ones whatever the local ballot.  *)
MintBallot(local, idx) ==
    ShiftL1(Incr(ShiftR1(local | IndexMask))) | idx

(* kepaxos_received_command, lines 430-432: the value offered to the local *)
(* ballot when a message carrying ballot b is parsed.                      *)
UpdatedBallot(b, idx) ==
    ShiftL1(Incr(ShiftR1(b & IndexMask))) | idx

(* Fault: a plain store in place of the compare-and-set. *)
SetIfLess_store(cur, new) == new

(* ATOMIC_SET_IF(ke->ballot, <, new): store new when the current value is  *)
(* smaller, keep the current value otherwise.                              *)
SetIfLess(cur, new) == IF cur < new THEN new ELSE cur

=============================================================================
