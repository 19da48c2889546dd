------------------------------ MODULE CountWord ------------------------------
(***************************************************************************)
(* The 32-bit word in which RefCount keeps its whole lock state            *)
(* (src/src/consts.rs and the last macros of src/src/macros.rs): bit 0     *)
(* says that references are blocked, the other 31 bits count the standard  *)
(* references.  Shifts and masks by constants are written as arithmetic.   *)
(* Additions wrap, as they do on the atomic and in a release build.        *)
(***************************************************************************)
EXTENDS Integers

CONSTANT RefLimit  \* how many values the counter has: 2^31 for an AtomicU32

ASSUME RefLimitAssumption == RefLimit \in Nat \ {0}

WordSize == 2 * RefLimit
Word     == 0 .. WordSize - 1

REF_ALLOWED == 0
REF_BLOCKED == 1
REF_INCR    == 2

(* A mask that keeps the blocked bit. *)
MaskKeepsBlock(w) == w

(* `w & REF_COUNT_MASK`: the word with the blocked bit cleared. *)
MaskCount(w) == w - (w % 2)

(* `w | REF_BLOCKED` *)
WithBlock(w) == w - (w % 2) + REF_BLOCKED

(* standard_ref_count! and block_state! *)
StandardRefCount(w) == w \div 2
BlockState(w)       == w % 2

(* The observers of RefCount, each of one word that it has loaded:         *)
(* ref_count(), no_refs(), no_standard_refs(), raw_state(), is_blocked(),  *)
(* is_allowed().                                                           *)
TotalRefCount(w)  == StandardRefCount(w) + BlockState(w)
NoRefs(w)         == TotalRefCount(w) = 0
NoStandardRefs(w) == StandardRefCount(w) = 0
RawState(w)       == BlockState(w)
IsBlocked(w)      == RawState(w) = 1
IsAllowed(w)      == RawState(w) = 0

(* State::from_raw, which masks what raw_state() has masked, and state(). *)
FromRaw(r) == CHOOSE s \in {"Allowed", "Blocked"} : s = "Blocked" <=> BlockState(r) = 1
State(w)   == FromRaw(RawState(w))

(* `w + REF_INCR`, and fetch_sub(REF_INCR), modulo the width of the word. *)
AddRef(w) == IF w + REF_INCR < WordSize THEN w + REF_INCR ELSE w + REF_INCR - WordSize
SubRef(w) == IF w < REF_INCR THEN w + WordSize - REF_INCR ELSE w - REF_INCR
=============================================================================
