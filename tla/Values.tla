-------------------------------- MODULE Values --------------------------------
(***************************************************************************)
(* Declarations that values of fields are held against: the items of an    *)
(* enumeration (EnumItems), the bit indices of a bitfield                  *)
(* (parser_bitfield.c) and the limits of a field (parser_field.c); and the *)
(* validators printed for them in C (lang-c-source.c: gen_valids) and      *)
(* Node.js (lang-nodejs.c: gen_ortns_express_valid), two programs that are *)
(* given the same requests.  One declaration is read.                      *)
(*                                                                         *)
(* A request is an integer, the length of a text where the field is one.   *)
(* Dates, e-mail addresses and reals that the library functions take are   *)
(* not told apart; texts are of one byte a character.                      *)
(***************************************************************************)
EXTENDS EnumItems

CONSTANTS
  Width,      \* 64, the bits of an integer
  MaxLimits   \* bound: limits of a field

\* 2 to the power of e.
Pow2(e) == LET p[i \in 0..e] == IF i = 0 THEN 1 ELSE 2 * p[i - 1] IN p[e]

ASSUME ValuesAssumption ==
  /\ Width \in Nat \ {0} /\ MaxInt - MinInt + 1 = Pow2(Width) /\ MaxInt + MinInt = -1
  /\ MaxLimits \in Nat

MaxUint == MaxInt - MinInt

Length == {"text", "email"}
FieldType == {"bit", "bits", "int"} \cup Length

VARIABLES
  decl,     \* what is declared: "enum", "bits" or "field"
  ftype,    \* the type of the field
  bits,     \* the indices of the items of the bitfield
  limits,   \* fd->fvq
  closed,   \* the declaration was read
  bad       \* and has an error

declVars == <<decl, ftype, bits, limits, closed, bad>>

Limit == [op : {"ge", "le", "gt", "lt", "eq"}, value : Int64]

ValuesInit ==
  /\ Init
  /\ decl \in {"enum", "bits", "field"}
  /\ ftype \in IF decl = "field" THEN FieldType ELSE {decl}
  /\ bits = <<>> /\ limits = <<>>
  /\ closed = FALSE /\ bad = FALSE

Open(what) == decl = what /\ ~closed /\ ~bad

\* Mutant: one index too many.
BadIndexPast(v) == v < 0 \/ v > Width \/ v \in Range(bits)

\* What parse_bitidx_item() refuses.
BadIndex(v) == v < 0 \/ v >= Width \/ v \in Range(bits)

\* parse_bitidx(): an item is in the queue by the time its index is refused.
ReadBit(v) ==
  /\ Open("bits") /\ Len(bits) < MaxItems
  /\ bits' = Append(bits, v)
  /\ bad' = BadIndex(v)
  /\ UNCHANGED <<decl, ftype, limits, closed>>

\* parse_bitidx(): the closing brace, "no items in bitfield".
CloseBits ==
  /\ Open("bits")
  /\ closed' = TRUE
  /\ bad' = (bits = <<>>)
  /\ UNCHANGED <<decl, ftype, bits, limits>>

\* parse_validate(): a limit that is negative for a length, or was given
\* before, is refused; in the queue it is by then.
ReadLimit(l) ==
  /\ Open("field") /\ Len(limits) < MaxLimits
  /\ limits' = Append(limits, l)
  /\ bad' = (l \in Range(limits) \/ (ftype \in Length /\ l.value < 0))
  /\ UNCHANGED <<decl, ftype, bits, closed>>

CloseField ==
  /\ Open("field")
  /\ closed' = TRUE
  /\ UNCHANGED <<decl, ftype, bits, limits, bad>>

ValuesNext ==
  \/ decl = "enum" /\ Next /\ UNCHANGED declVars
  \/ /\ \/ \E v \in -1..Width : ReadBit(v)
        \/ CloseBits
        \/ \E l \in Limit : ReadLimit(l)
        \/ CloseField
     /\ UNCHANGED vars

ValuesSpec == ValuesInit /\ [][ValuesNext]_<<vars, declVars>>
------------------------------------------------------------------------------
(* The validators.  Each gives the set of what it stores for a request: one *)
(* value, or none where the request is refused.                             *)

Values == {items[i].value : i \in DOMAIN items}

\* Mutant: the negated form of "gt" is "lt".
FailsSwapped(op, x, v) ==
  \/ op = "ge" /\ x < v
  \/ op = "le" /\ x > v
  \/ op = "gt" /\ x < v
  \/ op = "lt" /\ x >= v
  \/ op = "eq" /\ x # v

\* validbins[]: the clause by which a limit fails.
Fails(op, x, v) ==
  \/ op = "ge" /\ x < v
  \/ op = "le" /\ x > v
  \/ op = "gt" /\ x <= v
  \/ op = "lt" /\ x >= v
  \/ op = "eq" /\ x # v

\* kcgi(3): what kvalid_bit(), kvalid_int() and the functions for texts take.
KValid(x) ==
  /\ ftype = "bit" => x \in 0..Width
  /\ ftype \in {"bits", "int", "enum"} => x \in Int64

\* gen_valids(), gen_valids_field(), or the library's function alone.
CStores(x) ==
  IF /\ KValid(x)
     /\ ftype = "enum" => x \in Values
     /\ \A i \in DOMAIN limits : ~Fails(limits[i].op, x, limits[i].value)
  THEN {x} ELSE {}

\* vtypes[]: the clause that a limit is.
Holds(op, x, v) ==
  \/ op = "ge" /\ x >= v
  \/ op = "le" /\ x <= v
  \/ op = "gt" /\ x > v
  \/ op = "lt" /\ x < v
  \/ op = "eq" /\ x = v

\* BigInt.asIntN(64, nv)
AsInt(x) == IF x > MaxInt THEN x - MaxUint - 1 ELSE x

\* What is taken before limits are looked at, and what is made of it: a
\* bitfield may be sent unsigned and is made signed.
NodeTakes(x) ==
  /\ ftype = "enum" => x \in Values
  /\ ftype = "bit" => x \in 0..Width
  /\ ftype = "bits" => x \in MinInt..MaxUint
  /\ ftype = "int" => x \in Int64
NodeMakes(x) == IF ftype = "bits" THEN AsInt(x) ELSE x

\* The limits of an e-mail address are left out; an enumeration has none.
NodeLimits(nv) ==
  ftype \notin {"enum", "email"} =>
    \A i \in DOMAIN limits : Holds(limits[i].op, nv, limits[i].value)

\* Mutant: limits are checked before the value is made a signed one.
NodeStoresLate(x) == IF NodeTakes(x) /\ NodeLimits(x) THEN {NodeMakes(x)} ELSE {}

\* gen_ortns_express_valid()
NodeStores(x) == IF NodeTakes(x) /\ NodeLimits(NodeMakes(x)) THEN {NodeMakes(x)} ELSE {}

\* Mutant: shifts by the number of the bit, counted from one.
MaskFromOne(v) == Pow2(v + 1)

\* BITF_xxx, as gen_bitf() and the C header's gen_bitfield() print it.
Mask(v) == Pow2(v)

\* "x & mask" of a value of either sign.
HasBit(x, mask) == ((x % Pow2(Width)) \div mask) % 2 = 1
------------------------------------------------------------------------------
(* Properties. *)

Accepted ==
  IF decl = "enum" THEN phase = "done" /\ err = "no" ELSE closed /\ ~bad

Requests == IF ftype \in Length THEN 0..MaxUint ELSE MinInt - 1..MaxUint + 1

\* Where the two validators are asked alike: not of e-mail addresses with
\* limits, which Node.js does not have, nor of bitfields sent as unsigned
\* integers, which C refuses.
Common(x) == ~(ftype = "email" /\ limits # <<>>) /\ ~(ftype = "bits" /\ x > MaxInt)

\* A request that the C program takes, the Node.js one stores as the same
\* value, and the reverse.
SameStored == Accepted => \A x \in Requests : Common(x) => CStores(x) = NodeStores(x)

\* Of a bitfield, however sent, Node.js stores what C takes and so stores too.
StoredStays ==
  Accepted /\ ftype = "bits" =>
    \A x \in Requests : \A y \in NodeStores(x) : CStores(y) = {y}

\* Every item of a bitfield finds its bit in what is stored as it was sent,
\* and no other.
BitsFound ==
  Accepted =>
    /\ \A x \in Requests : ftype = "bits" =>
         \A y \in NodeStores(x) : \A v \in Range(bits) :
           HasBit(y, Mask(v)) = ((x \div Pow2(v)) % 2 = 1)
    /\ \A v, w \in Range(bits) : v # w => ~HasBit(Mask(v), Mask(w))

\* The two programs agree on the values that reach the database.
ValidsAgree == SameStored /\ StoredStays /\ BitsFound

\* man/ort.5:342: "all of them must validate", of e-mail addresses too.
LimitsHold ==
  Accepted => \A x \in Requests : NodeStores(x) # {} =>
    \A i \in DOMAIN limits : Holds(limits[i].op, x, limits[i].value)

\* man/ort-nodejs.1:419: null for a bit "not in 0-63".
BitsBelowWidth == Accepted /\ ftype = "bit" => NodeStores(Width) = {}
==============================================================================
