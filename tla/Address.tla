-------------------------------- MODULE Address --------------------------------
(***************************************************************************)
(* The addresses of libzkbob-rs/src/address.rs.  An address is the two     *)
(* numbers d and p_d of a note's owner with a checksum, which is either    *)
(* generic or depends on the pool, and says so to nobody: a parser tries   *)
(* the one, then the other.  Between the wallet that makes an address and  *)
(* the wallet that pays to it, the text may get prefixes, be converted to  *)
(* the form of a pool, be taken apart and assembled again, or be mistyped. *)
(*                                                                         *)
(* Hashes are symbolic: keccak256 is injective, a checksum is the whole    *)
(* hash (four bytes of it in the code), and no two keys have a p_d in      *)
(* common.                                                                 *)
(***************************************************************************)
EXTENDS Integers, Sequences

CONSTANTS
  POOL_ID_BITS,   \* bits of a pool id in a checksum (24, of a u32)
  Pools,          \* pool ids
  Keys,           \* spending keys
  Diversifiers,   \* values of d
  Labels,         \* what can precede an address: zkbob_polygon, ...
  MaxParts,       \* bound: parts of a text
  None            \* Option::None

ASSUME PoolsAssumption == POOL_ID_BITS \in Nat /\ Pools \subseteq Nat /\ None \notin Nat
ASSUME PartsAssumption == MaxParts \in Nat

VARIABLES
  text,      \* the address on its way: its parts between colons
  issued,    \* history: key, diversifier and pool (None: generic) it was made with
  mistyped   \* history: it was changed by mistake

vars == <<text, issued, mistyped>>

-----------------------------------------------------------------------------
Empty == <<>>      \* the empty part of a text, before or behind a colon
OffCurve == <<>>   \* a number that is no p_d of the prime subgroup

\* derive_key_p_d: the p_d of a key and a diversifier.
derive_key_p_d(d, key) == [key |-> key, d |-> d]
subgroup_decompress(p_d) == p_d # OffCurve

keccak256(bytes) == [keccak256 |-> bytes]
BugHashesPd(d, p_d) == keccak256([p_d |-> p_d])
addr_hash(d, p_d) == keccak256([d |-> d, p_d |-> p_d])

\* The big-endian bytes of the pool id, the first left out.
BugNoPool(pool_id) == 0
pool_id_to_bytes_be(pool_id) == pool_id % 2^POOL_ID_BITS

pool_hash(pool_id, hash) ==
  keccak256([pool |-> pool_id_to_bytes_be(pool_id), hash |-> hash])

\* format_address
format_address(d, p_d, pool_id) ==
  [d |-> d, p_d |-> p_d,
   checksum |-> IF pool_id = None THEN addr_hash(d, p_d)
                ELSE pool_hash(pool_id, addr_hash(d, p_d))]

\* The last part of a text that is not empty.
last_component(t) ==
  t[CHOOSE k \in DOMAIN t : t[k] # Empty /\ \A j \in DOMAIN t : j > k => t[j] = Empty]

\* parse_address_ext of a decoded part: the result names the pool it was
\* parsed for (None: generic), or the error.
Parsed(a, pool_id) ==
  [error |-> FALSE, d |-> a.d, p_d |-> a.p_d, pool |-> pool_id]
ParseFails == [error |-> TRUE]

parse_component(a, pool_id) ==
  IF ~subgroup_decompress(a.p_d) THEN ParseFails
  ELSE IF a.checksum = addr_hash(a.d, a.p_d) THEN Parsed(a, None)
  ELSE IF a.checksum = pool_hash(pool_id, addr_hash(a.d, a.p_d)) THEN Parsed(a, pool_id)
  ELSE ParseFails

parse_address_ext(t, pool_id) == parse_component(last_component(t), pool_id)

Accepts(t, pool_id) == ~parse_address_ext(t, pool_id).error

\* validate_address and validate_universal_address of a wallet of the pool.
validate_address(t, pool_id) == Accepts(t, pool_id) /\ parse_address_ext(t, pool_id).pool # None
validate_universal_address(t, pool_id) ==
  Accepts(t, pool_id) /\ parse_address_ext(t, pool_id).pool = None

\* is_own_address of a wallet with the key.
is_own_address(t, pool_id, key) ==
  LET a == parse_address_ext(t, pool_id)
  IN  ~a.error /\ derive_key_p_d(a.d, key) = a.p_d

\* parseAddress of the wasm client: a wallet of one pool parses for another.
is_pool_valid(t, desired_pool_id, pool_id) ==
  LET a == parse_address_ext(t, desired_pool_id)
  IN  ~a.error /\ (a.pool = None \/ a.pool = pool_id)

-----------------------------------------------------------------------------
\* generate_address for the wallet's pool, generate_universal_address for
\* none; the same for a seed.
Init ==
  /\ issued \in [key : Keys, d : Diversifiers, pool : Pools \cup {None}]
  /\ text = <<format_address(issued.d, derive_key_p_d(issued.d, issued.key), issued.pool)>>
  /\ mistyped = FALSE

\* The user interface or a user puts a prefix or a colon before the address,
\* or a colon behind it.
Prefix(part) ==
  /\ Len(text) < MaxParts
  /\ text' = <<part>> \o text
  /\ UNCHANGED <<issued, mistyped>>

Colon ==
  /\ Len(text) < MaxParts
  /\ text' = Append(text, Empty)
  /\ UNCHANGED <<issued, mistyped>>

\* convert_address_to_chain_specific, by a wallet of a pool.
convert_address_to_chain_specific(pool_id) ==
  LET a == parse_address_ext(text, pool_id)
  IN  /\ ~a.error
      /\ text' = <<format_address(a.d, a.p_d, pool_id)>>
      /\ issued' = [issued EXCEPT !.pool = pool_id]
      /\ UNCHANGED mistyped

\* parseAddress, then assembleUniversalAddress from its numbers.
assemble_universal_address(pool_id) ==
  LET a == parse_address_ext(text, pool_id)
  IN  /\ ~a.error
      /\ text' = <<format_address(a.d, a.p_d, None)>>
      /\ issued' = [issued EXCEPT !.pool = None]
      /\ UNCHANGED mistyped

\* One of the numbers is changed by mistake: d, p_d to that of another key or
\* to no p_d at all.
Mistype ==
  LET a == last_component(text)
  IN  /\ ~mistyped /\ mistyped' = TRUE
      /\ \/ \E d \in Diversifiers \ {a.d} : text' = <<[a EXCEPT !.d = d]>>
         \/ \E key \in Keys \ {issued.key} :
              text' = <<[a EXCEPT !.p_d = derive_key_p_d(a.d, key)]>>
         \/ text' = <<[a EXCEPT !.p_d = OffCurve]>>
      /\ UNCHANGED issued

Next ==
  \/ \E part \in Labels \cup {Empty} : Prefix(part)
  \/ Colon
  \/ \E pool_id \in Pools : convert_address_to_chain_specific(pool_id)
  \/ \E pool_id \in Pools : assemble_universal_address(pool_id)
  \/ Mistype

Spec == Init /\ [][Next]_vars

-----------------------------------------------------------------------------
(***************************************************************************)
(* Properties.                                                             *)
(***************************************************************************)

\* What a wallet accepts is what was issued, and for nobody else: whatever
\* happened to the text, a note made for the address belongs to the key that
\* made it, and a mistyped address is refused (address.rs:66-146,
\* client/mod.rs:441-451).
ParsedIsIssued ==
  \A pool_id \in Pools :
    LET a == parse_address_ext(text, pool_id)
    IN  Accepts(text, pool_id) =>
          /\ ~mistyped
          /\ a.d = issued.d
          /\ \A key \in Keys : is_own_address(text, pool_id, key) <=> key = issued.key

\* An address is accepted in every pool, or in the pool it was made for: pools
\* whose ids differ in the bits the checksum leaves out are one pool to it,
\* no others.  What parseAddress calls valid the wallet accepts, also when it was
\* asked about another pool (address.rs:93-105, 170-173, wasm
\* client/mod.rs:135-165).
AcceptedWhereIssued ==
  ~mistyped =>
    \A pool_id \in Pools :
      /\ validate_universal_address(text, pool_id) <=> issued.pool = None
      /\ validate_address(text, pool_id) <=>
           issued.pool # None /\ pool_id % 2^POOL_ID_BITS = issued.pool % 2^POOL_ID_BITS
      /\ \A desired \in Pools : is_pool_valid(text, desired, pool_id) => Accepts(text, pool_id)

=============================================================================
