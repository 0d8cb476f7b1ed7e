---------------------------- MODULE FootprintData ---------------------------
(***************************************************************************)
(* The pure functions a simulation's footprint goes through: the optimizer *)
(* with its hash (src/services/optimizer.ts), the parser                   *)
(* (src/services/footprintParser.ts) and the attribution of lifetimes      *)
(* (src/services/simulator.ts:102-163).                                    *)
(*                                                                         *)
(* An entry of a footprint is a record: its type, the id that              *)
(* extractContractId finds in it (None if it has none; a contract's        *)
(* address for ContractData, a hash for ContractCode), the ledger it lives *)
(* until (0 if it never expires), and its base64 text as character codes.  *)
(*                                                                         *)
(* A Wasm is the words its decoded text falls into: the names it exports,  *)
(* and the other strings in it (names it imports, data, sections of text). *)
(***************************************************************************)
EXTENDS Integers, Sequences, SequencesExt

CONSTANTS
  Modulus,  \* 2^32: JavaScript's bitwise operators keep 32 bits
  NamesIn,  \* for each word of a Wasm, the SEP-41 names that are parts of it
  None      \* no value

ASSUME DataAssumption == Modulus \in Nat /\ Modulus > 1

-----------------------------------------------------------------------------
(* optimizer.ts *)

\* hash & hash: the signed value of the lowest bits
Wrap(n) ==
  LET m == n % Modulus IN IF m >= Modulus \div 2 THEN m - Modulus ELSE m

Magnitude(n) == IF n < 0 THEN -n ELSE n

\* Mutant: the sign is folded at every character.
simpleHashFolding(text) == FoldLeft(LAMBDA h, c : Magnitude(Wrap(31 * h + c)), 0, text)

\* (hash << 5) - hash + char, wrapped at every character; the sign is folded in
\* the end.
simpleHash(text) == Magnitude(FoldLeft(LAMBDA h, c : Wrap(31 * h + c), 0, text))

Hashes(entries) == {simpleHash(e.text) : e \in ToSet(entries)}

\* The entries of a list that are in a set, in their order
Select(entries, S) ==
  FoldLeft(LAMBDA kept, e : IF e \in S THEN Append(kept, e) ELSE kept, <<>>, entries)

\* The read-only entries that are left
optimizeFootprint(readOnly, readWrite) ==
  Select(readOnly,
         {e \in ToSet(readOnly) : simpleHash(e.text) \notin Hashes(readWrite)})

-----------------------------------------------------------------------------
(* footprintParser.ts *)

\* The ids of the entries in the order of their first occurrence
extractContracts(entries) ==
  FoldLeft(LAMBDA ids, e : IF e.id = None \/ Contains(ids, e.id) THEN ids
                           ELSE Append(ids, e.id),
           <<>>, entries)

SEP41_FUNCTIONS ==
  {"transfer", "transfer_from", "burn", "burn_from", "balance", "allowance",
   "approve", "decimals", "name", "symbol", "total_supply", "mint"}

\* wasmText.includes(fn): the name is a word of the Wasm, or a part of one.
Includes(wasm, fn) == \E word \in wasm.exports \cup wasm.strings : fn \in NamesIn[word]

LooksLikeToken(wasm) ==
  Cardinality({fn \in SEP41_FUNCTIONS : Includes(wasm, fn)}) >= 6

-----------------------------------------------------------------------------
(* simulator.ts *)

\* fetchTtlInfo: the lifetime of the i-th entry returned is given to the i-th
\* key asked for; an entry without one is skipped.
TtlMap(keys, returned, latestLedger) ==
  LET timed == {i \in DOMAIN returned : returned[i].live # 0}
  IN  [k \in {keys[i] : i \in timed} |->
         LET i == CHOOSE i \in timed :
                    keys[i] = k /\ \A j \in timed : keys[j] = k => j <= i
         IN  returned[i].live - latestLedger]

\* Mutant: an entry expiring in exactly 100 ledgers is warned about.
buildTtlWarningsAtLimit(ttl) == {k \in DOMAIN ttl : ttl[k] <= 100}

\* The entries warned about
buildTtlWarnings(ttl) == {k \in DOMAIN ttl : ttl[k] < 100}
=============================================================================
