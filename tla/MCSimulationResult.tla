-------------------------- MODULE MCSimulationResult ------------------------
(* Two requests; up to three of four entries in a footprint.  The texts Aa *)
(* and BB collide, and Aaa and aaA do with a hash of 11 bits, which wraps  *)
(* at the second character.  Lifetimes end 99 and 100 ledgers away.  Six   *)
(* names occur in one Wasm, which exports one function of a token; five in *)
(* the other one.                                                          *)
EXTENDS SimulationResult, TLC

CONSTANTS r1, r2, address, tokenHash, otherHash

MCRequests == {r1, r2}

Entry(t, id, live, text) == [type |-> t, id |-> id, live |-> live, text |-> text]

Data == Entry("ContractData", address, 1099, <<65, 97>>)
Token == Entry("ContractCode", tokenHash, 1100, <<66, 66>>)
Other == Entry("ContractCode", otherHash, 1500, <<65, 97, 97>>)
Wallet == Entry("Account", None, 0, <<97, 97, 65>>)

Lists(n) == {s \in BoundedSeq({Data, Token, Other, Wallet}, n) : IsInjective(s)}

MCFootprints == [readOnly : Lists(2), readWrite : Lists(1)]

MCCodes == {tokenHash, otherHash}

MCNamesIn ==
  [word \in {"transfer", "name", "symbol", "no symbol"} |->
     IF word = "no symbol" THEN {"symbol"} ELSE {word}]
  @@ "transfer_from" :> {"transfer", "transfer_from"}
  @@ "burn_from" :> {"burn", "burn_from"}
  @@ "balance_of" :> {"balance"}
  @@ "set_name" :> {"name"}
  @@ "init" :> {}

MCWasms ==
  tokenHash :> [exports |-> {"init", "transfer_from", "set_name"},
                strings |-> {"burn_from", "balance_of"}]
  @@ otherHash :> [exports |-> {"transfer", "balance_of", "name"},
                   strings |-> {"burn_from", "set_name"}]

MCCosts == [cpu : {0, 1, 10000, 10001}, mem : {0, 7951, 7952},
            p50 : {NoFee, 0, 12345}]

RequestSymmetry == Permutations(MCRequests)
=============================================================================
