----------------------------- MODULE FeeEstimator ---------------------------
(***************************************************************************)
(* The arithmetic of src/services/feeEstimator.ts, in stroops: what a      *)
(* transaction costs, from the CPU instructions and the memory bytes of    *)
(* its simulation and the inclusion fee that getFeeStats reports.  The     *)
(* code computes with BigInt, so nothing overflows.                        *)
(***************************************************************************)
EXTENDS Integers, Sequences

CONSTANT NoFee  \* getFeeStats failed, or has no p50

STROOPS_PER_XLM == 10000000
INSTRUCTION_INCREMENT == 10000

\* fetchRecommendedInclusionFee
InclusionFee(p50) == IF p50 = NoFee THEN 100 ELSE IF p50 > 0 THEN p50 ELSE 100

estimateResourceFee(cpu, mem) ==
  LET cpuFee == ((cpu + INSTRUCTION_INCREMENT - 1) \div INSTRUCTION_INCREMENT) * 25
  IN  cpuFee + mem * 1000 + 300 * (100 + 100) + mem * 250

\* Mutant: the instructions are rounded down.
estimateResourceFeeFloor(cpu, mem) ==
  [cpuFee |-> (cpu \div INSTRUCTION_INCREMENT) * 25, memoryFee |-> mem * 1000,
   overheadFee |-> 300 * (100 + 100), readFee |-> mem * 250]

estimateResourceFeeDetailed(cpu, mem) ==
  [cpuFee |-> ((cpu + INSTRUCTION_INCREMENT - 1) \div INSTRUCTION_INCREMENT) * 25,
   memoryFee |-> mem * 1000, overheadFee |-> 300 * (100 + 100), readFee |-> mem * 250]

\* `${xlmWhole}.${xlmFrac.toString().padStart(7, "0")}`: the whole lumens and
\* the digits after the point
FeeInXlm(total) ==
  LET frac == total % STROOPS_PER_XLM
  IN  [whole |-> total \div STROOPS_PER_XLM,
       digits |-> [i \in 1..7 |-> (frac \div 10^(7 - i)) % 10]]

estimateFee(cpu, mem, p50) ==
  LET total == InclusionFee(p50) + estimateResourceFee(cpu, mem)
  IN  [base |-> InclusionFee(p50), resource |-> estimateResourceFee(cpu, mem),
       total |-> total, xlm |-> FeeInXlm(total)]

estimateFeeDetailed(cpu, mem, p50) ==
  LET parts == estimateResourceFeeDetailed(cpu, mem)
      resource == parts.cpuFee + parts.memoryFee + parts.readFee + parts.overheadFee
      total == InclusionFee(p50) + resource
  IN  [inclusion |-> InclusionFee(p50), resource |-> resource, total |-> total,
       xlm |-> FeeInXlm(total), breakdown |-> parts]
=============================================================================
