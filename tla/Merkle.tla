------------------------------- MODULE Merkle -------------------------------
(***************************************************************************)
(* The root 0G Storage gives a file, computed twice in the repository: by  *)
(* packages/zg-storage/src/index.ts, which verifies with it, and by        *)
(* contracts/src/math/ZgMerkle.sol.  A hash is the pair of what it hashes, *)
(* so two roots are equal exactly when the two trees are.                  *)
(* Each pairs the leaves by index and then turns the queue of nodes.  The  *)
(* package's passes are all stated by index here and the contract's all by *)
(* turns, so that the roots agree only if the two ways of a pass do.       *)
(***************************************************************************)
EXTENDS Integers, Sequences

CONSTANT SegmentChunks      \* chunks of a segment: SEGMENT_BYTES / CHUNK_BYTES

ASSUME MerkleAssumption == SegmentChunks \in Nat \ {0}

Hash(left, right) == <<left, right>>

CeilDiv(total, unit) == ((total - 1) \div unit) + 1

(* The least power of two that is not below n: doubled into in the         *)
(* contract, by the logarithm in TypeScript.                               *)
NextPow2(n) ==
    LET up[p \in 1..(2 * n)] == IF p >= n THEN p ELSE up[2 * p]
    IN up[1]

(* Above 16 chunks the count is rounded up to a multiple of a sixteenth of *)
(* the next power of two.                                                  *)
PaddedChunkCount(chunks) ==
    LET p2   == NextPow2(chunks)
        unit == IF p2 >= 16 THEN p2 \div 16 ELSE 1
    IN IF p2 = chunks THEN chunks ELSE CeilDiv(chunks, unit) * unit

(* A file is named by a number and has so many chunks of its own; the rest *)
(* of its leaves hash zeros.                                               *)
Leaf(file, i) == IF i <= file.chunks THEN <<100 * file.name + i>> ELSE <<0>>

Leaves(file) == [i \in 1..PaddedChunkCount(file.chunks) |-> Leaf(file, i)]

Segments(leaves) ==
    [s \in 1..CeilDiv(Len(leaves), SegmentChunks) |->
       SubSeq(leaves, (s - 1) * SegmentChunks + 1,
              IF s * SegmentChunks < Len(leaves) THEN s * SegmentChunks ELSE Len(leaves))]

-----------------------------------------------------------------------------
(* Mutant: the odd node is carried to the front.                           *)
PassCarriesFirst(queue) ==
    LET odd == Len(queue) % 2 IN
    [i \in 1..((Len(queue) + 1) \div 2) |->
       IF i = 1 /\ odd = 1 THEN queue[Len(queue)]
       ELSE Hash(queue[2*(i - odd) - 1], queue[2*(i - odd)])]

(* One pass of `fold`: neighbours are paired and an odd node is carried to *)
(* the back.                                                               *)
Pass(queue) ==
    [i \in 1..(Len(queue) \div 2) |-> Hash(queue[2*i - 1], queue[2*i])]
      \o (IF Len(queue) % 2 = 1 THEN <<queue[Len(queue)]>> ELSE <<>>)

(* Passes until one node is left, which a further pass leaves alone.       *)
Fold(queue) ==
    LET after[n \in 0..Len(queue)] == IF n = 0 THEN queue ELSE Pass(after[n - 1])
    IN after[Len(queue)][1]

(* `zgMerkleRoot`: of the roots of the segments.                           *)
ZgMerkleRoot(file) ==
    LET segments == Segments(Leaves(file))
    IN Fold([s \in DOMAIN segments |-> Fold(segments[s])])

-----------------------------------------------------------------------------
(* `ZgMerkle._fold`: two nodes are taken from the front and their hash     *)
(* goes to the back.                                                       *)
TakesPair(queue) == Append(SubSeq(queue, 3, Len(queue)), Hash(queue[1], queue[2]))

(* A pass: pair after pair, and then a single leftover moves from front to *)
(* back.                                                                   *)
ContractPass(queue) ==
    LET half == Len(queue) \div 2
        after[n \in 0..half] == IF n = 0 THEN queue ELSE TakesPair(after[n - 1])
    IN IF Len(queue) % 2 = 1 THEN Append(Tail(after[half]), after[half][1]) ELSE after[half]

ContractFold(leaves) ==
    LET after[n \in 0..Len(leaves)] == IF n = 0 THEN leaves ELSE ContractPass(after[n - 1])
    IN after[Len(leaves)][1]

ContractPadded(chunks) ==
    LET p2   == NextPow2(chunks)
        unit == IF p2 >= 16 THEN p2 \div 16 ELSE 1
    IN IF p2 = chunks THEN chunks ELSE CeilDiv(chunks, unit) * unit

(* `ZgMerkle.root`: each segment reads the file at its own offset, and     *)
(* past the end of the file finds zeros.                                   *)
ContractRoot(file) ==
    LET padded   == ContractPadded(file.chunks)
        segments == CeilDiv(padded, SegmentChunks)
        count(s) == IF padded - s * SegmentChunks > SegmentChunks
                    THEN SegmentChunks ELSE padded - s * SegmentChunks
    IN ContractFold([s \in 1..segments |->
              ContractFold([c \in 1..count(s - 1) |-> Leaf(file, (s - 1) * SegmentChunks + c)])])
=============================================================================
