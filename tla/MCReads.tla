------------------------------ MODULE MCReads ------------------------------
(***************************************************************************)
(* A market read by a list and by its own page.  Its document has 41       *)
(* chunks, padded to 44 and cut at every 16: two full segments and one of  *)
(* twelve, whose fold and the fold of the three roots carry an odd node.   *)
(***************************************************************************)
EXTENDS Reads

ASSUME PowersAssumption ==
    \A n \in 1..2048 :
      NextPow2(n) = CHOOSE p \in {2^i : i \in 0..11} : p >= n /\ (p = 1 \/ p \div 2 < n)

Question == [name |-> 1, chunks |-> 41, json |-> TRUE, shape |-> "spec"]
Forged   == [name |-> 3, chunks |-> 41, json |-> TRUE, shape |-> "spec"]
Envelope == [name |-> 4, chunks |-> 1, json |-> TRUE, shape |-> "envelope"]
Marked   == [name |-> 5, chunks |-> 42, json |-> TRUE, shape |-> "spec"]

MCCallsOf == [r \in PageRequests |-> Body(r)]

(* reads.cfg: two pages that ask once, an indexer that may send another    *)
(* text, the right one behind a byte order mark, or its envelope for a     *)
(* root it has never seen.                                                 *)
MCDocuments == {Question}
MCTexts     == {Question, Forged, Envelope}
MCFiles     == MCTexts \cup {Marked}
MCDecoded   == [file \in MCFiles |-> IF file = Marked THEN Question ELSE file]
MCPages     == {"list", "detail"}
MCLists     == {"list"}
MCSpecRoot  == [p \in MCPages |-> Question]
MCWidth     == [p \in MCPages |-> 1]
MCRetries   == [p \in MCPages |-> 0]

(* retried_reads.cfg: one page that asks twice, through a gate narrower    *)
(* than its batch and its token.                                           *)
OneDecoded  == [file \in MCDocuments |-> file]
OnePage     == {"detail"}
OneSpecRoot == [p \in OnePage |-> Question]
OneWidth    == [p \in OnePage |-> 2]
OneRetries  == [p \in OnePage |-> 1]
=============================================================================
