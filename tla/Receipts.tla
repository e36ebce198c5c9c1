------------------------------ MODULE Receipts ------------------------------
(***************************************************************************)
(* What the pages can read of a committee's decision: chain.ts             *)
(* committeeReceipt and zg-storage.ts parseReceipt.                        *)
(*                                                                         *)
(* A member anchors the root of its receipt as it reveals, and the receipt *)
(* names the outcome it voted for (resolve.ts).  The document behind a     *)
(* root may not be readable when the page asks.  The committee comes in no *)
(* particular order here, so the document the page takes for its narrative *)
(* is any of the readable ones.                                            *)
(***************************************************************************)
EXTENDS ResolutionModule

CONSTANT NoOutcome    \* null

ASSUME ReceiptAssumption == NoOutcome \notin 0..3

(* The document's own outcome: YES, NO, or null for anything else.         *)
Stated(m, a) == IF reveal[m][a] \in {NO, YES} THEN reveal[m][a] ELSE NoOutcome

(* revealOf, as the page words it.                                         *)
Shown(m, a) == IF reveal[m][a] = NONE THEN NoOutcome ELSE reveal[m][a]

(* Mutant: a row for every seat.                                           *)
AnchoredBySeat(m) == committee[m]

(* receiptRootOf is non-zero.                                              *)
Anchored(m) == {a \in committee[m] : reveal[m][a] # NONE}

(* parseReceipt: a model nobody named cast no vote, and the document never *)
(* says of itself that a committee wrote it.                               *)
ParseReceipt(m, a, doc) ==
    [outcome      |-> Stated(m, a),
     votes        |-> IF doc.model THEN {[outcome |-> Stated(m, a), teed |-> doc.teed]} ELSE {},
     judged       |-> doc.model,
     provider     |-> doc.provider,
     route        |-> doc.route,
     viaCommittee |-> FALSE]

(* A member's row: its vote from the chain, the rest from its document.    *)
Row(m, a, docs, readable) ==
    LET doc == ParseReceipt(m, a, docs[a])
    IN [outcome    |-> Shown(m, a),
        documented |-> a \in readable,
        model      |-> a \in readable /\ doc.judged,
        teed       |-> a \in readable /\ \E v \in doc.votes : v.teed]

(* Nothing anchored is no receipt; anchored and unreadable is an error.    *)
CommitteeReceipt(m, docs, readable, first) ==
    IF Anchored(m) = {} THEN [kind |-> "none"]
    ELSE IF Anchored(m) \cap readable = {} THEN [kind |-> "error"]
    ELSE [kind |-> "receipt",
          data |-> [ParseReceipt(m, first, docs[first]) EXCEPT
                      !.votes = [a \in Anchored(m) |-> Row(m, a, docs, readable)],
                      !.viaCommittee = TRUE]]

(* getSettlementReceipt, as the query a panel unwraps: still on its way,   *)
(* without a storage endpoint, or what the documents come to.              *)
ReceiptQuery(m, docs, readable, first, state) ==
    IF state # "answered" THEN [status |-> state]
    ELSE LET answer == CommitteeReceipt(m, docs, readable, first)
         IN IF answer.kind = "error" THEN [status |-> "error"]
            ELSE [status |-> "ready", receipt |-> answer]
=============================================================================
