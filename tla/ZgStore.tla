------------------------------ MODULE ZgStore ------------------------------
(***************************************************************************)
(* ZgStore of packages/zg-storage/src/index.ts and the shapes              *)
(* frontend/src/lib/data/zg-storage.ts reads out of it: documents fetched  *)
(* by root, proved to be what the root names, and kept, in memory for the  *)
(* session and as text on the reader's disk.  A document is a file, and its *)
(* key the root of that file, the one that was anchored.  Every answer is  *)
(* read as text before it is proved: the text of a file is the file again  *)
(* only where its bytes are UTF-8 and begin with no byte order mark.  An   *)
(* empty answer has no root and proves nothing; it is not told apart from  *)
(* another that does not.                                                  *)
(***************************************************************************)
EXTENDS Merkle

CONSTANTS
    Files,          \* everything an indexer may send: [name, chunks, json, shape]
    Documents,      \* the files whose roots markets carry
    Texts,          \* the files that are some text encoded
    Decoded         \* by file, the text its bytes are read as

VARIABLES
    persists,       \* whether there is a disk to keep texts on
    disk,           \* by document, the text stored for it, or Nothing
    cache,          \* by document, what this session knows, or NotCached
    load,           \* by document, the fetch in flight, if any
    asked,          \* by document, fetches started in this session
    failed,         \* by document, fetches of this session that threw
    denied          \* documents the indexer said, in this session, it has not

storeVars == <<persists, disk, cache, load, asked, failed, denied>>

Nothing   == [name |-> 0, chunks |-> 0, json |-> FALSE, shape |-> "nothing"]
NotCached == [name |-> 0, chunks |-> 0, json |-> FALSE, shape |-> "not cached"]
Null      == [name |-> 0, chunks |-> 0, json |-> FALSE, shape |-> "null"]
Failure   == [name |-> 0, chunks |-> 0, json |-> FALSE, shape |-> "failure"]
NoLoad    == [at |-> "none", file |-> Nothing]
Asked     == [at |-> "asked", file |-> Nothing]

NewSession ==
    /\ cache = [d \in Documents |-> NotCached]
    /\ load = [d \in Documents |-> NoLoad]
    /\ asked = [d \in Documents |-> 0]
    /\ failed = [d \in Documents |-> 0]
    /\ denied = {}

-----------------------------------------------------------------------------
(* The one test everything rests on: the root computed from the bytes here *)
(* is the root that was computed from the document elsewhere.              *)
Proved ==
    {pair \in {<<text, d>> : text \in Texts, d \in Documents} :
       ZgMerkleRoot(pair[1]) = ContractRoot(pair[2])}

Proves(text, d) == <<text, d>> \in Proved

(* No two files have one root.                                             *)
ASSUME StoreAssumption ==
    /\ Documents \subseteq Files /\ Texts \subseteq Files
    /\ Decoded \in [Files -> Texts]
    /\ \A file \in Files : file.chunks \in Nat \ {0}
    /\ {Nothing, NotCached, Null, Failure} \cap Files = {}
    /\ \A text \in Texts, d \in Documents : Proves(text, d) => text = d

(* Proved bytes that are not JSON are nothing anyone can render.           *)
Parsed(text) == IF text.json THEN text ELSE Null

(* Mutant: what the disk holds is believed.                                *)
ReadPersistedTrusting(d) ==
    IF ~persists \/ disk[d] = Nothing THEN NotCached ELSE Parsed(disk[d])

(* `readPersisted`: a stored text is proved again on its way out.          *)
ReadPersisted(d) ==
    IF ~persists \/ disk[d] = Nothing \/ ~Proves(disk[d], d) THEN NotCached
    ELSE Parsed(disk[d])

(* A stored text that proves nothing is removed.                           *)
DiskAfterReading(d) ==
    IF persists /\ disk[d] # Nothing /\ ~Proves(disk[d], d)
    THEN [disk EXCEPT ![d] = Nothing] ELSE disk

(* What `get` can answer at once.                                          *)
Known(d) == IF cache[d] # NotCached THEN cache[d] ELSE ReadPersisted(d)

(* Mutant: the entry is made when the answer is here.                      *)
JoinsIfAnswered(d) == load[d].at = "answered"

(* A second caller joins the fetch that is already running.                *)
Joins(d) == load[d] # NoLoad

(* `get` up to its first await, for the documents in D.                    *)
Get(D) ==
    LET misses == {d \in D : cache[d] = NotCached /\ load[d] = NoLoad}
        starts == {d \in D : cache[d] = NotCached /\ ~Joins(d) /\ ReadPersisted(d) = NotCached}
    IN /\ cache' = [d \in Documents |->
                      IF d \in misses THEN ReadPersisted(d) ELSE cache[d]]
       /\ load' = [d \in Documents |-> IF d \in starts THEN Asked ELSE load[d]]
       /\ disk' = [d \in Documents |-> IF d \in misses THEN DiskAfterReading(d)[d] ELSE disk[d]]
       /\ asked' = [d \in Documents |-> asked[d] + (IF d \in starts THEN 1 ELSE 0)]
       /\ UNCHANGED <<persists, failed, denied>>

-----------------------------------------------------------------------------
(* The indexer answers, with whatever it holds, or cannot be reached.      *)
Responds(d) ==
    /\ load[d].at = "asked"
    /\ \E file \in Files \cup {Failure} :
         load' = [load EXCEPT ![d] = [at |-> "answered", file |-> file]]
    /\ UNCHANGED <<persists, disk, cache, asked, failed, denied>>

(* The envelope of a root the indexer has never seen is looked at only     *)
(* when the proof has failed.                                              *)
ResultOf(file, d) ==
    LET text == Decoded[file] IN
    IF file = Failure THEN Failure
    ELSE IF Proves(text, d) THEN Parsed(text)
    ELSE IF text.shape = "envelope" THEN Null
    ELSE Failure

(* The rest of `load` and of `get`: what was proved is kept, on a disk     *)
(* with room, and what threw is forgotten.                                 *)
Settles(d) ==
    LET file   == load[d].file
        result == ResultOf(file, d)
    IN /\ load[d].at = "answered"
       /\ load' = [load EXCEPT ![d] = NoLoad]
       /\ cache' = [cache EXCEPT ![d] = IF result = Failure THEN NotCached ELSE result]
       /\ failed' = [failed EXCEPT ![d] = @ + (IF result = Failure THEN 1 ELSE 0)]
       /\ denied' = IF result = Null /\ ~Proves(Decoded[file], d) THEN denied \cup {d} ELSE denied
       /\ \/ disk' = disk
          \/ /\ persists /\ file # Failure /\ Proves(Decoded[file], d)
             /\ disk' = [disk EXCEPT ![d] = Decoded[file]]
       /\ UNCHANGED <<persists, asked>>

-----------------------------------------------------------------------------
(* `parseSpec`: a document without a question or rules says nothing.       *)
SpecOf(value) == IF value.shape = "spec" THEN value ELSE Null
=============================================================================
