----------------------------- MODULE Extraction -----------------------------
(***************************************************************************)
(* EntityExtractor of engram: a conversation cut into overlapping chunks,  *)
(* each read by the model with retries, the answers merged by key whatever *)
(* its case, and the nodes no edge names dropped.                          *)
(*                                                                         *)
(* A node is a key and a spelling; an edge is the set of the keys it       *)
(* names.  What the model says is any answer.  A chunk size of two or less *)
(* never advances past the overlap: the assumption excludes it, the code   *)
(* does not.                                                               *)
(***************************************************************************)
EXTENDS Integers, Sequences, FiniteSets, SequencesExt, FiniteSetsExt

CONSTANTS
    ChunkSize,    \* chunk_size, 50
    Junk,         \* positions of messages should_extract refuses
    MaxMessages,  \* bound: messages of a conversation
    MaxRetries,   \* max_retries, 3
    Keys,         \* keys of nodes in lower case
    Spellings

Overlap == 2

ASSUME ExtractionAssumption ==
    /\ ChunkSize \in Nat /\ ChunkSize > Overlap
    /\ MaxMessages \in Nat /\ MaxRetries \in Nat \ {0}

VARIABLES
    total,    \* messages of the conversation
    begins,   \* first message of the chunk, 0 when there is none
    tries,  \* calls made for it
    asked,    \* messages the model was asked about, or that a chunk of junk held
    said,     \* its answers in order
    nodes,    \* all_nodes
    edges,    \* all_edges
    result    \* what extract_entities returned, or NoResult

extractionVars == <<total, begins, tries, asked, said, nodes, edges, result>>

NoResult  == [nodes |-> {}, edges |-> {}, done |-> FALSE]
EmptySaid == [nodes |-> {}, edges |-> {}]
KeysOf(ns) == {x.key : x \in ns}

\* One spelling of a key in one answer, edges between different keys.
SaidSets  == {{[key |-> k, as |-> s[k]] : k \in DOMAIN s} : s \in UNION {[ks -> Spellings] : ks \in SUBSET Keys}}
SaidEdges == SUBSET {e \in SUBSET Keys : Cardinality(e) = 2}
AnyAnswer == [nodes : SaidSets, edges : SaidEdges]

ExtractionInit ==
    /\ total \in 1..MaxMessages /\ begins = 1 /\ tries = 0
    /\ asked = {} /\ said = <<>> /\ nodes = {} /\ edges = {}
    /\ result = NoResult

----------------------------------------------------------------------------
\* _chunk_messages: a short conversation is one chunk; the last chunk ends it.
ChunkEnd == IF begins + ChunkSize - 1 < total THEN begins + ChunkSize - 1 ELSE total

\* Mutant: the rest is dropped when it is no longer than the overlap.
NextChunk_Short == IF total - ChunkEnd <= Overlap THEN 0 ELSE ChunkEnd + 1 - Overlap

NextChunk == IF ChunkEnd = total THEN 0 ELSE ChunkEnd + 1 - Overlap

\* The first occurrence's spelling is kept.
MergedNodes(ns) == nodes \cup {x \in ns : x.key \notin KeysOf(nodes)}

Takes(r) ==
    /\ said' = Append(said, r)
    /\ nodes' = MergedNodes(r.nodes) /\ edges' = edges \cup r.edges
    /\ asked' = asked \cup begins..ChunkEnd
    /\ begins' = NextChunk /\ tries' = 0
    /\ UNCHANGED <<total, result>>

\* _extract_chunk: nothing to extract, or the answer of the model, also one that does not parse.
Skip == begins # 0 /\ begins..ChunkEnd \subseteq Junk /\ Takes(EmptySaid)

ModelSays ==
    /\ begins # 0 /\ ~(begins..ChunkEnd \subseteq Junk)
    /\ \E r \in AnyAnswer : Takes(r)

\* A transient error is tried again; another one, or the last, is an empty answer.
ModelFailed ==
    /\ begins # 0 /\ ~(begins..ChunkEnd \subseteq Junk)
    /\ \/ /\ tries < MaxRetries - 1 /\ tries' = tries + 1
          /\ UNCHANGED <<total, begins, asked, said, nodes, edges, result>>
       \/ Takes(EmptySaid)

\* The end of extract_entities: nodes without an edge are dropped, edges without nodes are not.
Finish ==
    /\ begins = 0 /\ ~result.done
    /\ result' = [nodes |-> {x \in nodes : x.key \in UNION edges}, edges |-> edges, done |-> TRUE]
    /\ UNCHANGED <<total, begins, tries, asked, said, nodes, edges>>

\* The conversation has been extracted.
Extracted == result.done /\ UNCHANGED extractionVars

ExtractionNext == Skip \/ ModelSays \/ ModelFailed \/ Finish \/ Extracted

ExtractionSpec == ExtractionInit /\ [][ExtractionNext]_extractionVars

----------------------------------------------------------------------------
FirstSaid(k) == LET n == CHOOSE i \in DOMAIN said : k \in KeysOf(said[i].nodes) /\ \A j \in 1..(i - 1) : k \notin KeysOf(said[j].nodes)
                IN  CHOOSE x \in said[n].nodes : x.key = k

(***************************************************************************)
(* Whatever the length of a conversation and wherever chunks are junk or   *)
(* fail, every message is in some chunk, and the result has exactly the    *)
(* nodes that some answer's edge names, each once, spelled as the first    *)
(* answer that had it did.                                                 *)
(***************************************************************************)
NothingSaidIsLost ==
    result.done =>
        LET all   == UNION {KeysOf(said[i].nodes) : i \in DOMAIN said}
            named == UNION UNION {said[i].edges : i \in DOMAIN said}
        IN  asked = 1..total /\ result.nodes = {FirstSaid(k) : k \in all \cap named}
=============================================================================
