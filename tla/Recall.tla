------------------------------- MODULE Recall -------------------------------
(***************************************************************************)
(* ReasoningEngine.think() of engram over ParallelSearcher: three sources  *)
(* searched at once, a keyword search when they found nothing good, the    *)
(* fusion by content, the reranker, the entity boost, the cut by score and *)
(* the answer, with the model or without it.  Meanwhile memories are       *)
(* marked outdated, consolidated or deleted.                               *)
(*                                                                         *)
(* Which memories match a question is the choice of the indexes.  Results  *)
(* are sets: rows with the same text and score count as one, for nothing   *)
(* tells them apart, and which of equal score comes first is left open.    *)
(* The path with parallel_search off is not modelled.  The recall boost    *)
(* writes the field "importance", which nothing reads, and is left out.    *)
(***************************************************************************)
EXTENDS Integers, FiniteSets

CONSTANTS
    Memories,    \* the rows of the store
    Nodes,       \* graph nodes; the text of a node is its own
    Content,     \* Content[m]: the text of m; two rows may have the same
    Confidence,  \* Confidence[m]: _memory_score of m, in hundredths
    TopK,        \* search_limit, 25; 3 for a mixed question
    RerankMin,   \* min_candidates, 5
    RerankTop,   \* rerank_top_k, 8
    RerankFloor, \* fallback_top_k, 3
    Pending,     \* a source that has not returned
    Failed       \* a source that raised

ASSUME RecallAssumption ==
    /\ IsFiniteSet(Memories) /\ IsFiniteSet(Nodes)
    /\ Confidence \in [Memories -> 10..100]
    /\ {TopK, RerankMin, RerankTop, RerankFloor} \subseteq Nat \ {0}

\* RecallConfig and RecallPipelineConfig, in hundredths.
KeywordExact == 60
EntityBoost  == 55
EdgeScore    == 50
Fuzzy        == 30
FallbackThreshold == 30
MinRelevance      == 30
MixedRelevance    == 60
Attempts          == 3

VARIABLES
    marks,     \* marks[m]: what happened to m: "outdated", "consolidated", "deleted"
    phase,     \* of the question: its next step
    kind,      \* QuestionType, "research" for the mode that skips memories
    found,     \* found[s]: what source s returned, Pending or Failed
    list,      \* the results so far
    reranked,  \* the reranker chose among them
    beside,    \* related entities or results of providers were found too
    attempt,   \* calls of the model made for the answer
    answer     \* [by, degraded], or NoAnswer

recallVars == <<marks, phase, kind, found, list, reranked, beside, attempt, answer>>

Sources  == {"semantic", "entity_graph", "fts"}
NoAnswer == [by |-> "nobody", degraded |-> FALSE]

Hit(text, score) == [content |-> text, score |-> score]
Texts(rs) == {r.content : r \in rs}
Lesser(m, n) == IF m < n THEN m ELSE n

----------------------------------------------------------------------------
\* The search by embedding leaves outdated memories out and consolidated ones too; the search by
\* text leaves neither out.
Visible == {m \in Memories : marks[m] \cap {"deleted", "outdated"} = {}}
Semantic(ms) == {Hit(Content[m], Confidence[m]) : m \in {n \in ms : "consolidated" \notin marks[n]}}
FullText(ms) == {Hit(Content[m], KeywordExact) : m \in ms}
Graph(ns)    == {Hit(n, EdgeScore) : n \in ns}
Keyword(ns)  == {Hit(n, Fuzzy) : n \in ns}

Answers(s) ==
    CASE s = "semantic"     -> {Semantic(ms) : ms \in SUBSET Visible}
      [] s = "fts"          -> {FullText(ms) : ms \in SUBSET {m \in Memories : "deleted" \notin marks[m]}}
      [] s = "entity_graph" -> {Graph(ns) : ns \in SUBSET Nodes}

\* What gather returned; a source that raised adds nothing.
Of(s)    == IF found[s] = Failed THEN {} ELSE found[s]
Gathered == UNION {Of(s) : s \in Sources}

\* Mutant: a copy replaces the one before when its score is lower.
Fused_Worst(rs) == {r \in rs : \A o \in rs : o.content = r.content => o.score >= r.score}

\* One result per text, the one with the best score.
Fused(rs) == {r \in rs : \A o \in rs : o.content = r.content => o.score <= r.score}

\* The first n by score.
Top(rs, n) ==
    {S \in SUBSET rs : /\ Cardinality(S) = Lesser(n, Cardinality(rs))
                       /\ \A a \in S, b \in rs \ S : a.score >= b.score}

Limit == IF kind = "mixed" /\ TopK > 3 THEN 3 ELSE TopK

\* Too few candidates: as they are.  Else the best of those the model puts above its threshold, or
\* its first few when too few are; the order is the model's.
Reranks(rs) ==
    {S \in SUBSET rs :
        /\ Cardinality(rs) >= RerankMin
        /\ \E above \in 0..Cardinality(rs) :
             LET judged == IF above < RerankFloor THEN RerankFloor ELSE Lesser(above, RerankTop)
             IN  Cardinality(S) = Lesser(Limit, Lesser(judged, Cardinality(rs)))}

----------------------------------------------------------------------------
RecallInit ==
    /\ marks = [m \in Memories |-> {}] /\ phase = "idle" /\ kind = "personal"
    /\ found = [s \in Sources |-> Pending] /\ list = {} /\ reranked = FALSE
    /\ beside = FALSE /\ attempt = 0 /\ answer = NoAnswer

\* classify_question: a general question, and the research mode, leave memories aside.
Ask(k) ==
    /\ phase = "idle" /\ kind' = k
    /\ phase' = IF k = "general" THEN "federate" ELSE "search"
    /\ found' = [s \in Sources |-> Pending]
    /\ UNCHANGED <<marks, list, reranked, beside, attempt, answer>>

SourceReturns(s) ==
    /\ phase = "search" /\ found[s] = Pending
    /\ \E r \in Answers(s) \cup {Failed} : found' = [found EXCEPT ![s] = r]
    /\ UNCHANGED <<marks, phase, kind, list, reranked, beside, attempt, answer>>

\* The end of ParallelSearcher.search: the fallback, which may fail too, and _fuse, with the
\* reranker or, when it is off or fails, without.
Fuse ==
    /\ phase = "search" /\ \A s \in Sources : found[s] # Pending
    /\ \E ns \in SUBSET Nodes :
         LET poor  == \A r \in Gathered : r.score < FallbackThreshold
             fused == Fused(Gathered \cup (IF poor THEN Keyword(ns) ELSE {}))
         IN  \/ list' \in Top(fused, Limit) /\ reranked' = FALSE
             \/ list' \in Reranks(fused) /\ reranked' = TRUE
    /\ phase' = "hints"
    /\ UNCHANGED <<marks, kind, found, beside, attempt, answer>>

\* Entity hints: memories found by the names of entities, consolidated ones among them, are added
\* when their text is new; a search that raises is skipped.
Boost ==
    /\ phase = "hints"
    /\ \E ms \in SUBSET Visible :
         list' = list \cup {Hit(Content[m], EntityBoost) : m \in {n \in ms : Content[n] \notin Texts(list)}}
    /\ phase' = "federate"
    /\ UNCHANGED <<marks, kind, found, reranked, beside, attempt, answer>>

\* The graph is read again, for the hints and what is related to them, and nothing catches its
\* errors: the question fails.
GraphRaises ==
    /\ phase = "hints" /\ phase' = "raised"
    /\ UNCHANGED <<marks, kind, found, list, reranked, beside, attempt, answer>>

Cut == IF kind = "mixed" THEN MixedRelevance ELSE MinRelevance

\* Providers are asked and results below the cut dropped.
Federate ==
    /\ phase = "federate"
    /\ list' = {r \in list : r.score >= Cut}
    /\ beside' \in BOOLEAN
    /\ phase' = "synthesize"
    /\ UNCHANGED <<marks, kind, found, reranked, attempt, answer>>

Answered(by, degraded) == phase' = "answered" /\ answer' = [by |-> by, degraded |-> degraded]

NothingFound ==
    /\ phase = "synthesize" /\ attempt = 0
    /\ list = {} /\ ~beside /\ kind # "general"
    /\ Answered("nobody", FALSE)
    /\ UNCHANGED <<marks, kind, found, list, reranked, beside, attempt>>

ToAnswer == phase = "synthesize" /\ (list # {} \/ beside \/ kind = "general")

\* The resource tier allows no call: the memories as they are.
TierTooLow ==
    /\ ToAnswer /\ attempt = 0
    /\ Answered("memories", TRUE)
    /\ UNCHANGED <<marks, kind, found, list, reranked, beside, attempt>>

ModelAnswers ==
    /\ ToAnswer
    /\ attempt' = attempt + 1
    /\ Answered("model", FALSE)
    /\ UNCHANGED <<marks, kind, found, list, reranked, beside>>

Again(transient) == transient /\ attempt + 1 < Attempts

\* The call fails: transient errors are tried again, others and the last one end in the context.
ModelFails ==
    /\ ToAnswer
    /\ \E transient \in BOOLEAN :
         IF Again(transient) THEN attempt' = attempt + 1 /\ UNCHANGED <<phase, answer>>
                             ELSE attempt' = 0 /\ Answered("memories", TRUE)
    /\ UNCHANGED <<marks, kind, found, list, reranked, beside>>

\* The next question.
Done ==
    /\ phase \in {"answered", "raised"}
    /\ phase' = "idle" /\ list' = {} /\ reranked' = FALSE /\ beside' = FALSE /\ attempt' = 0
    /\ answer' = NoAnswer /\ found' = [s \in Sources |-> Pending]
    /\ UNCHANGED <<marks, kind>>

\* Other tasks of the process.
Mark(m, what) ==
    /\ marks[m] = {} /\ marks' = [marks EXCEPT ![m] = {what}]
    /\ UNCHANGED <<phase, kind, found, list, reranked, beside, attempt, answer>>

RecallNext ==
    \/ \E k \in {"personal", "mixed", "general"} : Ask(k)
    \/ \E s \in Sources : SourceReturns(s)
    \/ Fuse \/ Boost \/ GraphRaises \/ Federate
    \/ NothingFound \/ TierTooLow \/ ModelAnswers \/ ModelFails
    \/ Done
    \/ \E m \in Memories, what \in {"outdated", "consolidated", "deleted"} : Mark(m, what)

RecallSpec == RecallInit /\ [][RecallNext]_recallVars

----------------------------------------------------------------------------
\* The texts the sources found that score at least as much.
AtLeast(score) == Texts({r \in Gathered : r.score >= score})

(***************************************************************************)
(* A failing source, a second copy with a lower score, the limit and the   *)
(* cut together lose nothing that was worth keeping: what some source      *)
(* returned above the cut is in the answer's context with that score or a  *)
(* better one, unless as many texts that are no worse took the places or   *)
(* the reranker judged.                                                    *)
(***************************************************************************)
RelevantIsUsed ==
    phase = "synthesize" /\ kind # "general" /\ ~reranked =>
        \A g \in Gathered : g.score >= Cut =>
            \/ \E r \in list : r.content = g.content /\ r.score >= g.score
            \/ Cardinality(AtLeast(g.score)) > Limit
=============================================================================
