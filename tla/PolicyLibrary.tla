---------------------------- MODULE PolicyLibrary ----------------------------
(***************************************************************************)
(* The policy library: versions and chunks (policy_service.py), ingestion  *)
(* of a source (policy_ingestion_service.py), embeddings                   *)
(* (policy_embedding_service.py), retrieval (policy_retrieval_service.py)  *)
(* and the explanation of an exception by what was retrieved               *)
(* (policy_grounding_service.py, all in app/services).                     *)
(*                                                                         *)
(* A source stands for the sequence of contents it is chunked into; a      *)
(* vector for the model that made it; the likeness of a content to the     *)
(* query is a constant.  What the providers answer is a choice.            *)
(***************************************************************************)
EXTENDS Naturals, FiniteSets, Sequences

CONSTANTS
    Policies,       \* policy documents
    Labels,         \* version labels
    VersionStatuses,\* statuses a version is created with
    Sources,        \* source -> the contents of its chunks
    Passages,
    Distance,       \* content -> distance from the query
    MaxDistance,    \* the least similarity that counts, as a distance
    TopK,           \* policy_grounding_top_k
    EmbedBatch,     \* embedding_batch_size
    Models,         \* embedding models configured, now and later
    Readers,        \* requests
    MaxVersions,    \* bound: versions created
    MaxChunks,      \* bound: chunks added by hand
    MaxReads        \* bound: ingestions, embeddings and explanations

NoModel == "NONE"
NoSource == "OTHER"         \* the fingerprint of some other text
Statuses == {"SUPPORTED", "INSUFFICIENT_EVIDENCE", "CONFLICTING_POLICY", "PROVIDER_ERROR"}

ASSUME PolicyAssumption ==
    /\ \A s \in DOMAIN Sources : Sources[s] \in Seq(Passages) /\ Sources[s] # <<>>
    /\ NoSource \notin DOMAIN Sources /\ NoModel \notin Models
    /\ DOMAIN Distance = Passages /\ \A c \in Passages : Distance[c] \in Nat
    /\ MaxDistance \in Nat /\ TopK \in Nat \ {0} /\ EmbedBatch \in Nat \ {0}
    /\ MaxVersions \in Nat /\ MaxChunks \in Nat /\ MaxReads \in Nat

VARIABLES
    versions,   \* committed versions
    chunks,     \* committed chunks
    reader,     \* requests in progress
    ingested,   \* answers INGESTED: the version and the source
    results,    \* committed grounding results
    reads

policyVars == <<versions, chunks, reader, ingested, results, reads>>

PolicyVersion == [id : 1..MaxVersions, policy : Policies, label : Labels,
                  status : VersionStatuses, hash : DOMAIN Sources \union {NoSource}]
PolicyChunk == [version : 1..MaxVersions, index : Nat, content : Passages,
                vector : Models \union {NoModel}]
ChunkId == (1..MaxVersions) \X Nat
Id(c) == <<c.version, c.index>>
ChunkIds(cs) == {Id(c) : c \in cs}

\* `retrieved', of which the row has the ids, are the chunks as the model was shown them.
GroundingResult == [status : Statuses, cited : SUBSET ChunkId, retrieved : SUBSET PolicyChunk]

Absent == [pc |-> "absent"]

PolicyTypeOK ==
    /\ versions \subseteq PolicyVersion
    /\ \A c \in chunks : c \in PolicyChunk
    /\ \A v, w \in versions : v.id = w.id => v = w
    /\ \A c, d \in chunks : c.version = d.version /\ c.index = d.index => c = d
    /\ \A r \in Readers : reader[r] = Absent \/ reader[r].pc \in {"ingest", "embed", "explain"}
    /\ \A g \in results : /\ g.status \in Statuses
                          /\ g.cited \subseteq ChunkId /\ g.retrieved \subseteq PolicyChunk
    /\ reads \in 0..MaxReads

PolicyInit ==
    /\ versions = {} /\ chunks = {} /\ ingested = {} /\ results = {}
    /\ reader = [r \in Readers |-> Absent]
    /\ reads = 0

ChunksOf(v) == {c \in chunks : c.version = v}
Does(r, state) == reader' = [reader EXCEPT ![r] = state]
Starts(r) == reader[r] = Absent /\ reads < MaxReads /\ reads' = reads + 1

-----------------------------------------------------------------------------
(* Versions and chunks.                                                    *)

\* create_version: the label is unique in its policy; the fingerprint is what the
\* client says it is.  Nothing keeps two versions of a policy from being ACTIVE.
CreateVersion(policy, label, status, hash) ==
    /\ Cardinality(versions) < MaxVersions
    /\ ~\E v \in versions : v.policy = policy /\ v.label = label
    /\ versions' = versions \union {[id |-> Cardinality(versions) + 1, policy |-> policy,
                                     label |-> label, status |-> status, hash |-> hash]}
    /\ UNCHANGED <<chunks, reader, ingested, results, reads>>

IndexTaken(v, indices) == \E c \in ChunksOf(v) : c.index \in indices

\* add_chunks, of one chunk.
AddChunk(v, index, content) ==
    /\ Cardinality(chunks) < MaxChunks
    /\ ~IndexTaken(v, {index})
    /\ chunks' = chunks \union {[version |-> v, index |-> index, content |-> content,
                                 vector |-> NoModel]}
    /\ UNCHANGED <<versions, reader, ingested, results, reads>>

Parsed(v, source) ==
    {[version |-> v, index |-> i - 1, content |-> Sources[source][i], vector |-> NoModel] :
        i \in DOMAIN Sources[source]}

\* ingest: a version that has chunks takes no other source, and is answered
\* without a write when its fingerprint is that of this one.
BeginIngest(r, v, source) ==
    /\ Starts(r)
    /\ ChunksOf(v) = {}
    /\ Does(r, [pc |-> "ingest", version |-> v, source |-> source])
    /\ UNCHANGED <<versions, chunks, ingested, results>>

\* Mutant: chunks that are there are skipped.
BlocksNever(r) == FALSE

\* uq_policy_chunks_version_chunk_index.
Blocks(r) == IndexTaken(reader[r].version, 0 .. Len(Sources[reader[r].source]) - 1)

\* The fingerprint and all chunks in one transaction.
CommitIngest(r) ==
    LET v == reader[r].version
        source == reader[r].source
    IN  /\ reader[r].pc = "ingest"
        /\ \/ Blocks(r) /\ UNCHANGED <<versions, chunks, ingested>>
           \/ /\ ~Blocks(r)
              /\ versions' = {IF w.id = v THEN [w EXCEPT !.hash = source] ELSE w : w \in versions}
              /\ chunks' = chunks \union {c \in Parsed(v, source) : ~IndexTaken(v, {c.index})}
              /\ ingested' = ingested \union {[version |-> v, source |-> source]}
        /\ Does(r, Absent)
        /\ UNCHANGED <<results, reads>>

-----------------------------------------------------------------------------
(* Embeddings.                                                             *)

\* _is_stale: a content never changes, a model may.
Stale(v, model) == {c.index : c \in {d \in ChunksOf(v) : d.vector # model}}

BeginEmbed(r, v, model) ==
    /\ Starts(r)
    /\ Stale(v, model) # {}
    /\ Does(r, [pc |-> "embed", version |-> v, model |-> model, left |-> Stale(v, model)])
    /\ UNCHANGED <<versions, chunks, ingested, results>>

\* A batch of vectors from the provider and its commit; a failure of either ends
\* the request and leaves the batches before it.
EmbedNext(r) ==
    LET left == reader[r].left
        batch == {i \in left : Cardinality({j \in left : j < i}) < EmbedBatch}
    IN  /\ reader[r].pc = "embed"
        /\ \/ /\ chunks' = {IF c.version = reader[r].version /\ c.index \in batch
                            THEN [c EXCEPT !.vector = reader[r].model] ELSE c : c \in chunks}
              /\ Does(r, IF left = batch THEN Absent
                         ELSE [reader[r] EXCEPT !.left = left \ batch])
           \/ Does(r, Absent) /\ UNCHANGED chunks
        /\ UNCHANGED <<versions, ingested, results, reads>>

-----------------------------------------------------------------------------
(* Retrieval and grounding.                                                *)

\* Mutant: whatever has a vector.
CurrentAny(c, model) == c.vector # NoModel

\* Vectors of another model are skipped.
Current(c, model) == c.vector = model

Before(c, d) ==
    \/ Distance[c.content] < Distance[d.content]
    \/ Distance[c.content] = Distance[d.content] /\ c.index < d.index
    \/ Distance[c.content] = Distance[d.content] /\ c.index = d.index /\ c.version < d.version

\* The TopK nearest, in the order of distance, index and id; then those near enough.
Hits(model, scope) ==
    LET found == {c \in chunks : c.version \in scope /\ Current(c, model)}
    IN  {c \in found : Cardinality({d \in found : Before(d, c)}) < TopK}
Relevant(hits) == {c \in hits : Distance[c.content] <= MaxDistance}

\* _detect_version_conflict: two ACTIVE versions of one policy in the evidence.
Conflicting(evidence) ==
    \E v, w \in versions :
        /\ v # w /\ v.policy = w.policy
        /\ v.status = "ACTIVE" /\ w.status = "ACTIVE"
        /\ {v.id, w.id} \subseteq {c.version : c \in evidence}

Persist(status, cited, retrieved) ==
    results' = results \union {[status |-> status, cited |-> cited, retrieved |-> retrieved]}

\* explain_exception up to the call of the provider.  The scope is all versions or
\* the one asked for.
BeginExplain(r, model, scope) ==
    LET evidence == Relevant(Hits(model, scope))
    IN  /\ Starts(r)
        /\ \/ evidence = {} /\ Persist("INSUFFICIENT_EVIDENCE", {}, {}) /\ UNCHANGED reader
           \/ /\ evidence # {} /\ Conflicting(evidence)
              /\ Persist("CONFLICTING_POLICY", ChunkIds(evidence), evidence)
              /\ UNCHANGED reader
           \/ /\ evidence # {} /\ ~Conflicting(evidence)
              /\ Does(r, [pc |-> "explain", evidence |-> evidence])
              /\ UNCHANGED results
        /\ UNCHANGED <<versions, chunks, ingested>>

\* _validate_and_build: an unknown citation rejects the answer, and support without
\* a citation is none.  A citation is an id: it counts if the chunk was retrieved, though
\* it has been embedded anew since.
Verdict(said, cited, evidence) ==
    IF cited \subseteq ChunkIds(evidence) /\ (said = "SUPPORTED" => cited # {})
    THEN [status |-> said, cited |-> cited]
    ELSE [status |-> "INSUFFICIENT_EVIDENCE", cited |-> {}]

\* The answer of the model, with citations of any chunk, or its failure.
Explain(r) ==
    LET evidence == reader[r].evidence
    IN  /\ reader[r].pc = "explain"
        /\ \/ Persist("PROVIDER_ERROR", {}, evidence)
           \/ \E said \in Statuses \ {"PROVIDER_ERROR"}, cited \in SUBSET ChunkIds(chunks) :
                 LET verdict == Verdict(said, cited, evidence)
                 IN  Persist(verdict.status, verdict.cited, evidence)
        /\ Does(r, Absent)
        /\ UNCHANGED <<versions, chunks, ingested, reads>>

PolicyNext ==
    \/ \E p \in Policies, l \in Labels, s \in VersionStatuses, h \in DOMAIN Sources \union {NoSource} :
          CreateVersion(p, l, s, h)
    \/ \E v \in versions, c \in Passages, i \in 0..1 : AddChunk(v.id, i, c)
    \/ \E r \in Readers, v \in versions : \/ \E s \in DOMAIN Sources : BeginIngest(r, v.id, s)
                                          \/ \E m \in Models : BeginEmbed(r, v.id, m)
    \/ \E r \in Readers, m \in Models :
          \E scope \in {{v.id : v \in versions}} \union {{v.id} : v \in versions} :
             BeginExplain(r, m, scope)
    \/ \E r \in Readers : CommitIngest(r) \/ EmbedNext(r) \/ Explain(r)

PolicySpec == PolicyInit /\ [][PolicyNext]_policyVars

-----------------------------------------------------------------------------
(* Properties.                                                             *)

\* An ingestion that was reported is whole and the only one of its version, whoever
\* adds chunks or ingests another source at the same time.
IngestedIsWhole ==
    /\ PolicyTypeOK
    /\ \A a \in ingested :
        /\ \A b \in ingested : a.version = b.version => a = b
        /\ \E v \in versions : v.id = a.version /\ v.hash = a.source
        /\ \A c \in Parsed(a.version, a.source) :
              \E d \in chunks : d.version = c.version /\ d.index = c.index /\ d.content = c.content

\* Of one record, whatever its vector.
SamePassage(c, d) == Id(c) = Id(d) /\ c.content = d.content

\* "Does not invent precedence": an explanation on record as supported cites what was
\* retrieved, and that was near enough, found with vectors of one model and of no two
\* active versions of one policy; and every passage of it is still in the library,
\* whoever has embedded it anew between the search, the answer and now.
SupportedIsGrounded ==
    \A g \in results : g.status = "SUPPORTED" =>
        /\ g.cited # {} /\ g.cited \subseteq ChunkIds(g.retrieved)
        /\ \A c \in g.retrieved : /\ Distance[c.content] <= MaxDistance
                                 /\ \E d \in chunks : SamePassage(c, d)
        /\ ~\E v, w \in versions : /\ v # w /\ v.policy = w.policy
                                   /\ v.status = "ACTIVE" /\ w.status = "ACTIVE"
                                   /\ {v.id, w.id} \subseteq {c.version : c \in g.retrieved}
        /\ Cardinality({c.vector : c \in g.retrieved}) = 1

=============================================================================
