-------------------------- MODULE KnowledgeChunks --------------------------
(***************************************************************************)
(* What the knowledge base is made of: documents, the chunk rows the       *)
(* indexing task writes for them, and the generation of chunks one run of  *)
(* the task produces.  Shared by the abstract index (DocumentIndex) and by *)
(* the detailed one (KnowledgeIndex).                                      *)
(***************************************************************************)
EXTENDS Integers, FiniteSets

CONSTANTS
  Docs,      (* knowledge_documents ids; UUIDs, so an id is never reused      *)
  Contents,  (* document bodies, after split_frontmatter                      *)
  Configs,   (* model_configs rows with config_type = "embedding"             *)
  NoConfig,  (* get_default_for_type("embedding") found no row                *)
  Jobs,      (* index_knowledge_document_task invocations, one per delay()    *)
  Pieces     (* Pieces[c][k]: how many chunks chunk_text makes of body c      *)
             (* under the chunk_size and chunk_overlap of config k            *)

ASSUME ChunksAssumption ==
  /\ Pieces \in [Contents -> [Configs -> Nat]]
  /\ NoConfig \notin Configs

(* A row of knowledge_chunks.  The job that wrote it is not a column; it   *)
(* stands for the identity of the row (every insert gets a fresh UUID).    *)
Chunk == [job : Jobs, doc : Docs, content : Contents, config : Configs, index : Nat]

(* The rows one successful run of the task writes: one per chunk, numbered *)
(* from 0, all tagged with the config the embeddings came from.            *)
Generation(j, d, c, k) ==
  {[job |-> j, doc |-> d, content |-> c, config |-> k, index |-> i] :
      i \in 0 .. Pieces[c][k] - 1}
=============================================================================
