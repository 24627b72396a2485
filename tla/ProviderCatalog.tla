--------------------------- MODULE ProviderCatalog ----------------------------
(* The weekly check of the models a provider lists against those the        *)
(* adapter curates: what it tells its subscribers.                          *)
EXTENDS Naturals, Sequences, FiniteSets

CONSTANTS
  ModelIds,
  InScope,       (* ids with a prefix of the provider's chat models         *)
  NoModel

LiveModel == [id : ModelIds, created : Nat]

(* A page of a listing; OpenAI's has only one.                              *)
Page == [data : SUBSET LiveModel, more : BOOLEAN]

(* fetch_live_model_ids: the pages up to the first that says it is the last. *)
Read(pages) == {i \in DOMAIN pages : \A j \in 1 .. i - 1 : pages[j].more}

Fetched(pages) == UNION {pages[i].data : i \in Read(pages)}

Ids(models) == {m.id : m \in models}

Newest(models) == {m \in models : \A o \in models : o.created <= m.created}

(* Faulty: a model as old as a curated one counts as newer.                 *)
AtLeastAsNew(m, known) == \A k \in known : m.created >= k.created

Newer(m, known) == \A k \in known : m.created > k.created

(* diff_provider_models.  Of models equally new the first listed is taken:  *)
(* any may be it.                                                           *)
Diffs(curated, live) ==
  LET scope == {m \in live : m.id \in InScope}
      known == {m \in scope : m.id \in curated}
  IN {[added |-> Ids(scope) \ curated, removed |-> curated \ Ids(scope), newer |-> newer] :
        newer \in IF scope = {} THEN {NoModel}
                  ELSE {IF Newer(m, known) THEN m.id ELSE NoModel : m \in Newest(scope)}}

(* _check_adapter: an event for what is there to tell, none for nothing;    *)
(* the newer model travels with the added ones.                             *)
Published(diff) ==
  {e \in {[what |-> "added", ids |-> diff.added, newer |-> diff.newer],
          [what |-> "removed", ids |-> diff.removed, newer |-> NoModel]} : e.ids # {}}
===============================================================================
