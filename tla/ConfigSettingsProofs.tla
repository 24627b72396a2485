------------------------- MODULE ConfigSettingsProofs -------------------------
(* What is proved of ConfigSettings, for any number of writers, whatever    *)
(* they ask for, and for documents of any length; and of Reports, whatever  *)
(* the providers list and the log holds.                                    *)
EXTENDS ConfigSettings, Reports, SumLemmas, SequenceTheorems, TLAPS

TypeInv ==
  /\ row \in Row
  /\ pc \in [Writers -> {"idle", "write"}]
  /\ loaded \in [Writers -> Row]
  /\ patch \in [Writers -> Patch]

(* What a writer is about to write is legal in the row it loaded.           *)
Validated == \A w \in Writers : pc[w] = "write" => Legal(Merged(loaded[w], patch[w]))

Asked ==
  sent.provider # Unknown => ValidParameters(
    [provider |-> sent.provider, temperature |-> sent.settings.temperature, top_p |-> sent.settings.top_p])

IInv == TypeInv /\ Validated /\ (~raced => Legal(row)) /\ Asked
-------------------------------------------------------------------------------
(* Helpers                                                                  *)

(* Bounds are intervals from 0.                                             *)
LEMMA BoundsAre ==
  ASSUME NEW p \in {"openai", "anthropic"}, NEW f \in Sampled
  PROVE  \E n \in Nat : Bounds[p][f] = 0 .. n
<1>1. CASE p = "anthropic" /\ f = "temperature"
  BY <1>1 DEF Bounds
<1>2. CASE p = "anthropic" /\ f = "top_p"
  BY <1>2 DEF Bounds
<1>3. CASE p = "openai" /\ f = "temperature"
  BY <1>3 DEF Bounds
<1>4. CASE p = "openai" /\ f = "top_p"
  BY <1>4 DEF Bounds
<1> QED
  BY <1>1, <1>2, <1>3, <1>4 DEF Sampled

(* Clamping leads into the bounds, whatever value was saved.                *)
LEMMA ClampBounds ==
  ASSUME NEW p \in {"openai", "anthropic"}, NEW f \in Sampled, NEW v
  PROVE  Clamp(p, f, v) \in Bounds[p][f] /\ Clamp(p, f, v) # Unset
<1>1. PICK n \in Nat : Bounds[p][f] = 0 .. n
  BY BoundsAre
<1>2. \E m \in Bounds[p][f] : \A k \in Bounds[p][f] : k <= m
  <2>1. n \in 0 .. n /\ \A k \in 0 .. n : k <= n
    OBVIOUS
  <2> QED
    BY <1>1, <2>1
<1>3. Clamp(p, f, v) \in Bounds[p][f]
  BY <1>2 DEF Clamp
<1> QED
  BY <1>1, <1>3, ProviderParametersAssumption

(* What a model is asked with is valid, whatever the row says.              *)
LEMMA SettingsValid ==
  ASSUME NEW c \in Row, c.provider # Unknown
  PROVE  ValidParameters([provider |-> c.provider, temperature |-> SettingsOf(c).temperature,
                          top_p |-> SettingsOf(c).top_p])
<1> DEFINE p == c.provider
           S == [f \in Sampled |-> IF c[f] = Unset THEN Unset ELSE Clamp(p, f, c[f])]
           R == Resolve(p, S)
<1>1. p \in {"openai", "anthropic"}
  BY ConfigSettingsAssumption DEF Row, Providers
<1>2. \A f \in Sampled : S[f] = Unset \/ S[f] \in Bounds[p][f]
  BY <1>1, ClampBounds
<1>3. /\ R.temperature = S["temperature"]
      /\ R.top_p = IF Exclusive(p) /\ S["temperature"] # Unset THEN Unset ELSE S["top_p"]
  BY DEF Resolve, Sampled
<1> HIDE DEF S, R
<1>4. R.temperature # Unset => R.temperature \in Bounds[p]["temperature"]
  BY <1>2, <1>3 DEF Sampled
<1>5. R.top_p # Unset => R.top_p \in Bounds[p]["top_p"]
  BY <1>2, <1>3 DEF Sampled
<1>6. Exclusive(p) => Unset \in {R.temperature, R.top_p}
  BY <1>3
<1> HIDE DEF p
<1>7. ValidParameters([provider |-> p, temperature |-> R.temperature, top_p |-> R.top_p])
  BY <1>4, <1>5, <1>6 DEF ValidParameters, Sampled
<1> QED
  BY <1>7 DEF SettingsOf, p, R, S

(* A row of its columns.                                                    *)
LEMMA RowType ==
  ASSUME NEW old \in Row, NEW now \in Row, NEW new \in Patch
  PROVE  Merged(old, new) \in Row /\ Written(now, old, new) \in Row
BY DEF Row, Patch, Merged, Written, Columns

(* A writer that finds the row it loaded writes what was validated.         *)
LEMMA WrittenMerged ==
  ASSUME NEW old, NEW new
  PROVE  Written(old, old, new) = Merged(old, new)
BY DEF Written, Merged
-------------------------------------------------------------------------------
(* The settings                                                             *)

LEMMA InvariantHolds == Spec => []IInv
<1>1. Init => IInv
  <2> SUFFICES ASSUME Init PROVE IInv
    OBVIOUS
  <2>1. NoPatch \in Patch
    BY DEF NoPatch, Patch, Columns
  <2>2. TypeInv
    BY <2>1 DEF Init, TypeInv
  <2>3. Asked
    <3>1. sent.settings.temperature = Unset /\ sent.settings.top_p = Unset
      BY DEF Init, Sampled
    <3> QED
      BY <3>1 DEF Asked, ValidParameters, Sampled
  <2> QED
    BY <2>2, <2>3 DEF Init, IInv, Validated
<1>2. IInv /\ [Next]_vars => IInv'
  <2> SUFFICES ASSUME IInv, [Next]_vars PROVE IInv'
    OBVIOUS
  <2> USE DEF IInv
  <2>1. ASSUME NEW w \in Writers, BeginUpdate(w) PROVE IInv'
    <3>1. PICK new \in Patches : Accepts(row, new) /\ patch' = [patch EXCEPT ![w] = new]
      BY <2>1 DEF BeginUpdate
    <3>2. new \in Patch
      BY ConfigSettingsAssumption
    <3>3. TypeInv'
      BY <2>1, <3>1, <3>2 DEF BeginUpdate, TypeInv
    <3>4. Validated'
      BY <2>1, <3>1 DEF BeginUpdate, TypeInv, Validated, Accepts
    <3> QED
      BY <2>1, <3>3, <3>4 DEF BeginUpdate, Asked
  <2>2. ASSUME NEW w \in Writers, CommitUpdate(w) PROVE IInv'
    <3>1. row' \in Row
      BY <2>2, RowType DEF CommitUpdate, TypeInv
    <3>2. TypeInv'
      <4>1. NoPatch \in Patch
        BY DEF NoPatch, Patch, Columns
      <4> QED
        BY <2>2, <3>1, <4>1 DEF CommitUpdate, TypeInv
    <3>3. Validated'
      BY <2>2 DEF CommitUpdate, TypeInv, Validated
    <3>4. ~raced' => Legal(row')
      <4> SUFFICES ASSUME row = loaded[w] PROVE Legal(row')
        BY <2>2 DEF CommitUpdate
      <4>1. row' = Merged(row, patch[w])
        BY <2>2, WrittenMerged DEF CommitUpdate
      <4> QED
        BY <2>2, <4>1 DEF CommitUpdate, Validated
    <3> QED
      BY <2>2, <3>2, <3>3, <3>4 DEF CommitUpdate, Asked
  <2>3. CASE Ask
    <3>1. sent' = [provider |-> row.provider, settings |-> SettingsOf(row)]
      BY <2>3 DEF Ask
    <3>2. Asked'
      BY <2>3, <3>1, SettingsValid DEF Ask, Asked, TypeInv
    <3> QED
      BY <2>3, <3>2 DEF Ask, TypeInv, Validated
  <2>4. CASE Index
    BY <2>4 DEF Index, TypeInv, Validated, Asked
  <2>5. CASE UNCHANGED vars
    BY <2>5 DEF vars, TypeInv, Validated, Asked
  <2> QED
    BY <2>1, <2>2, <2>3, <2>4, <2>5 DEF Next
<1> QED
  BY <1>1, <1>2, PTL DEF Spec

(* However many updates overlap, settings that the validation would refuse  *)
(* are left only by one whose row had changed since it was loaded, and no   *)
(* request to a provider carries parameters it would refuse.                *)
THEOREM SettingsLegalHolds == Spec => []SettingsLegal
<1>1. IInv => SettingsLegal
  BY DEF IInv, SettingsLegal, Asked
<1> QED
  BY <1>1, InvariantHolds, PTL
-------------------------------------------------------------------------------
(* The chunks                                                               *)

(* The multiple of s at or before x.                                        *)
LEMMA LastMultiple ==
  ASSUME NEW x \in Nat, NEW s \in Nat \ {0}
  PROVE  \E k \in 0 .. x : k % s = 0 /\ x < k + s
<1> DEFINE q == x \div s
           k == s * q
<1>1. q \in Nat
  OBVIOUS
<1>2. s * q <= x
  OBVIOUS
<1>3. x < s * q + s
  OBVIOUS
<1>4. s * q \in Nat
  BY <1>1
<1> HIDE DEF q
<1>5. (s * q) % s = 0
  <2>1. ASSUME NEW y \in Nat, y = s * q PROVE y % s = 0
    BY <1>1, <2>1, Z3
  <2> QED
    BY <1>4, <2>1
<1> QED
  BY <1>2, <1>3, <1>4, <1>5

ChunksInv ==
  /\ cut.outcome # "endless"
  /\ cut.outcome = "chunks" => cut.length \in Nat /\ \E params :
       /\ ValidChunking(params) /\ params.size \in Nat /\ params.overlap \in Nat
       /\ cut.windows = IF cut.length = 0 THEN {} ELSE Windows(cut.length, params.size, params.overlap)
       /\ cut.length = 0 \/ ~(Cardinality(cut.windows) > MaxChunks)

(* The windows of a document are finitely many and cover it.                *)
LEMMA WindowsCover ==
  ASSUME NEW n \in Nat \ {0}, NEW size \in Nat, NEW overlap \in Nat, overlap < size
  PROVE  /\ IsFiniteSet(Windows(n, size, overlap))
         /\ \A x \in 0 .. n - 1 : \E win \in Windows(n, size, overlap) : win[1] <= x /\ x < win[2]
         /\ \A win \in Windows(n, size, overlap) :
              win[1] < win[2] /\ win[2] <= n /\ win[2] - win[1] <= size
<1> DEFINE starts == {k \in 0 .. n - 1 : k % Step(size, overlap) = 0}
           at(k) == <<k, Lesser(k + size, n)>>
           W == {at(k) : k \in starts}
<1>1. W = Windows(n, size, overlap)
  BY DEF Windows
<1>2. IsFiniteSet(W)
  <2>1. IsFiniteSet(starts)
    <3>1. IsFiniteSet(0 .. n - 1)
      BY FS_Interval
    <3> QED
      BY <3>1, FS_Subset
  <2> DEFINE f == [k \in starts |-> at(k)]
  <2>2. f \in Surjection(starts, W)
    <3> HIDE DEF starts, at
    <3> QED
      BY DEF Surjection
  <2> QED
    BY <2>1, <2>2, FS_Surjection
<1>3. ASSUME NEW x \in 0 .. n - 1 PROVE \E win \in W : win[1] <= x /\ x < win[2]
  <2>1. Step(size, overlap) \in Nat \ {0} /\ Step(size, overlap) <= size
    BY DEF Step
  <2>2. PICK k \in 0 .. x : k % Step(size, overlap) = 0 /\ x < k + Step(size, overlap)
    <3>1. x \in Nat
      OBVIOUS
    <3> QED
      BY <2>1, <3>1, LastMultiple, Zenon
  <2>3. k \in starts
    BY <2>2
  <2>4. at(k)[1] = k /\ at(k)[2] = Lesser(k + size, n)
    OBVIOUS
  <2>5. k <= x /\ x < Lesser(k + size, n)
    BY <2>1, <2>2 DEF Lesser
  <2> QED
    BY <2>3, <2>4, <2>5
<1>4. ASSUME NEW k \in starts
      PROVE  at(k)[1] < at(k)[2] /\ at(k)[2] <= n /\ at(k)[2] - at(k)[1] <= size
  BY DEF Lesser
<1> QED
  BY <1>1, <1>2, <1>3, <1>4

(* Whatever updates made of the params, cutting a document ends, and the    *)
(* chunks cover its body, none empty or too long, and none too many.        *)
THEOREM ChunksCoverHolds == Spec => []ChunksCover
<1>1. Init => ChunksInv
  BY DEF Init, Nothing, ChunksInv
<1>2. ChunksInv /\ [Next]_vars /\ TypeInv => ChunksInv'
  <2> SUFFICES ASSUME ChunksInv, [Next]_vars, TypeInv PROVE ChunksInv'
    OBVIOUS
  <2>1. CASE UNCHANGED cut
    BY <2>1 DEF ChunksInv
  <2>2. CASE Index
    <3>1. PICK n \in Lengths :
            cut' = IF Checked(row.params)
                   THEN [outcome |-> Cut(n, row.params).outcome, windows |-> Cut(n, row.params).windows, length |-> n]
                   ELSE [outcome |-> "error", windows |-> {}, length |-> n]
      BY <2>2 DEF Index
    <3>2. n \in Nat
      BY ConfigSettingsAssumption
    <3>3. CASE ~Checked(row.params)
      BY <3>1, <3>3 DEF ChunksInv
    <3>4. CASE Checked(row.params)
      <4>1. ValidChunking(row.params) /\ row.params.size \in Nat /\ row.params.overlap \in Nat
        BY <3>4, ConfigSettingsAssumption DEF Checked, ValidChunking, TypeInv, Row
      <4>2. row.params.strategy = "fixed_size" /\ ~(Step(row.params.size, row.params.overlap) <= 0)
        BY <4>1 DEF ValidChunking, Step
      <4>3. /\ cut'.outcome = Cut(n, row.params).outcome /\ cut'.windows = Cut(n, row.params).windows
            /\ cut'.length = n
        BY <3>1, <3>4
      <4>4. CASE n = 0
        BY <4>1, <4>2, <4>3, <4>4 DEF Cut, ChunksInv
      <4>5. CASE n > 0
        <5> DEFINE W == Windows(n, row.params.size, row.params.overlap)
        <5>1. CASE Cardinality(W) > MaxChunks
          BY <4>2, <4>3, <4>5, <5>1 DEF Cut, ChunksInv
        <5>2. CASE ~(Cardinality(W) > MaxChunks)
          <6>1. cut'.outcome = "chunks" /\ cut'.windows = W /\ cut'.length = n /\ n # 0
            BY <3>2, <4>2, <4>3, <4>5, <5>2 DEF Cut
          <6> HIDE DEF W
          <6>2. cut'.windows = IF cut'.length = 0 THEN {} ELSE Windows(cut'.length, row.params.size, row.params.overlap)
            BY <6>1 DEF W
          <6> QED
            BY <3>2, <4>1, <5>2, <6>1, <6>2 DEF ChunksInv
        <5> QED
          BY <5>1, <5>2
      <4> QED
        BY <3>2, <4>4, <4>5
    <3> QED
      BY <3>3, <3>4
  <2> QED
    BY <2>1, <2>2 DEF Next, BeginUpdate, CommitUpdate, Ask, vars
<1>3. ChunksInv => ChunksCover
  <2> SUFFICES ASSUME ChunksInv, cut.outcome = "chunks"
               PROVE  /\ \A x \in 0 .. cut.length - 1 : \E win \in cut.windows : win[1] <= x /\ x < win[2]
                      /\ \A win \in cut.windows :
                           win[1] < win[2] /\ win[2] <= cut.length /\ win[2] - win[1] <= MaxSize
                      /\ Cardinality(cut.windows) <= MaxChunks
    BY DEF ChunksInv, ChunksCover
  <2>1. PICK params :
          /\ ValidChunking(params) /\ params.size \in Nat /\ params.overlap \in Nat
          /\ cut.windows = IF cut.length = 0 THEN {} ELSE Windows(cut.length, params.size, params.overlap)
          /\ cut.length = 0 \/ ~(Cardinality(cut.windows) > MaxChunks)
    BY DEF ChunksInv
  <2>2. CASE cut.length = 0
    BY <2>1, <2>2, FS_EmptySet, ChunkingAssumption
  <2>3. CASE cut.length # 0
    <3>1. cut.length \in Nat \ {0}
      BY <2>3 DEF ChunksInv
    <3>2. params.overlap < params.size /\ params.size <= MaxSize
      BY <2>1, ProviderParametersAssumption DEF ValidChunking
    <3>3. /\ IsFiniteSet(cut.windows)
          /\ \A x \in 0 .. cut.length - 1 : \E win \in cut.windows : win[1] <= x /\ x < win[2]
          /\ \A win \in cut.windows :
               win[1] < win[2] /\ win[2] <= cut.length /\ win[2] - win[1] <= params.size
      BY <2>1, <3>1, <3>2, WindowsCover
    <3>4. Cardinality(cut.windows) \in Nat
      BY <3>3, FS_CardinalityType
    <3>5. \A win \in cut.windows : win[2] - win[1] <= MaxSize
      <4> SUFFICES ASSUME NEW win \in cut.windows PROVE win[2] - win[1] <= MaxSize
        OBVIOUS
      <4>1. PICK k \in 0 .. cut.length - 1 : win = <<k, Lesser(k + params.size, cut.length)>>
        BY <2>1, <3>1 DEF Windows
      <4>2. win[1] = k /\ win[2] = Lesser(k + params.size, cut.length)
        BY <4>1
      <4>3. win[2] <= k + params.size /\ win[2] \in Int
        BY <2>1, <3>1, <4>2 DEF Lesser
      <4> QED
        BY <2>1, <3>2, <4>2, <4>3, ProviderParametersAssumption
    <3> QED
      BY <2>1, <2>3, <3>3, <3>4, <3>5, ChunkingAssumption
  <2> QED
    BY <2>2, <2>3
<1>4. IInv => TypeInv
  BY DEF IInv
<1> QED
  BY <1>1, <1>2, <1>3, <1>4, InvariantHolds, PTL DEF Spec
-------------------------------------------------------------------------------
(* Reports: the drift of a catalog                                          *)

(* The events of a comparison are those of its difference, wherever they    *)
(* are, and no provider is lost.                                            *)
DriftInv ==
  /\ unchecked \cup failed \cup checked = Adapters
  /\ drift = [pages |-> drift.pages, curated |-> drift.curated,
              unsent |-> drift.unsent, told |-> drift.told, swallowed |-> drift.swallowed]
  /\ drift.pages \in Seq(Page)
  /\ \E diff \in Diffs(drift.curated, Fetched(drift.pages)) :
       drift.unsent \cup drift.told \cup drift.swallowed = Published(diff)

LEMMA NoDriftIsExact ==
  /\ <<>> \in Seq(Page)
  /\ \E diff \in Diffs({}, Fetched(<<>>)) : Published(diff) = {}
<1>1. Fetched(<<>>) = {}
  BY DEF Fetched, Read
<1> DEFINE diff == [added |-> {}, removed |-> {}, newer |-> NoModel]
<1>2. diff \in Diffs({}, {})
  BY DEF Diffs, Ids
<1>3. Published(diff) = {}
  BY DEF Published
<1>4. <<>> \in Seq(Page)
  OBVIOUS
<1> HIDE DEF diff
<1>5. \E d \in Diffs({}, Fetched(<<>>)) : Published(d) = {}
  BY <1>1, <1>2, <1>3
<1> QED
  BY <1>4, <1>5

LEMMA DriftInvStep ==
  ASSUME DriftInv, CheckCatalogs
  PROVE  DriftInv'
<1>1. ASSUME NEW p \in Adapters, FetchFails(p)
      PROVE  DriftInv'
  BY <1>1 DEF FetchFails, Reaches, DriftInv
<1>2. ASSUME NEW p \in Adapters, Compare(p)
      PROVE  DriftInv'
  <2>0. PICK pages \in Listings, curated \in SUBSET InScope :
          \E diff \in Diffs(curated, Fetched(pages)) :
            drift' = [pages |-> pages, curated |-> curated,
                      unsent |-> Published(diff), told |-> {}, swallowed |-> {}]
    BY <1>2 DEF Compare
  <2>1. PICK diff \in Diffs(curated, Fetched(pages)) :
          drift' = [pages |-> pages, curated |-> curated,
                    unsent |-> Published(diff), told |-> {}, swallowed |-> {}]
    BY <2>0
  <2>2. pages \in Seq(Page)
    BY ReportsAssumption
  <2>3. /\ drift' = [pages |-> drift'.pages, curated |-> drift'.curated,
                     unsent |-> drift'.unsent, told |-> drift'.told, swallowed |-> drift'.swallowed]
        /\ drift'.pages = pages /\ drift'.curated = curated
        /\ drift'.unsent \cup drift'.told \cup drift'.swallowed = Published(diff)
    BY <2>1
  <2>4. unchecked' \cup failed' \cup checked' = Adapters
    BY <1>2 DEF Compare, Reaches, DriftInv
  <2> QED
    BY <2>2, <2>3, <2>4 DEF DriftInv
<1>3. CASE Publish
  <2>1. PICK e \in drift.unsent :
          \/ drift' = [drift EXCEPT !.unsent = @ \ {e}, !.told = @ \cup {e}]
          \/ drift' = [drift EXCEPT !.unsent = @ \ {e}, !.swallowed = @ \cup {e}]
    BY <1>3 DEF Publish
  <2>2. /\ drift' = [pages |-> drift'.pages, curated |-> drift'.curated,
                     unsent |-> drift'.unsent, told |-> drift'.told, swallowed |-> drift'.swallowed]
        /\ drift'.pages = drift.pages /\ drift'.curated = drift.curated
        /\ drift'.unsent \cup drift'.told \cup drift'.swallowed = drift.unsent \cup drift.told \cup drift.swallowed
    BY <2>1 DEF DriftInv
  <2> QED
    BY <1>3, <2>2 DEF Publish, DriftInv
<1>4. CASE CheckAgain
  <2>1. /\ drift' = [pages |-> drift'.pages, curated |-> drift'.curated,
                     unsent |-> drift'.unsent, told |-> drift'.told, swallowed |-> drift'.swallowed]
        /\ drift'.pages = <<>> /\ drift'.curated = {} /\ drift'.unsent \cup drift'.told \cup drift'.swallowed = {}
        /\ unchecked' \cup failed' \cup checked' = Adapters
    BY <1>4 DEF CheckAgain, NoDrift
  <2> QED
    BY <2>1, NoDriftIsExact DEF DriftInv
<1> QED
  BY <1>1, <1>2, <1>3, <1>4 DEF CheckCatalogs

LEMMA DriftIsExact ==
  ASSUME DriftInv
  PROVE  DriftExact
<1> DEFINE pages == drift.pages
           curated == drift.curated
           scope == {m \in Fetched(pages) : m.id \in InScope}
           known == {m \in scope : m.id \in curated}
           arrived == {m \in scope : m.id \notin curated /\ \A k \in scope : k.id \in curated => k.created < m.created}
<1>1. PICK diff \in Diffs(curated, Fetched(pages)) :
        drift.unsent \cup drift.told \cup drift.swallowed = Published(diff)
  BY DEF DriftInv
<1>2. PICK newer \in IF scope = {} THEN {NoModel}
                     ELSE {IF Newer(m, known) THEN m.id ELSE NoModel : m \in Newest(scope)} :
        diff = [added |-> Ids(scope) \ curated, removed |-> curated \ Ids(scope), newer |-> newer]
  BY DEF Diffs
<1>3. scope = {m \in UNION {pages[i].data : i \in DOMAIN pages} :
                 /\ m.id \in InScope
                 /\ \E i \in DOMAIN pages : m \in pages[i].data /\ \A j \in 1 .. i - 1 : pages[j].more}
  BY DEF Fetched, Read
<1>4. \A m \in scope : m \in LiveModel
  <2>1. \A i \in DOMAIN pages : pages[i] \in Page
    BY ElementOfSeq, LenProperties DEF DriftInv
  <2> QED
    BY <2>1 DEF Fetched, Read, Page
<1>5. IF arrived = {} THEN newer = NoModel
      ELSE \E m \in arrived : newer = m.id /\ \A o \in arrived : o.created <= m.created
  <2>1. CASE scope = {}
    BY <1>2, <2>1
  <2>2. CASE scope # {}
    <3>1. PICK m \in scope : (\A o \in scope : o.created <= m.created)
                             /\ newer = IF Newer(m, known) THEN m.id ELSE NoModel
      BY <1>2, <2>2 DEF Newest
    <3>2. CASE Newer(m, known)
      <4>1. m.id \notin curated
        BY <1>4, <3>1, <3>2 DEF Newer, LiveModel
      <4>2. m \in arrived
        BY <1>4, <3>2, <4>1 DEF Newer, LiveModel
      <4>3. \A o \in arrived : o.created <= m.created
        BY <3>1
      <4> QED
        BY <3>1, <3>2, <4>2, <4>3
    <3>3. CASE ~Newer(m, known)
      <4>1. PICK k \in known : ~(m.created > k.created)
        BY <3>3 DEF Newer
      <4>2. \A o \in scope : ~(k.created < o.created)
        BY <1>4, <3>1, <4>1 DEF LiveModel
      <4>3. arrived = {}
        BY <4>2
      <4> QED
        BY <3>1, <3>3, <4>3
    <3> QED
      BY <3>2, <3>3
  <2> QED
    BY <2>1, <2>2
<1> DEFINE change == [added |-> Ids(scope) \ curated, removed |-> curated \ Ids(scope)]
           added == [what |-> "added", ids |-> diff.added, newer |-> diff.newer]
           removed == [what |-> "removed", ids |-> diff.removed, newer |-> NoModel]
<1>6. Published(diff) = {e \in {added, removed} : e.ids # {}}
  BY DEF Published
<1>7. diff.added = change["added"] /\ diff.removed = change["removed"] /\ diff.newer = newer
  BY <1>2
<1>8. /\ added.what = "added" /\ added.ids = change["added"] /\ added.newer = newer
      /\ removed.what = "removed" /\ removed.ids = change["removed"]
  BY <1>7
<1> HIDE DEF scope, arrived, change, added, removed
<1>9. \A e \in drift.told :
        /\ e.ids = change[e.what]
        /\ e.what = "added" =>
             IF arrived = {} THEN e.newer = NoModel
             ELSE \E m \in arrived : e.newer = m.id /\ \A o \in arrived : o.created <= m.created
  <2> SUFFICES ASSUME NEW e \in drift.told
               PROVE  /\ e.ids = change[e.what]
                      /\ e.what = "added" => e.newer = newer
    BY <1>5
  <2>1. e = added \/ e = removed
    BY <1>1, <1>6
  <2> QED
    BY <1>8, <2>1
<1>10. ASSUME drift.unsent = {}, NEW what \in {"added", "removed"}, change[what] # {}
       PROVE  \E e \in drift.told \cup drift.swallowed : e.what = what
  BY <1>1, <1>6, <1>8, <1>10
<1>11. unchecked \cup failed \cup checked = Adapters
  BY DEF DriftInv
<1> QED
  BY <1>3, <1>9, <1>10, <1>11 DEF DriftExact, arrived, change
-------------------------------------------------------------------------------
(* Reports: costs                                                           *)

(* A tick is in the day between its first tick and that of the day after.   *)
LEMMA DayOf ==
  ASSUME NEW a \in Nat, NEW d \in Nat
  PROVE  (a >= d * TicksPerDay <=> a \div TicksPerDay >= d) /\ (a < Cutoff(d) <=> a \div TicksPerDay <= d)
<1> DEFINE q == a \div TicksPerDay
           t == TicksPerDay
<1>1. t \in Nat /\ t > 0
  BY ReportsAssumption
<1>2. q \in Nat /\ q * t <= a /\ a < (q + 1) * t
  BY <1>1, Z3
<1>3. \A m, n \in Nat : m <= n => m * t <= n * t
  BY <1>1
<1> QED
  <2> HIDE DEF q, t
  <2>1. d * t \in Nat /\ (d + 1) * t \in Nat /\ q * t \in Nat /\ (q + 1) * t \in Nat
    BY <1>1, <1>2
  <2>2. (d <= q => d * t <= q * t) /\ (q + 1 <= d => (q + 1) * t <= d * t)
    BY <1>2, <1>3
  <2>3. (d + 1 <= q => (d + 1) * t <= q * t) /\ (q <= d => (q + 1) * t <= (d + 1) * t)
    BY <1>2, <1>3
  <2>4. (a >= d * t <=> q >= d) /\ (a < (d + 1) * t <=> q <= d)
    BY <1>2, <2>1, <2>2, <2>3
  <2> QED
    BY <2>4 DEF q, t, Cutoff

LEMMA CostsExact ==
  ASSUME NEW log \in Logs, NEW dim \in Dimensions, NEW start \in Dates, NEW end \in Dates,
         NEW limit \in Limits, NEW told \in Summaries(log, dim, start, end, limit)
  PROVE  AddsUp([about |-> "costs", log |-> log, dim |-> dim, start |-> start, end |-> end,
                 limit |-> limit, items |-> told])
<1> DEFINE found == Within(log, start, end)
           groups == Groups(found, dim)
           day(r) == r.at \div TicksPerDay
           meant == {r \in log : /\ start # NoDate => day(r) >= start
                                 /\ end # NoDate => day(r) <= end}
<1>2. PICK S \in Listed(found, dim, limit) : told = [g \in S |-> TotalOf(found, dim, g)]
  BY DEF Summaries
<1> DEFINE items == [g \in S |-> TotalOf(found, dim, g)]
<1>3. meant = found
  <2>1. \A r \in log : r.at \in Nat
    BY ReportsAssumption
  <2>2. (start # NoDate => start \in Nat) /\ (end # NoDate => end \in Nat)
    BY ReportsAssumption DEF Dates
  <2> QED
    BY <2>1, <2>2, DayOf DEF Within
<1>4. IsFiniteSet(found) /\ \A r \in found : r.cost \in Nat
  <2>1. IsFiniteSet(log) /\ \A r \in log : r.cost \in Nat
    BY ReportsAssumption
  <2> QED
    BY <2>1, FS_Subset DEF Within
<1>5. IsFiniteSet(groups)
  <2> DEFINE class == [r \in found |-> r[dim]]
  <2>1. class \in Surjection(found, groups)
    BY DEF Groups, Surjection
  <2> QED
    <3> HIDE DEF class, found, groups
    <3> QED
      BY <1>4, <2>1, FS_Surjection
<1>6. ASSUME Cardinality(S) < limit
      PROVE  S = groups
  <2>1. /\ S \in SUBSET groups
        /\ Cardinality(S) = IF Cardinality(groups) < limit THEN Cardinality(groups) ELSE limit
    BY DEF Listed
  <2>2. Cardinality(S) = Cardinality(groups)
    BY <1>6, <2>1, ReportsAssumption
  <2> QED
    <3> HIDE DEF groups
    <3> QED
      BY <1>5, <2>1, <2>2, FS_Subset
<1>7. ASSUME S = groups
      PROVE  MapThenSumSet(LAMBDA g : items[g], S) = MapThenSumSet(LAMBDA r : r.cost, found)
  <2> DEFINE f == Costs(found)
             class == [r \in found |-> r[dim]]
  <2>1. MapThenSumSet(LAMBDA g : items[g], S) = Total(items, S)
    BY DEF Total
  <2>2. MapThenSumSet(LAMBDA r : r.cost, found) = Total(f, found)
    BY <1>4, CostIsTotal
  <2>3. (\A r \in found : f[r] \in Nat) /\ (\A r \in found : class[r] \in groups)
    BY <1>4 DEF Costs, Groups
  <2>4. ASSUME NEW g \in groups
        PROVE  items[g] = Total(f, Part(found, class, g))
    <3>1. Part(found, class, g) = {r \in found : r[dim] = g}
      BY DEF Part
    <3>2. items[g] = MapThenSumSet(LAMBDA r : r.cost, {r \in found : r[dim] = g})
      BY <1>7, <2>4 DEF TotalOf
    <3> QED
      BY <1>4, <3>1, <3>2, CostIsTotal
  <2>5. Total(items, groups) = Total(f, found)
    <3>1. \A g \in groups : items[g] = Total(f, Part(found, class, g))
      BY <2>4
    <3> HIDE DEF items, f, class, groups, found
    <3> QED
      BY <1>4, <1>5, <2>3, <3>1, TotalOfParts
  <2> QED
    BY <1>7, <2>1, <2>2, <2>5
<1>8. MapThenSumSet(LAMBDA g : told[g], DOMAIN told) = MapThenSumSet(LAMBDA g : items[g], S)
  <2>1. MapThenSumSet(LAMBDA g : told[g], DOMAIN told) = Total(told, DOMAIN told)
    BY DEF Total
  <2>2. MapThenSumSet(LAMBDA g : items[g], S) = Total(items, S)
    BY DEF Total
  <2> QED
    BY <1>2, <2>1, <2>2
<1>9. \A g \in DOMAIN told : told[g] = TotalOf(meant, dim, g)
  BY <1>2, <1>3
<1>10. ASSUME Cardinality(DOMAIN told) < limit
       PROVE  MapThenSumSet(LAMBDA g : told[g], DOMAIN told) = MapThenSumSet(LAMBDA r : r.cost, meant)
  <2>1. DOMAIN told = S
    BY <1>2
  <2> HIDE DEF meant, found, groups, items
  <2> QED
    BY <1>3, <1>6, <1>7, <1>8, <1>10, <2>1
<1> QED
  BY <1>9, <1>10 DEF AddsUp

(* What operators are told is right, whatever is listed and logged and      *)
(* whatever cannot be fetched or published: of each provider exactly the    *)
(* difference to what is curated, but for events that were swallowed, and   *)
(* of each log the totals of exactly the days asked for, which add up.      *)
THEOREM ReportsExactHolds == ReportsSpec => []ReportsExact
<1> DEFINE RInv == DriftInv /\ CostsAddUp
<1>1. ReportsInit => RInv
  BY NoDriftIsExact DEF ReportsInit, NoReport, NoDrift, DriftInv, CostsAddUp
<1>2. RInv /\ [ReportsNext]_<<checkVars, report>> => RInv'
  <2> SUFFICES ASSUME RInv, [ReportsNext]_<<checkVars, report>> PROVE RInv'
    OBVIOUS
  <2>1. CASE CheckCatalogs
    <3>1. report' = report
      BY <2>1 DEF CheckCatalogs, FetchFails, Compare, Publish, CheckAgain
    <3> QED
      BY <2>1, <3>1, DriftInvStep DEF CostsAddUp
  <2>2. CASE SummarizeCosts
    <3>1. report'.about = "costs" /\ AddsUp(report')
      BY <2>2, CostsExact DEF SummarizeCosts
    <3> QED
      BY <2>2, <3>1 DEF SummarizeCosts, checkVars, DriftInv, CostsAddUp
  <2>3. CASE UNCHANGED <<checkVars, report>>
    BY <2>3 DEF checkVars, DriftInv, CostsAddUp
  <2> QED
    BY <2>1, <2>2, <2>3 DEF ReportsNext
<1>3. RInv => ReportsExact
  BY DriftIsExact DEF ReportsExact
<1> QED
  BY <1>1, <1>2, <1>3, PTL DEF ReportsSpec
===============================================================================
