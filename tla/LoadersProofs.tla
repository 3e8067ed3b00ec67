--------------------------- MODULE LoadersProofs ---------------------------
(***************************************************************************)
(* Proofs about Loaders for every set of requests, jobs, keys, columns and *)
(* pages, and every bound.                                                 *)
(***************************************************************************)
EXTENDS Loaders, TLAPS

-----------------------------------------------------------------------------
(* Pages.  What a loader cuts is the slice its caller asked for, for every  *)
(* list of rows and all sizes.                                              *)

\* What merging makes of legal arguments is a legal Paged.
LEMMA MergeIsPaged ==
  ASSUME NEW default, NEW raw, IsPaged(default), IsRaw(raw)
  PROVE  IsPaged(MergePaged(default, FromDict(raw)))
<1> DEFINE caller == FromDict(raw)
           p == MergePaged(default, caller)
<1>1. /\ p.limit = IF caller.limit = {} THEN default.limit ELSE caller.limit
      /\ p.offset = IF caller.offset = {} THEN default.offset ELSE Value(caller.offset)
  BY DEF MergePaged
<1>2. /\ caller.limit = raw.limit \ {Stray}
      /\ caller.offset = raw.offset \ {Stray}
  BY DEF FromDict
<1>3. p.limit \subseteq Nat /\ AtMostOne(p.limit)
  BY <1>1, <1>2, PagingAssumption DEF IsPaged, IsRaw, AtMostOne
<1>4. caller.offset # {} => Value(caller.offset) \in caller.offset
  BY DEF Value
<1>5. p.offset \in Nat
  BY <1>1, <1>2, <1>4 DEF IsPaged, IsRaw
<1> QED BY <1>3, <1>5 DEF IsPaged

\* The merged limit and offset are those asked for: the caller's value where
\* there is one, zero included.
LEMMA MergeIsAsked ==
  ASSUME NEW default, NEW raw, IsPaged(default), IsRaw(raw)
  PROVE  LET p == MergePaged(default, FromDict(raw))
         IN /\ EffectiveLimit(p) = LimitAsked(default, raw)
            /\ p.offset = OffsetAsked(default, raw)
<1> DEFINE p == MergePaged(default, FromDict(raw))
           given(o) == {v \in o : v # Stray}
<1>1. given(raw.limit) = raw.limit \ {Stray} /\ given(raw.offset) = raw.offset \ {Stray}
  OBVIOUS
<1>2. /\ p.limit = IF given(raw.limit) = {} THEN default.limit ELSE given(raw.limit)
      /\ p.offset = IF given(raw.offset) = {} THEN default.offset ELSE Value(given(raw.offset))
  BY <1>1 DEF MergePaged, FromDict
<1>3. EffectiveLimit(p) = LimitAsked(default, raw)
  <2>1. CASE given(raw.limit) # {}
    BY <1>2, <2>1 DEF EffectiveLimit, LimitAsked
  <2>2. CASE given(raw.limit) = {} /\ default.limit # {}
    BY <1>2, <2>2 DEF EffectiveLimit, LimitAsked
  <2>3. CASE given(raw.limit) = {} /\ default.limit = {}
    BY <1>2, <2>3 DEF EffectiveLimit, LimitAsked
  <2> QED BY <2>1, <2>2, <2>3
<1>4. p.offset = OffsetAsked(default, raw)
  BY <1>2 DEF OffsetAsked
<1> QED BY <1>3, <1>4

\* No limit a caller gives exceeds the maximum.
LEMMA LimitType ==
  ASSUME NEW p, IsPaged(p)
  PROVE  /\ EffectiveLimit(p) \in Nat
         /\ p.limit # {} => EffectiveLimit(p) <= MaxPageSize
<1>1. p.limit # {} => Value(p.limit) \in Nat
  BY DEF Value, IsPaged
<1> QED BY <1>1, PagingAssumption DEF EffectiveLimit, Smaller

\* Clamping before the wire changes nothing a member with the same bound
\* would not: the limit in force is the same, and clamping again is idle.
LEMMA ClampKeepsPage ==
  ASSUME NEW p, IsPaged(p)
  PROVE  /\ IsPaged(Clamp(p))
         /\ EffectiveLimit(Clamp(p)) = EffectiveLimit(p)
         /\ Clamp(p).offset = p.offset
         /\ Clamp(Clamp(p)) = Clamp(p)
<1> DEFINE c == Clamp(p)
<1>1. c.limit = {Smaller(v, MaxPageSize) : v \in p.limit} /\ c.offset = p.offset
  BY DEF Clamp
<1>2. CASE p.limit = {}
  <2>1. c.limit = {} /\ c = [limit |-> {}, offset |-> p.offset]
    BY <1>1, <1>2 DEF Clamp
  <2> QED BY <2>1, <1>1, <1>2 DEF EffectiveLimit, IsPaged, AtMostOne, Clamp
<1>3. CASE p.limit # {}
  <2>1. PICK v \in Nat : p.limit = {v}
    BY <1>3 DEF IsPaged, AtMostOne
  <2>2. c.limit = {Smaller(v, MaxPageSize)}
    BY <1>1, <2>1
  <2>3. Smaller(v, MaxPageSize) \in Nat
        /\ Smaller(Smaller(v, MaxPageSize), MaxPageSize) = Smaller(v, MaxPageSize)
    BY PagingAssumption DEF Smaller
  <2>4. Value(p.limit) = v /\ Value(c.limit) = Smaller(v, MaxPageSize)
    BY <2>1, <2>2 DEF Value
  <2>5. EffectiveLimit(c) = EffectiveLimit(p)
    BY <2>1, <2>2, <2>3, <2>4 DEF EffectiveLimit
  <2>6. IsPaged(c)
    BY <1>1, <2>2, <2>3 DEF IsPaged, AtMostOne
  <2>7. Clamp(c).limit = c.limit
    BY <2>2, <2>3 DEF Clamp
  <2>8. Clamp(c) = c
    BY <2>7, <1>1 DEF Clamp
  <2> QED BY <2>5, <2>6, <2>8, <1>1
<1> QED BY <1>2, <1>3

\* The window read with one row too many and cut back is the slice, and is
\* longer than the limit exactly when rows follow the slice.
LEMMA WindowIsSlice ==
  ASSUME NEW S, NEW all \in Seq(S), NEW p, IsPaged(p)
  PROVE  LET window == Window(p, all)
             limit == EffectiveLimit(p)
         IN /\ SubSeq(window, 1, Smaller(limit, Len(window))) = Slice(all, p.offset, limit)
            /\ Len(window) > limit <=> p.offset + limit < Len(all)
<1> DEFINE limit == EffectiveLimit(p)
           window == Window(p, all)
           last == Smaller(p.offset + 1 + limit, Len(all))
           left == IF p.offset < Len(all) THEN Len(all) - p.offset ELSE 0
           size == Smaller(limit, left)
<1>1. limit \in Nat /\ p.offset \in Nat /\ Len(all) \in Nat
  BY LimitType DEF IsPaged
<1>2. last \in Nat /\ last <= Len(all) /\ left \in Nat /\ size \in Nat
  BY <1>1 DEF Smaller
<1> HIDE DEF limit
<1>3. window = SubSeq(all, p.offset + 1, last)
  BY DEF Window, limit
<1>4. CASE p.offset >= Len(all)
  <2>1. window = << >>
    BY <1>1, <1>2, <1>3, <1>4
  <2>2. size = 0
    BY <1>1, <1>2, <1>4 DEF Smaller
  <2>3. SubSeq(window, 1, Smaller(limit, Len(window))) = << >>
    BY <2>1, <1>1 DEF Smaller
  <2>4. Slice(all, p.offset, limit) = << >>
    BY <2>2 DEF Slice
  <2> QED BY <2>1, <2>3, <2>4, <1>1, <1>4 DEF limit
<1>5. CASE p.offset < Len(all)
  <2>1. p.offset + 1 <= last
    BY <1>1, <1>5 DEF Smaller
  <2>2. /\ Len(window) = last - p.offset
        /\ \A i \in 1 .. last - p.offset : window[i] = all[p.offset + i]
        /\ window \in Seq(S)
    <3> DEFINE first == p.offset + 1
    <3>1. first \in Nat /\ last - first + 1 = last - p.offset /\ last - p.offset \in Nat
      <4> HIDE DEF last
      <4>1. first \in Nat
        BY <1>1
      <4>. QED BY <1>1, <1>2, <2>1, <4>1
    <3>2. \A i \in 1 .. last - p.offset : i + first - 1 = p.offset + i
      BY <1>1, <1>2
    <3>3. window \in Seq(S)
      <4> HIDE DEF last, window
      <4>. QED BY <1>1, <1>2, <1>3
    <3> HIDE DEF first, last, window
    <3>4. window = SubSeq(all, first, last)
      BY <1>3 DEF first
    <3>5. window = [i \in 1 .. last - first + 1 |-> all[i + first - 1]]
      BY <3>1, <3>4, <1>2
    <3> QED BY <3>1, <3>2, <3>3, <3>5
  <2>3. last - p.offset = Smaller(limit + 1, left)
    BY <1>1, <1>5 DEF Smaller
  <2>4. Smaller(limit, Len(window)) = size
    BY <1>1, <1>2, <1>5, <2>2, <2>3 DEF Smaller
  <2>5. size <= Len(window)
    BY <1>1, <1>2, <2>2, <2>3 DEF Smaller
  <2>6. SubSeq(window, 1, size) = [i \in 1 .. size |-> all[p.offset + i]]
    <3> HIDE DEF size, window
    <3>1. SubSeq(window, 1, size) = [i \in 1 .. size - 1 + 1 |-> window[i + 1 - 1]]
      BY <1>2, <2>2
    <3>2. size - 1 + 1 = size
      BY <1>2
    <3>3. \A i \in 1 .. size : window[i + 1 - 1] = all[p.offset + i]
      BY <1>2, <2>2, <2>5
    <3> QED BY <3>1, <3>2, <3>3
  <2>7. Len(window) > limit <=> p.offset + limit < Len(all)
    BY <1>1, <1>2, <1>5, <2>2, <2>3 DEF Smaller
  <2> QED BY <2>4, <2>6, <2>7 DEF Slice, limit
<1> QED BY <1>1, <1>4, <1>5

\* A local page loader returns the page its caller asked for.
THEOREM LocalPageIsAsked ==
  ASSUME NEW S, NEW all \in Seq(S), NEW default, NEW raw,
         IsPaged(default), IsRaw(raw)
  PROVE  LocalPage(MergePaged(default, FromDict(raw)), all) = PageAsked(default, raw, all)
<1> DEFINE p == MergePaged(default, FromDict(raw))
<1>1. IsPaged(p)
  BY MergeIsPaged
<1>2. EffectiveLimit(p) = LimitAsked(default, raw) /\ p.offset = OffsetAsked(default, raw)
  BY MergeIsAsked
<1> HIDE DEF p
<1> DEFINE window == Window(p, all)
           limit == EffectiveLimit(p)
<1>3. (Len(window) > limit) = (OffsetAsked(default, raw) + LimitAsked(default, raw) < Len(all))
  BY <1>1, <1>2, WindowIsSlice
<1>4. SubSeq(window, 1, Smaller(limit, Len(window)))
        = Slice(all, OffsetAsked(default, raw), LimitAsked(default, raw))
  BY <1>1, <1>2, WindowIsSlice
<1>5. LocalPage(p, all) = PageAsked(default, raw, all)
  BY <1>3, <1>4 DEF LocalPage, PageAsked, TotalCount
<1> QED BY <1>5 DEF p

\* So does a member asked for it with clamped arguments.
THEOREM RemotePageIsAsked ==
  ASSUME NEW S, NEW all \in Seq(S), NEW default, NEW raw,
         IsPaged(default), IsRaw(raw)
  PROVE  RemotePage(MergePaged(default, FromDict(raw)), all) = RemotePageAsked(default, raw, all)
<1> DEFINE p == MergePaged(default, FromDict(raw))
           c == Clamp(p)
<1>1. IsPaged(p)
  BY MergeIsPaged
<1>2. EffectiveLimit(p) = LimitAsked(default, raw) /\ p.offset = OffsetAsked(default, raw)
  BY MergeIsAsked
<1> HIDE DEF p
<1>3. IsPaged(c) /\ EffectiveLimit(c) = EffectiveLimit(p) /\ c.offset = p.offset
  BY <1>1, ClampKeepsPage
<1> HIDE DEF c
<1>4. RemotePage(p, all) = RootPage(c, all)
  BY DEF RemotePage, c
<1> QED BY <1>2, <1>3, <1>4, WindowIsSlice DEF RootPage, RemotePageAsked, TotalCount, p

-----------------------------------------------------------------------------
(* Lemmas about what a job asks for.                                       *)

\* The columns a job keeps are columns, and its type key is at most one set.
LEMMA JobColumns ==
  ASSUME NEW j \in Jobs
  PROVE  /\ j \in JobType
         /\ SqlColumns(j) \in SUBSET Columns
         /\ Needs(j) \in SUBSET Columns
         /\ TypeKey(j) \in SUBSET (SUBSET Columns)
         /\ ParamsKey(j) \in Pages \cup {NoPage}
<1>1. j \in JobType
  BY LoadersAssumption
<1>2. SqlColumns(j) \in SUBSET Columns
  BY <1>1, LoadersAssumption DEF SqlColumns, JobType
<1>3. j.cols \in SUBSET Columns /\ j.page \in Pages \cup {NoPage}
  BY <1>1 DEF JobType
<1>4. Needs(j) \in SUBSET Columns
  BY <1>2, <1>3 DEF Needs
<1>5. TypeKey(j) \in SUBSET (SUBSET Columns)
  BY <1>2 DEF TypeKey
<1>6. ParamsKey(j) \in Pages \cup {NoPage}
  BY <1>3 DEF ParamsKey
<1>. QED BY <1>1, <1>2, <1>4, <1>5, <1>6

\* A job sends keys of the type the loaders keep.
LEMMA JobKeys ==
  ASSUME NEW j \in Jobs
  PROVE  LoadKeysOf(j) \in SUBSET LoadKeys
<1>1. j \in JobType
  BY JobColumns
<1>2. ASSUME NEW k \in j.keys PROVE LoadKey(j, k) \in LoadKeys
  <2>1. k \in Keys /\ j.page \in Pages \cup {NoPage}
    BY <1>1, <1>2 DEF JobType
  <2>. QED BY <2>1 DEF LoadKey, LoadKeys
<1>. QED BY <1>2 DEF LoadKeysOf

\* get_loader returns an instance of the current generation.
LEMMA InstanceOfGeneration ==
  ASSUME NEW j \in Jobs, gen \in Requests
  PROVE  InstanceFor(j) \in Instances /\ InstanceFor(j).gen = gen
<1>1. j.cls \in Classes
  BY JobColumns DEF JobType
<1>. QED BY <1>1, JobColumns DEF InstanceFor, Instances

-----------------------------------------------------------------------------
(* Type correctness.                                                       *)

\* clear_cache has run before any request is under way.
\* Only a request inside a level awaits loads.
GenerationLive ==
  \A r \in Requests : /\ pc[r] # "idle" => gen \in Requests
                      /\ waits[r] # {} => pc[r] \in {"starting", "loading"}

TypeInv == TypeOK /\ GenerationLive

\* Attached metadata stays typed.
LEMMA AttachMetaType ==
  ASSUME TypeOK, NEW j \in Jobs, NEW i \in Instances
  PROVE  AttachMeta(j, i) \in SUBSET [inst : Instances, cols : SUBSET Columns]
<1>1. meta \in SUBSET [inst : Instances, cols : SUBSET Columns]
  BY DEF TypeOK
<1>2. UNION Attached(i) \in SUBSET Columns
  BY <1>1 DEF Attached
<1>3. SqlColumns(j) \in SUBSET Columns /\ Needs(j) \in SUBSET Columns
  BY JobColumns
<1>. QED BY <1>1, <1>2, <1>3 DEF AttachMeta

\* The initial states are typed.
LEMMA TypeInit == Init => TypeInv
<1>. SUFFICES ASSUME Init PROVE TypeInv
  OBVIOUS
<1>1. 0 \in 0 .. MaxLevels
  BY LoadersAssumption
<1>. QED BY <1>1 DEF Init, TypeInv, TypeOK, GenerationLive

\* Every step of the code keeps the types.
LEMMA TypeStep == TypeInv /\ [Next]_vars => TypeInv'
<1>. SUFFICES ASSUME TypeOK, GenerationLive, [Next]_vars
              PROVE  TypeOK' /\ GenerationLive'
  BY DEF TypeInv
<1>1. ASSUME NEW r \in Requests, BeginRequest(r)
      PROVE  TypeOK' /\ GenerationLive'
  BY <1>1 DEF BeginRequest, TypeOK, GenerationLive
<1>2. ASSUME NEW r \in Requests, BeginLevel(r)
      PROVE  TypeOK' /\ GenerationLive'
  <2>1. levels[r] + 1 \in 0 .. MaxLevels
    BY <1>2, LoadersAssumption DEF BeginLevel, TypeOK
  <2>. QED BY <1>2, <2>1 DEF BeginLevel, TypeOK, GenerationLive
<1>3. ASSUME NEW r \in Requests, NEW j \in Jobs, StartJob(r, j)
      PROVE  TypeOK' /\ GenerationLive'
  <2>. DEFINE i == InstanceFor(j)
              fresh == LoadKeysOf(j) \ Held(i)
  <2>1. i \in Instances
    BY <1>3, InstanceOfGeneration DEF StartJob, MayStart, GenerationLive
  <2>2. fresh \in SUBSET LoadKeys
    BY JobKeys
  <2>3. meta' \in SUBSET [inst : Instances, cols : SUBSET Columns]
    BY <1>3, <2>1, AttachMetaType DEF StartJob
  <2>4. shape' \in [Classes -> {"empty", "single", "split"}]
    BY <1>3 DEF StartJob, ShapeOf, TypeOK
  <2>5. queued' \in SUBSET [inst : Instances, key : LoadKeys]
    <3>1. queued' = queued \cup [inst : {i}, key : fresh]
      BY <1>3 DEF StartJob
    <3>. QED BY <2>1, <2>2, <3>1 DEF TypeOK
  <2>6. waits' \in [Requests -> SUBSET Wait]
    <3>1. waits' = [waits EXCEPT ![r] =
                      @ \cup {[inst |-> i, job |-> j, fresh |-> fresh]}]
      BY <1>3 DEF StartJob
    <3>2. [inst |-> i, job |-> j, fresh |-> fresh] \in Wait
      BY <2>1, <2>2 DEF Wait
    <3>. QED BY <3>1, <3>2 DEF TypeOK
  <2>7. GenerationLive'
    BY <1>3 DEF StartJob, MayStart, GenerationLive, TypeOK
  <2>. QED BY <1>3, <2>3, <2>4, <2>5, <2>6, <2>7 DEF StartJob, TypeOK
<1>4. ASSUME NEW r \in Requests, NEW j \in Jobs, ClashJob(r, j)
      PROVE  TypeOK' /\ GenerationLive'
  BY <1>4 DEF ClashJob, MayStart, AfterError, TypeOK, GenerationLive
<1>5. ASSUME NEW r \in Requests, Suspend(r)
      PROVE  TypeOK' /\ GenerationLive'
  BY <1>5 DEF Suspend, TypeOK, GenerationLive
<1>6. ASSUME NEW r \in Requests, EndLevel(r)
      PROVE  TypeOK' /\ GenerationLive'
  BY <1>6 DEF EndLevel, TypeOK, GenerationLive
<1>7. ASSUME NEW r \in Requests, FinishRequest(r)
      PROVE  TypeOK' /\ GenerationLive'
  BY <1>7 DEF FinishRequest, TypeOK, GenerationLive
<1>8. ASSUME NEW q \in queued, Dispatch(q.inst)
      PROVE  TypeOK' /\ GenerationLive'
  <2>. DEFINE keys == QueuedKeys(q.inst)
              b == [inst |-> q.inst, keys |-> keys, phase |-> "taken",
                    cols |-> {}, page |-> NoPage, begun |-> {}]
  <2>1. q.inst \in Instances /\ keys \in SUBSET LoadKeys
    BY DEF QueuedKeys, TypeOK
  <2>2. b \in Batch
    BY <2>1 DEF Batch
  <2>3. batches' = batches \cup {b}
    BY <1>8 DEF Dispatch
  <2>4. batches' \in SUBSET Batch /\ queued' \in SUBSET queued
    BY <1>8, <2>2, <2>3 DEF Dispatch, TypeOK
  <2>. QED BY <1>8, <2>4 DEF Dispatch, TypeOK, GenerationLive
<1>9. ASSUME NEW b \in batches, RunBatch(b)
      PROVE  TypeOK' /\ GenerationLive'
  <2>1. b \in Batch
    BY DEF TypeOK
  <2>2. ReadColumns(b.inst) \in SUBSET Columns
    <3>1. UNION Attached(b.inst) \in SUBSET Columns
      BY DEF Attached, TypeOK
    <3>2. Added[b.inst.cls] \in SUBSET Columns
      BY LoadersAssumption DEF TypeOK, Batch, Instances
    <3>3. ASSUME NEW A \in SUBSET Columns, NEW B \in SUBSET Columns
          PROVE  A \cup B \in SUBSET Columns
      OBVIOUS
    <3>4. Added[b.inst.cls] \cup UNION Attached(b.inst) \in SUBSET Columns
      BY ONLY <3>1, <3>2, <3>3
    <3>. QED BY <3>4 DEF ReadColumns
  <2>3. ReadPages(b) \in SUBSET (Pages \cup {NoPage})
    BY <2>1 DEF ReadPages, Batch, Instances, LoadKeys
  <2>4. PICK p \in ReadPages(b) :
          batches' = (batches \ {b}) \cup
            {[inst |-> b.inst, keys |-> b.keys, phase |-> "running",
              cols |-> ReadColumns(b.inst), page |-> p, begun |-> Begun]}
    BY <1>9 DEF RunBatch
  <2>5. batches' \in SUBSET Batch
    BY <2>1, <2>2, <2>3, <2>4 DEF TypeOK, Batch, Begun
  <2>. QED BY <1>9, <2>5 DEF RunBatch, TypeOK, GenerationLive
<1>10. ASSUME NEW b \in batches, BatchOk(b)
       PROVE  TypeOK' /\ GenerationLive'
  <2>1. b \in Batch
    BY DEF TypeOK
  <2>2. [inst : {b.inst}, key : b.keys, cols : {b.cols}, page : {b.page},
         begun : {b.begun}] \in SUBSET Row
    BY <2>1 DEF Batch, Row
  <2>. QED BY <1>10, <2>2 DEF BatchOk, TypeOK, GenerationLive
<1>11. ASSUME NEW b \in batches, BatchFail(b)
       PROVE  TypeOK' /\ GenerationLive'
  <2>1. ASSUME NEW r \in Requests, Awaits(r, b) PROVE gen \in Requests
    BY <2>1 DEF Awaits, GenerationLive
  <2>. QED BY <1>11, <2>1 DEF BatchFail, AfterError, TypeOK, GenerationLive
<1>12. CASE UNCHANGED vars
  BY <1>12 DEF vars, TypeOK, GenerationLive
<1>. QED
  BY <1>1, <1>2, <1>3, <1>4, <1>5, <1>6, <1>7, <1>8, <1>9, <1>10, <1>11, <1>12
  DEF Next, StartStep, BatchStep, Terminated

\* Every state of the loader layer is of its type.
THEOREM TypeCorrect == Spec => []TypeOK
<1>1. TypeInv => TypeOK
  BY DEF TypeInv
<1>. QED BY TypeInit, TypeStep, <1>1, PTL DEF Spec

-----------------------------------------------------------------------------
(* One fetch per key.                                                      *)

\* What an instance holds, and nothing else.
LEMMA HeldMembers ==
  ASSUME NEW i
  PROVE  /\ \A q \in queued : q.inst = i => q.key \in Held(i)
         /\ \A b \in batches : b.inst = i => b.keys \subseteq Held(i)
         /\ \A x \in rows : x.inst = i => x.key \in Held(i)
         /\ \A k \in Held(i) :
              \/ \E q \in queued : q.inst = i /\ q.key = k
              \/ \E b \in batches : b.inst = i /\ k \in b.keys
              \/ \E x \in rows : x.inst = i /\ x.key = k
<1>1. \A k : k \in QueuedKeys(i) <=> \E q \in queued : q.inst = i /\ q.key = k
  BY DEF QueuedKeys
<1>2. \A k : k \in FlyingKeys(i) <=> \E b \in batches : b.inst = i /\ k \in b.keys
  BY DEF FlyingKeys
<1>3. \A k : k \in CachedKeys(i) <=> \E x \in rows : x.inst = i /\ x.key = k
  BY DEF CachedKeys
<1>. QED BY <1>1, <1>2, <1>3 DEF Held

\* The four ways a key could be fetched twice are excluded together: what
\* StartJob queues is outside Held, and a key moves from the queue to one
\* batch and from there to one row.
LEMMA OneFetchStep ==
  TypeOK /\ OneFetchPerKey /\ [Next]_vars => OneFetchPerKey'
<1>. SUFFICES ASSUME TypeOK, OneFetchPerKey, [Next]_vars
              PROVE  OneFetchPerKey'
  OBVIOUS
<1>1. CASE UNCHANGED <<queued, batches, rows>>
  BY <1>1 DEF OneFetchPerKey
<1>2. ASSUME NEW r \in Requests, NEW j \in Jobs, StartJob(r, j)
      PROVE  OneFetchPerKey'
  <2>. DEFINE i == InstanceFor(j)
              fresh == LoadKeysOf(j) \ Held(i)
  <2>1. queued' = queued \cup [inst : {i}, key : fresh]
    BY <1>2 DEF StartJob
  <2>2. batches' = batches /\ rows' = rows
    BY <1>2 DEF StartJob
  <2>3. ASSUME NEW b \in batches, b.inst = i PROVE fresh \cap b.keys = {}
    BY <2>3, HeldMembers
  <2>4. ASSUME NEW x \in rows, x.inst = i PROVE x.key \notin fresh
    BY <2>4, HeldMembers
  <2>5. \A q \in queued' : \A b \in batches : q.inst = b.inst => q.key \notin b.keys
    BY <2>1, <2>3 DEF OneFetchPerKey
  <2>6. \A x \in rows : [inst |-> x.inst, key |-> x.key] \notin queued'
    BY <2>1, <2>4 DEF OneFetchPerKey
  <2>. QED BY <2>2, <2>5, <2>6 DEF OneFetchPerKey
<1>3. ASSUME NEW d \in queued, Dispatch(d.inst)
      PROVE  OneFetchPerKey'
  <2>. DEFINE keys == QueuedKeys(d.inst)
              n == [inst |-> d.inst, keys |-> keys, phase |-> "taken",
                    cols |-> {}, page |-> NoPage, begun |-> {}]
  <2>1. batches' = batches \cup {n} /\ rows' = rows
    BY <1>3 DEF Dispatch
  <2>2. queued' = {q \in queued : q.inst # d.inst}
    BY <1>3 DEF Dispatch
  <2>3. ASSUME NEW b \in batches, b.inst = d.inst PROVE keys \cap b.keys = {}
    BY <2>3 DEF OneFetchPerKey, QueuedKeys
  <2>4. ASSUME NEW x \in rows, x.inst = d.inst PROVE x.key \notin keys
    <3>1. ASSUME NEW q \in queued, q.inst = d.inst, q.key = x.key PROVE FALSE
      <4>1. q = [inst |-> x.inst, key |-> x.key]
        BY <2>4, <3>1 DEF TypeOK
      <4>. QED BY <4>1 DEF OneFetchPerKey
    <3>. QED BY <3>1 DEF QueuedKeys
  <2>5. n.inst = d.inst /\ n.keys = keys
    OBVIOUS
  <2>6. \A b \in batches' : \A c \in batches' :
          b # c /\ b.inst = c.inst => b.keys \cap c.keys = {}
    <3>. HIDE DEF n, keys
    <3>1. \A b \in batches : b.inst = n.inst => b.keys \cap n.keys = {}
      BY <2>3, <2>5
    <3>. QED BY <2>1, <3>1 DEF OneFetchPerKey
  <2>7. \A q \in queued' : \A b \in batches' : q.inst = b.inst => q.key \notin b.keys
    BY <2>1, <2>2, <2>5 DEF OneFetchPerKey
  <2>8. \A x \in rows' : \A b \in batches' : x.inst = b.inst => x.key \notin b.keys
    BY <2>1, <2>4, <2>5 DEF OneFetchPerKey
  <2>. QED BY <2>1, <2>2, <2>6, <2>7, <2>8 DEF OneFetchPerKey
<1>4. ASSUME NEW b \in batches, RunBatch(b)
      PROVE  OneFetchPerKey'
  <2>1. PICK p \in ReadPages(b) :
          batches' = (batches \ {b}) \cup
            {[inst |-> b.inst, keys |-> b.keys, phase |-> "running",
              cols |-> ReadColumns(b.inst), page |-> p, begun |-> Begun]}
    BY <1>4 DEF RunBatch
  <2>. DEFINE n == [inst |-> b.inst, keys |-> b.keys, phase |-> "running",
                    cols |-> ReadColumns(b.inst), page |-> p, begun |-> Begun]
  <2>2. n.inst = b.inst /\ n.keys = b.keys
    OBVIOUS
  <2>3. queued' = queued /\ rows' = rows
    BY <1>4 DEF RunBatch
  <2>. HIDE DEF n
  <2>4. batches' = (batches \ {b}) \cup {n}
    BY <2>1 DEF n
  <2>. QED BY <2>2, <2>3, <2>4 DEF OneFetchPerKey
<1>5. ASSUME NEW b \in batches, BatchOk(b)
      PROVE  OneFetchPerKey'
  <2>. DEFINE new == [inst : {b.inst}, key : b.keys, cols : {b.cols},
                      page : {b.page}, begun : {b.begun}]
  <2>1. batches' = batches \ {b} /\ rows' = rows \cup new /\ queued' = queued
    BY <1>5 DEF BatchOk
  <2>2. ASSUME NEW x \in new PROVE x.inst = b.inst /\ x.key \in b.keys
    OBVIOUS
  <2>3. ASSUME NEW x \in new, NEW y \in new, x.key = y.key PROVE x = y
    BY <2>3
  <2>. HIDE DEF new
  <2>4. \A x \in rows' : \A y \in rows' : x.inst = y.inst /\ x.key = y.key => x = y
    BY <2>1, <2>2, <2>3 DEF OneFetchPerKey
  <2>5. \A x \in rows' : [inst |-> x.inst, key |-> x.key] \notin queued'
    BY <2>1, <2>2 DEF OneFetchPerKey
  <2>6. \A x \in rows' : \A c \in batches' : x.inst = c.inst => x.key \notin c.keys
    BY <2>1, <2>2 DEF OneFetchPerKey
  <2>. QED BY <2>1, <2>4, <2>5, <2>6 DEF OneFetchPerKey
<1>6. ASSUME NEW b \in batches, BatchFail(b)
      PROVE  OneFetchPerKey'
  <2>1. batches' = batches \ {b} /\ rows' = rows /\ queued' = queued
    BY <1>6 DEF BatchFail
  <2>. QED BY <2>1 DEF OneFetchPerKey
<1>. QED
  BY <1>1, <1>2, <1>3, <1>4, <1>5, <1>6
  DEF Next, StartStep, BatchStep, Terminated, vars, BeginRequest, BeginLevel,
      ClashJob, Suspend, EndLevel, FinishRequest

\* No N+1 within a generation of the loader cache.
THEOREM OneFetch == Spec => []OneFetchPerKey
<1>1. Init => OneFetchPerKey
  BY DEF Init, OneFetchPerKey
<1>. QED BY <1>1, OneFetchStep, TypeCorrect, PTL DEF Spec

-----------------------------------------------------------------------------
(* No lost wake-up.                                                        *)

\* An awaited key leaves the queue for a batch and a batch for the cache;
\* a failed batch drops its keys and every wait that needs one of them.
LEMMA NoLostWakeupStep ==
  TypeInv /\ NoLostWakeup /\ [Next]_vars => NoLostWakeup'
<1>. SUFFICES ASSUME TypeOK, GenerationLive, NoLostWakeup, [Next]_vars
              PROVE  NoLostWakeup'
  BY DEF TypeInv
<1>0. ASSUME NEW i
      PROVE  \A k \in Held(i) :
               \/ \E q \in queued : q.inst = i /\ q.key = k
               \/ \E b \in batches : b.inst = i /\ k \in b.keys
               \/ \E x \in rows : x.inst = i /\ x.key = k
  BY HeldMembers
<1>a. ASSUME NEW i
      PROVE  /\ \A q \in queued' : q.inst = i => q.key \in Held(i)'
             /\ \A b \in batches' : b.inst = i => b.keys \subseteq Held(i)'
             /\ \A x \in rows' : x.inst = i => x.key \in Held(i)'
  BY DEF Held, QueuedKeys, FlyingKeys, CachedKeys
\* What stays held, and whose waits stay, is all the other steps change.
<1>b. ASSUME \A i : Held(i) \subseteq Held(i)',
             \A r \in Requests : waits'[r] \subseteq waits[r]
      PROVE  NoLostWakeup'
  <2>1. ASSUME NEW r \in Requests, NEW w \in waits'[r]
        PROVE  LoadKeysOf(w.job) \subseteq Held(w.inst)'
    <3>1. w \in waits[r]
      BY <1>b, <2>1
    <3>2. LoadKeysOf(w.job) \subseteq Held(w.inst)
      BY <3>1 DEF NoLostWakeup
    <3>. QED BY <3>2, <1>b
  <2>. QED BY <2>1 DEF NoLostWakeup
<1>1. CASE /\ UNCHANGED <<queued, batches, rows>>
           /\ \A r \in Requests : waits'[r] \subseteq waits[r]
  <2>1. \A i : Held(i) \subseteq Held(i)'
    BY <1>1, <1>0, <1>a
  <2>. QED BY <1>1, <2>1, <1>b
<1>2. ASSUME NEW r \in Requests, NEW j \in Jobs, StartJob(r, j)
      PROVE  NoLostWakeup'
  <2>0. PICK i : i = InstanceFor(j)
    OBVIOUS
  <2>a. PICK fresh : fresh = LoadKeysOf(j) \ Held(i)
    OBVIOUS
  <2>b. PICK w : w = [inst |-> i, job |-> j, fresh |-> fresh]
    OBVIOUS
  <2>1. queued' = queued \cup [inst : {i}, key : fresh]
    BY <1>2, <2>0, <2>a DEF StartJob
  <2>2. batches' = batches /\ rows' = rows
    BY <1>2 DEF StartJob
  <2>3. waits' = [waits EXCEPT ![r] = @ \cup {w}]
    BY <1>2, <2>0, <2>a, <2>b DEF StartJob
  <2>4. \A h : Held(h) \subseteq Held(h)'
    BY <2>1, <2>2, <1>0, <1>a
  <2>5. LoadKeysOf(j) \subseteq Held(i)'
    <3>1. ASSUME NEW k \in fresh PROVE k \in Held(i)'
      <4>1. [inst |-> i, key |-> k] \in queued'
        BY <2>1, <3>1
      <4>. QED BY <4>1, <1>a
    <3>2. LoadKeysOf(j) \subseteq fresh \cup Held(i)
      BY <2>a
    <3>. QED BY <3>1, <3>2, <2>4
  <2>6. w.inst = i /\ w.job = j
    BY <2>b
  <2>7. ASSUME NEW s \in Requests, NEW v \in waits'[s]
        PROVE  LoadKeysOf(v.job) \subseteq Held(v.inst)'
    <3>1. CASE v \in waits[s]
      BY <3>1, <2>4 DEF NoLostWakeup
    <3>2. CASE v = w
      BY <3>2, <2>5, <2>6
    <3>. QED BY <2>3, <2>7, <3>1, <3>2 DEF TypeOK
  <2>. QED BY <2>7 DEF NoLostWakeup
<1>3. ASSUME NEW d \in queued, Dispatch(d.inst)
      PROVE  NoLostWakeup'
  <2>. DEFINE n == [inst |-> d.inst, keys |-> QueuedKeys(d.inst),
                    phase |-> "taken", cols |-> {}, page |-> NoPage, begun |-> {}]
  <2>1. /\ batches' = batches \cup {n}
        /\ rows' = rows
        /\ queued' = {q \in queued : q.inst # d.inst}
        /\ waits' = waits
    BY <1>3 DEF Dispatch
  <2>2. n.inst = d.inst /\ \A q \in queued : q.inst = d.inst => q.key \in n.keys
    BY DEF QueuedKeys
  <2>. HIDE DEF n
  <2>3. \A h : Held(h) \subseteq Held(h)'
    BY <2>1, <2>2, <1>0, <1>a
  <2>. QED BY <2>1, <2>3, <1>b
<1>4. ASSUME NEW b \in batches, RunBatch(b)
      PROVE  NoLostWakeup'
  <2>1. PICK n : /\ batches' = (batches \ {b}) \cup {n}
                 /\ n.inst = b.inst /\ n.keys = b.keys
    <3>1. PICK p \in ReadPages(b) :
            batches' = (batches \ {b}) \cup
              {[inst |-> b.inst, keys |-> b.keys, phase |-> "running",
                cols |-> ReadColumns(b.inst), page |-> p, begun |-> Begun]}
      BY <1>4 DEF RunBatch
    <3>. WITNESS [inst |-> b.inst, keys |-> b.keys, phase |-> "running",
                  cols |-> ReadColumns(b.inst), page |-> p, begun |-> Begun]
    <3>. QED BY <3>1
  <2>2. queued' = queued /\ rows' = rows /\ waits' = waits
    BY <1>4 DEF RunBatch
  <2>3. \A h : Held(h) \subseteq Held(h)'
    BY <2>1, <2>2, <1>0, <1>a
  <2>. QED BY <2>2, <2>3, <1>b
<1>5. ASSUME NEW b \in batches, BatchOk(b)
      PROVE  NoLostWakeup'
  <2>. DEFINE new == [inst : {b.inst}, key : b.keys, cols : {b.cols},
                      page : {b.page}, begun : {b.begun}]
  <2>1. /\ batches' = batches \ {b}
        /\ rows' = rows \cup new
        /\ queued' = queued /\ waits' = waits
    BY <1>5 DEF BatchOk
  <2>2. ASSUME NEW k \in b.keys PROVE \E x \in new : x.inst = b.inst /\ x.key = k
    <3>. WITNESS [inst |-> b.inst, key |-> k, cols |-> b.cols, page |-> b.page,
                  begun |-> b.begun] \in new
    <3>. QED OBVIOUS
  <2>. HIDE DEF new
  <2>3. \A h : Held(h) \subseteq Held(h)'
    BY <2>1, <2>2, <1>0, <1>a
  <2>. QED BY <2>1, <2>3, <1>b
<1>6. ASSUME NEW b \in batches, BatchFail(b)
      PROVE  NoLostWakeup'
  <2>1. /\ batches' = batches \ {b}
        /\ rows' = rows /\ queued' = queued
        /\ waits' = [r \in Requests |-> IF Awaits(r, b) THEN {} ELSE waits[r]]
    BY <1>6 DEF BatchFail
  <2>2. ASSUME NEW r \in Requests, NEW w \in waits'[r], NEW k \in LoadKeysOf(w.job)
        PROVE  k \in Held(w.inst)'
    <3>1. w \in waits[r] /\ ~Awaits(r, b)
      BY <2>1, <2>2
    <3>2. k \in Held(w.inst)
      BY <3>1 DEF NoLostWakeup
    <3>3. ~(w.inst = b.inst /\ k \in b.keys)
      BY <3>1 DEF Awaits
    <3>. QED BY <2>1, <3>2, <3>3, <1>0, <1>a
  <2>. QED BY <2>2 DEF NoLostWakeup
<1>7. ASSUME NEW r \in Requests, NEW j \in Jobs, ClashJob(r, j)
      PROVE  NoLostWakeup'
  BY <1>7, <1>1 DEF ClashJob, TypeOK
<1>8. ASSUME NEW r \in Requests, EndLevel(r)
      PROVE  NoLostWakeup'
  BY <1>8, <1>1 DEF EndLevel, TypeOK
<1>9. CASE UNCHANGED <<queued, batches, rows, waits>>
  BY <1>9, <1>1
<1>. QED
  BY <1>2, <1>3, <1>4, <1>5, <1>6, <1>7, <1>8, <1>9
  DEF Next, StartStep, BatchStep, Terminated, vars, BeginRequest, BeginLevel,
      Suspend, FinishRequest

\* Nobody awaits a future that nothing will resolve.
THEOREM WakeupsKept == Spec => []NoLostWakeup
<1>1. Init => NoLostWakeup
  BY DEF Init, NoLostWakeup
<1>2. Spec => []TypeInv
  BY TypeInit, TypeStep, PTL DEF Spec
<1>. QED BY <1>1, <1>2, NoLostWakeupStep, PTL DEF Spec

-----------------------------------------------------------------------------
(* Requests read nothing older than themselves.                            *)

\* What has been read from the database: running batches and cached rows.
Reads == {b \in batches : b.phase = "running"} \cup rows

\* Instances in use belong to a generation that has begun.
GenerationsBegun ==
  /\ gen # NoRequest => gen \in Begun
  /\ \A q \in queued : q.inst.gen \in Begun
  /\ \A b \in batches : b.inst.gen \in Begun
  /\ \A x \in rows : x.inst.gen \in Begun

\* Whatever the current generation has read, it read after every request
\* began so far; and a request shares a generation only if it began before
\* anything was read there.
ReadsInv ==
  /\ GenerationsBegun
  /\ \A x \in Reads : x.inst.gen = gen => Begun \subseteq x.begun
  /\ \A r \in Requests : \A w \in waits[r] : \A x \in Reads :
       x.inst.gen = w.inst.gen => r \in x.begun

\* Emptying the cache separates the rows of a request from earlier ones.
LEMMA ReadsStep == TypeInv /\ ReadsInv /\ [Next]_vars => ReadsInv'
<1>. SUFFICES ASSUME TypeOK, GenerationLive, ReadsInv, [Next]_vars
              PROVE  ReadsInv'
  BY DEF TypeInv
\* Steps that begin no request, start no load and read nothing.
<1>a. CASE /\ gen' = gen /\ Begun' = Begun
           /\ queued' \subseteq queued /\ batches' \subseteq batches /\ rows' = rows
           /\ \A r \in Requests : waits'[r] \subseteq waits[r]
  BY <1>a DEF ReadsInv, GenerationsBegun, Reads
<1>b. ASSUME NEW r \in Requests, pc[r] # "idle", NEW v, v # "idle",
             pc' = [pc EXCEPT ![r] = v]
      PROVE  Begun' = Begun
  BY <1>b DEF Begun, TypeOK
<1>1. ASSUME NEW r \in Requests, BeginRequest(r)
      PROVE  ReadsInv'
  <2>1. Begun \subseteq Begun' /\ r \in Begun' /\ r \notin Begun
    BY <1>1 DEF BeginRequest, Begun, TypeOK
  <2>2. Reads' = Reads /\ gen' = r /\ UNCHANGED <<queued, batches, rows, waits>>
    BY <1>1 DEF BeginRequest, Reads
  <2>3. \A x \in Reads : x.inst.gen # r
    BY <2>1 DEF ReadsInv, GenerationsBegun, Reads
  <2>4. GenerationsBegun'
    BY <2>1, <2>2 DEF ReadsInv, GenerationsBegun
  <2>. QED BY <2>2, <2>3, <2>4 DEF ReadsInv
<1>2. ASSUME NEW r \in Requests, BeginLevel(r)
      PROVE  ReadsInv'
  <2>1. Begun' = Begun
    BY <1>2, <1>b DEF BeginLevel
  <2>. QED BY <1>2, <2>1, <1>a DEF BeginLevel
<1>3. ASSUME NEW r \in Requests, NEW j \in Jobs, StartJob(r, j)
      PROVE  ReadsInv'
  <2>1. r \in Begun /\ gen \in Requests
    BY <1>3 DEF StartJob, MayStart, Begun, GenerationLive
  <2>2. PICK i : i = InstanceFor(j)
    OBVIOUS
  <2>3. i.gen = gen
    BY <2>2 DEF InstanceFor
  <2>4. PICK fresh : fresh = LoadKeysOf(j) \ Held(i)
    OBVIOUS
  <2>5. PICK w : w = [inst |-> i, job |-> j, fresh |-> fresh]
    OBVIOUS
  <2>6. /\ queued' = queued \cup [inst : {i}, key : fresh]
        /\ waits' = [waits EXCEPT ![r] = @ \cup {w}]
        /\ UNCHANGED <<gen, batches, rows, pc>>
    BY <1>3, <2>2, <2>4, <2>5 DEF StartJob
  <2>7. Reads' = Reads /\ Begun' = Begun
    BY <2>6 DEF Reads, Begun
  <2>8. gen \in Begun
    BY <2>1, LoadersAssumption DEF ReadsInv, GenerationsBegun
  <2>9. GenerationsBegun'
    <3>1. ASSUME NEW q \in queued' PROVE q.inst.gen \in Begun
      BY <2>3, <2>6, <2>8 DEF ReadsInv, GenerationsBegun
    <3>. QED BY <2>6, <2>7, <3>1 DEF ReadsInv, GenerationsBegun
  <2>10. ASSUME NEW s \in Requests, NEW v \in waits'[s], NEW x \in Reads,
                x.inst.gen = v.inst.gen
         PROVE  s \in x.begun
    <3>1. CASE v \in waits[s]
      BY <3>1, <2>10 DEF ReadsInv
    <3>2. CASE v = w /\ s = r
      <4>1. x.inst.gen = gen
        BY <3>2, <2>10, <2>5, <2>3
      <4>. QED BY <3>2, <4>1, <2>1 DEF ReadsInv
    <3>. QED BY <2>6, <2>10, <3>1, <3>2 DEF TypeOK
  <2>. QED BY <2>6, <2>7, <2>9, <2>10 DEF ReadsInv
<1>4. ASSUME NEW r \in Requests, NEW j \in Jobs, ClashJob(r, j)
      PROVE  ReadsInv'
  <2>1. Begun' = Begun
    BY <1>4, <1>b DEF ClashJob, MayStart, AfterError
  <2>. QED BY <1>4, <2>1, <1>a DEF ClashJob, TypeOK
<1>5. ASSUME NEW r \in Requests, Suspend(r)
      PROVE  ReadsInv'
  <2>1. Begun' = Begun
    BY <1>5, <1>b DEF Suspend
  <2>. QED BY <1>5, <2>1, <1>a DEF Suspend
<1>6. ASSUME NEW r \in Requests, EndLevel(r)
      PROVE  ReadsInv'
  <2>1. Begun' = Begun
    BY <1>6, <1>b DEF EndLevel
  <2>. QED BY <1>6, <2>1, <1>a DEF EndLevel, TypeOK
<1>7. ASSUME NEW r \in Requests, FinishRequest(r)
      PROVE  ReadsInv'
  <2>1. Begun' = Begun
    BY <1>7, <1>b DEF FinishRequest
  <2>. QED BY <1>7, <2>1, <1>a DEF FinishRequest
<1>8. ASSUME NEW d \in queued, Dispatch(d.inst)
      PROVE  ReadsInv'
  <2>1. PICK n : /\ batches' = batches \cup {n}
                 /\ n.inst = d.inst /\ n.phase = "taken"
    <3>. WITNESS [inst |-> d.inst, keys |-> QueuedKeys(d.inst), phase |-> "taken",
                  cols |-> {}, page |-> NoPage, begun |-> {}]
    <3>. QED BY <1>8 DEF Dispatch
  <2>2. queued' \subseteq queued /\ UNCHANGED <<gen, rows, pc, waits>>
    BY <1>8 DEF Dispatch
  <2>3. Reads' = Reads /\ Begun' = Begun
    BY <2>1, <2>2 DEF Reads, Begun
  <2>4. GenerationsBegun'
    BY <2>1, <2>2, <2>3 DEF ReadsInv, GenerationsBegun
  <2>. QED BY <2>2, <2>3, <2>4 DEF ReadsInv
<1>9. ASSUME NEW b \in batches, RunBatch(b)
      PROVE  ReadsInv'
  <2>1. PICK n : /\ batches' = (batches \ {b}) \cup {n}
                 /\ n.inst = b.inst /\ n.begun = Begun
    <3>1. PICK p \in ReadPages(b) :
            batches' = (batches \ {b}) \cup
              {[inst |-> b.inst, keys |-> b.keys, phase |-> "running",
                cols |-> ReadColumns(b.inst), page |-> p, begun |-> Begun]}
      BY <1>9 DEF RunBatch
    <3>. WITNESS [inst |-> b.inst, keys |-> b.keys, phase |-> "running",
                  cols |-> ReadColumns(b.inst), page |-> p, begun |-> Begun]
    <3>. QED BY <3>1
  <2>2. UNCHANGED <<gen, queued, rows, pc, waits>>
    BY <1>9 DEF RunBatch
  <2>3. Begun' = Begun
    BY <2>2 DEF Begun
  <2>4. Reads' \subseteq Reads \cup {n}
    BY <2>1, <2>2 DEF Reads
  <2>5. GenerationsBegun'
    BY <2>1, <2>2, <2>3 DEF ReadsInv, GenerationsBegun
  <2>6. ASSUME NEW r \in Requests, NEW w \in waits[r] PROVE r \in Begun
    BY <2>6 DEF GenerationLive, Begun
  <2>. QED BY <2>1, <2>2, <2>3, <2>4, <2>5, <2>6 DEF ReadsInv
<1>10. ASSUME NEW b \in batches, BatchOk(b)
       PROVE  ReadsInv'
  <2>. DEFINE new == [inst : {b.inst}, key : b.keys, cols : {b.cols},
                      page : {b.page}, begun : {b.begun}]
  <2>1. /\ batches' = batches \ {b} /\ rows' = rows \cup new
        /\ UNCHANGED <<gen, queued, pc, waits>>
        /\ b \in Reads
    BY <1>10 DEF BatchOk, Reads
  <2>2. \A x \in new : x.inst = b.inst /\ x.begun = b.begun
    OBVIOUS
  <2>. HIDE DEF new
  <2>3. Begun' = Begun
    BY <2>1 DEF Begun
  <2>4. Reads' \subseteq Reads \cup new
    BY <2>1 DEF Reads
  <2>5. GenerationsBegun'
    BY <2>1, <2>2, <2>3 DEF ReadsInv, GenerationsBegun
  <2>. QED BY <2>1, <2>2, <2>3, <2>4, <2>5 DEF ReadsInv
<1>11. ASSUME NEW b \in batches, BatchFail(b)
       PROVE  ReadsInv'
  <2>1. \A r \in Requests : Awaits(r, b) => pc[r] # "idle"
    BY DEF Awaits, GenerationLive
  <2>2. Begun' = Begun
    BY <1>11, <2>1 DEF BatchFail, Begun, AfterError, TypeOK
  <2>. QED BY <1>11, <2>2, <1>a DEF BatchFail
<1>12. CASE UNCHANGED vars
  BY <1>12, <1>a DEF vars, Begun
<1>. QED
  BY <1>1, <1>2, <1>3, <1>4, <1>5, <1>6, <1>7, <1>8, <1>9, <1>10, <1>11, <1>12
  DEF Next, StartStep, BatchStep, Terminated

\* Overlapping requests share loader instances, yet none receives a row read
\* before it began.
THEOREM FreshReads == Spec => []ReadsSinceBegin
<1>1. Init => ReadsInv
  BY DEF Init, ReadsInv, GenerationsBegun, Reads
<1>2. ReadsInv => ReadsSinceBegin
  BY DEF ReadsInv, Reads, ReadsSinceBegin, Received
<1>3. Spec => []TypeInv
  BY TypeInit, TypeStep, PTL DEF Spec
<1>. QED BY <1>1, <1>2, <1>3, ReadsStep, PTL DEF Spec

-----------------------------------------------------------------------------
(* Split mode isolates the columns of every consumer.                      *)

\* Split mode, local relationships, and no selection without columns (a
\* selection of __typename alone has no type key).
PreciseJobs ==
  /\ SplitMode
  /\ \A j \in Jobs : j.style \in Local /\ (j.style = "entity" => j.cols # {})

\* An instance is dedicated to the columns in its type, metadata is attached
\* before anything is queued, and an instance without a type has none.
SplitInv ==
  /\ \A m \in meta : m.inst.type = {m.cols}
  /\ \A q \in queued : q.inst.type # {} => \E m \in meta : m.inst = q.inst
  /\ \A b \in batches : b.inst.type # {} => \E m \in meta : m.inst = b.inst
  /\ \A x \in Reads : IF x.inst.type = {} THEN x.cols = Columns
                                         ELSE UNION x.inst.type \subseteq x.cols
  /\ \A r \in Requests : \A w \in waits[r] :
       w.inst.type = IF w.job.style = "named" THEN {} ELSE {Needs(w.job)}

\* A typed job gets the instance of its columns and overwrites metadata with
\* equal metadata; a named job gets the instance without metadata.
LEMMA PreciseInstance ==
  ASSUME PreciseJobs, NEW j \in Jobs, NEW i, i = InstanceFor(j)
  PROVE  IF j.style = "named"
         THEN i.type = {} /\ AttachMeta(j, i) = meta
         ELSE /\ i.type = {Needs(j)}
              /\ AttachMeta(j, i) = {m \in meta : m.inst # i} \cup
                                     {[inst |-> i, cols |-> Needs(j)]}
<1>1. j.style \in {"entity", "dto", "named"} /\ SplitMode = TRUE
  BY LoadersAssumption DEF PreciseJobs, Local
<1>2. CASE j.style = "named"
  <2>1. TypeKey(j) = {} /\ ParamsKey(j) = NoPage
    BY <1>2 DEF TypeKey, ParamsKey, Remote
  <2>2. ~UseSplit(j)
    BY <2>1 DEF UseSplit
  <2>. QED BY <1>2, <2>2 DEF InstanceFor, AttachMeta
<1>3. CASE j.style # "named"
  <2>1. TypeKey(j) = {SqlColumns(j)}
    BY <1>1, <1>3 DEF TypeKey, PreciseJobs
  <2>2. Needs(j) = SqlColumns(j)
    BY <1>1, <1>3 DEF Needs, Remote
  <2>3. UseSplit(j)
    BY <1>1, <2>1 DEF UseSplit
  <2>. QED BY <1>1, <1>3, <2>1, <2>2, <2>3 DEF InstanceFor, AttachMeta
<1>. QED BY <1>2, <1>3

\* A batch selects the columns its instance is dedicated to, at least.
LEMMA SplitReadColumns ==
  ASSUME SplitInv, NEW i, i.type # {} => \E m \in meta : m.inst = i
  PROVE  IF i.type = {} THEN ReadColumns(i) = Columns
                        ELSE UNION i.type \subseteq ReadColumns(i)
<1>1. \A c : c \in Attached(i) <=> \E m \in meta : m.inst = i /\ m.cols = c
  BY DEF Attached
<1>2. CASE i.type = {}
  <2>1. Attached(i) = {}
    BY <1>1, <1>2 DEF SplitInv
  <2>. QED BY <1>2, <2>1 DEF ReadColumns
<1>3. CASE i.type # {}
  <2>1. PICK m \in meta : m.inst = i
    BY <1>3
  <2>2. i.type = {m.cols} /\ \A n \in meta : n.inst = i => n.cols = m.cols
    BY <2>1 DEF SplitInv
  <2>3. Attached(i) = {m.cols}
    BY <1>1, <2>1, <2>2
  <2>4. UNION {m.cols} = m.cols
    OBVIOUS
  <2>. QED BY <1>3, <2>2, <2>3, <2>4 DEF ReadColumns
<1>. QED BY <1>2, <1>3

\* Every step keeps an instance to the columns of its type key.
LEMMA SplitStep ==
  ASSUME PreciseJobs
  PROVE  TypeInv /\ SplitInv /\ [Next]_vars => SplitInv'
<1>. SUFFICES ASSUME TypeOK, GenerationLive, SplitInv, [Next]_vars
              PROVE  SplitInv'
  BY DEF TypeInv
<1>a. CASE /\ meta' = meta /\ queued' \subseteq queued
           /\ batches' \subseteq batches /\ rows' = rows
           /\ \A r \in Requests : waits'[r] \subseteq waits[r]
  BY <1>a DEF SplitInv, Reads
<1>1. ASSUME NEW r \in Requests, NEW j \in Jobs, StartJob(r, j)
      PROVE  SplitInv'
  <2>1. PICK i : i = InstanceFor(j)
    OBVIOUS
  <2>2. PICK fresh : fresh = LoadKeysOf(j) \ Held(i)
    OBVIOUS
  <2>3. PICK w : w = [inst |-> i, job |-> j, fresh |-> fresh]
    OBVIOUS
  <2>4. /\ meta' = AttachMeta(j, i)
        /\ queued' = queued \cup [inst : {i}, key : fresh]
        /\ waits' = [waits EXCEPT ![r] = @ \cup {w}]
        /\ UNCHANGED <<batches, rows>>
    BY <1>1, <2>1, <2>2, <2>3 DEF StartJob
  <2>5. /\ \A m \in meta' : m.inst.type = {m.cols}
        /\ \A m \in meta : \E n \in meta' : n.inst = m.inst
        /\ i.type # {} => \E n \in meta' : n.inst = i
        /\ i.type = IF j.style = "named" THEN {} ELSE {Needs(j)}
    <3>1. CASE j.style = "named"
      BY <2>1, <2>4, <3>1, PreciseInstance DEF SplitInv
    <3>2. CASE j.style # "named"
      <4>1. PICK n : n = [inst |-> i, cols |-> Needs(j)]
        OBVIOUS
      <4>2. i.type = {Needs(j)} /\ meta' = {m \in meta : m.inst # i} \cup {n}
        BY <2>1, <2>4, <3>2, <4>1, PreciseInstance
      <4>3. n.inst = i /\ n.cols = Needs(j)
        BY <4>1
      <4>. QED BY <3>2, <4>2, <4>3 DEF SplitInv
    <3>. QED BY <3>1, <3>2
  <2>6. Reads' = Reads
    BY <2>4 DEF Reads
  <2>7. ASSUME NEW q \in queued', q.inst.type # {}
        PROVE  \E m \in meta' : m.inst = q.inst
    <3>1. CASE q \in queued
      BY <2>5, <2>7, <3>1 DEF SplitInv
    <3>2. CASE q.inst = i
      BY <2>5, <2>7, <3>2
    <3>. QED BY <2>4, <2>7, <3>1, <3>2
  <2>8. ASSUME NEW s \in Requests, NEW v \in waits'[s]
        PROVE  v.inst.type = IF v.job.style = "named" THEN {} ELSE {Needs(v.job)}
    <3>1. CASE v \in waits[s]
      BY <3>1 DEF SplitInv
    <3>2. CASE v = w
      <4>1. v.inst = i /\ v.job = j
        BY <2>3, <3>2
      <4>. QED BY <2>5, <4>1
    <3>. QED BY <2>4, <2>8, <3>1, <3>2 DEF TypeOK
  <2>9. \A b \in batches' : b.inst.type # {} => \E m \in meta' : m.inst = b.inst
    BY <2>4, <2>5 DEF SplitInv
  <2>10. \A x \in Reads' : IF x.inst.type = {} THEN x.cols = Columns
                                                ELSE UNION x.inst.type \subseteq x.cols
    BY <2>6 DEF SplitInv
  <2>. QED BY <2>5, <2>7, <2>8, <2>9, <2>10 DEF SplitInv
<1>2. ASSUME NEW d \in queued, Dispatch(d.inst)
      PROVE  SplitInv'
  <2>1. PICK n : /\ batches' = batches \cup {n}
                 /\ n.inst = d.inst /\ n.phase = "taken"
    <3>. WITNESS [inst |-> d.inst, keys |-> QueuedKeys(d.inst), phase |-> "taken",
                  cols |-> {}, page |-> NoPage, begun |-> {}]
    <3>. QED BY <1>2 DEF Dispatch
  <2>2. queued' \subseteq queued /\ UNCHANGED <<meta, rows, waits>>
    BY <1>2 DEF Dispatch
  <2>3. Reads' = Reads
    BY <2>1, <2>2 DEF Reads
  <2>. QED BY <2>1, <2>2, <2>3 DEF SplitInv
<1>3. ASSUME NEW b \in batches, RunBatch(b)
      PROVE  SplitInv'
  <2>1. PICK n : /\ batches' = (batches \ {b}) \cup {n}
                 /\ n.inst = b.inst /\ n.cols = ReadColumns(b.inst)
    <3>1. PICK p \in ReadPages(b) :
            batches' = (batches \ {b}) \cup
              {[inst |-> b.inst, keys |-> b.keys, phase |-> "running",
                cols |-> ReadColumns(b.inst), page |-> p, begun |-> Begun]}
      BY <1>3 DEF RunBatch
    <3>. WITNESS [inst |-> b.inst, keys |-> b.keys, phase |-> "running",
                  cols |-> ReadColumns(b.inst), page |-> p, begun |-> Begun]
    <3>. QED BY <3>1
  <2>2. UNCHANGED <<meta, queued, rows, waits>>
    BY <1>3 DEF RunBatch
  <2>3. Reads' \subseteq Reads \cup {n}
    BY <2>1, <2>2 DEF Reads
  <2>4. IF n.inst.type = {} THEN n.cols = Columns ELSE UNION n.inst.type \subseteq n.cols
    <3>1. b.inst.type # {} => \E m \in meta : m.inst = b.inst
      BY DEF SplitInv
    <3>. QED BY <2>1, <3>1, SplitReadColumns
  <2>5. \A c \in batches' : c.inst.type # {} => \E m \in meta' : m.inst = c.inst
    BY <2>1, <2>2 DEF SplitInv
  <2>6. \A x \in Reads' : IF x.inst.type = {} THEN x.cols = Columns
                                               ELSE UNION x.inst.type \subseteq x.cols
    BY <2>3, <2>4 DEF SplitInv
  <2>. QED BY <2>2, <2>5, <2>6 DEF SplitInv
<1>4. ASSUME NEW b \in batches, BatchOk(b)
      PROVE  SplitInv'
  <2>. DEFINE new == [inst : {b.inst}, key : b.keys, cols : {b.cols},
                      page : {b.page}, begun : {b.begun}]
  <2>1. /\ batches' = batches \ {b} /\ rows' = rows \cup new
        /\ UNCHANGED <<meta, queued, waits>>
        /\ b \in Reads
    BY <1>4 DEF BatchOk, Reads
  <2>2. \A x \in new : x.inst = b.inst /\ x.cols = b.cols
    OBVIOUS
  <2>. HIDE DEF new
  <2>3. Reads' \subseteq Reads \cup new
    BY <2>1 DEF Reads
  <2>4. \A x \in Reads' : IF x.inst.type = {} THEN x.cols = Columns
                                               ELSE UNION x.inst.type \subseteq x.cols
    BY <2>1, <2>2, <2>3 DEF SplitInv
  <2>. QED BY <2>1, <2>4 DEF SplitInv
<1>5. ASSUME NEW b \in batches, BatchFail(b)
      PROVE  SplitInv'
  BY <1>5, <1>a DEF BatchFail
<1>6. ASSUME NEW r \in Requests,
             \/ BeginRequest(r) \/ BeginLevel(r) \/ Suspend(r)
             \/ EndLevel(r) \/ FinishRequest(r) \/ \E j \in Jobs : ClashJob(r, j)
      PROVE  SplitInv'
  BY <1>6, <1>a DEF BeginRequest, BeginLevel, Suspend, EndLevel, FinishRequest,
                    ClashJob, TypeOK
<1>7. CASE UNCHANGED vars
  BY <1>7, <1>a DEF vars
<1>. QED
  BY <1>1, <1>2, <1>3, <1>4, <1>5, <1>6, <1>7
  DEF Next, StartStep, BatchStep, Terminated

\* With split_loader_by_type, whatever the requests select and however they
\* overlap, no consumer of a local relationship gets a row without its
\* columns, a Loader("rel") that reads the whole row included.
THEOREM SplitModeCovers ==
  ASSUME PreciseJobs
  PROVE  Spec => []RowsCoverSelection
<1>1. Init => SplitInv
  BY DEF Init, SplitInv, Reads
<1>2. TypeInv /\ SplitInv => RowsCoverSelection
  <2>1. ASSUME TypeOK, SplitInv, NEW r \in Requests, NEW w \in waits[r],
               NEW x \in rows, x.inst = w.inst
        PROVE  Needs(w.job) \subseteq x.cols
    <3>1. x \in Reads
      BY DEF Reads
    <3>2. CASE w.job.style = "named"
      <4>1. w.job \in Jobs
        BY <2>1 DEF TypeOK, Wait
      <4>2. Needs(w.job) \subseteq Columns
        BY <4>1, JobColumns
      <4>. QED BY <2>1, <3>1, <3>2, <4>2 DEF SplitInv
    <3>3. CASE w.job.style # "named"
      <4>1. x.inst.type = {Needs(w.job)}
        BY <2>1, <3>3 DEF SplitInv
      <4>2. x.inst.type # {}
        BY <4>1
      <4>3. UNION x.inst.type \subseteq x.cols
        <5>1. \A y \in Reads : y.inst.type # {} => UNION y.inst.type \subseteq y.cols
          BY <2>1 DEF SplitInv
        <5>. QED BY <3>1, <4>2, <5>1
      <4>4. Needs(w.job) \subseteq UNION x.inst.type
        BY <4>1
      <4>. QED BY <4>3, <4>4
    <3>. QED BY <3>2, <3>3
  <2>. QED BY <2>1 DEF TypeInv, RowsCoverSelection, Received
<1>3. Spec => []TypeInv
  BY TypeInit, TypeStep, PTL DEF Spec
<1>4. TypeInv /\ SplitInv /\ [Next]_vars => SplitInv'
  BY SplitStep
<1>. QED BY <1>1, <1>2, <1>3, <1>4, PTL DEF Spec

-----------------------------------------------------------------------------
(* Pages.                                                                  *)

\* Pages are asked for by auto-loaded fields and of remote loaders only: a
\* GraphQL query pages no local relationship twice at one level.
OwnPages == \A j \in Jobs : j.style \in {"entity", "named"} => j.page = NoPage

\* An instance is dedicated to the page in its params, and one without
\* params is never asked for a page.
PagesInv ==
  /\ \A q \in queued : q.inst.params = NoPage => q.key[2] = NoPage
  /\ \A b \in batches : b.inst.params = NoPage => \A k \in b.keys : k[2] = NoPage
  /\ \A x \in Reads : x.page = x.inst.params
  /\ \A r \in Requests : \A w \in waits[r] : w.inst.params = w.job.page

\* A job gets the instance of its page.
LEMMA PagedInstance ==
  ASSUME OwnPages, NEW j \in Jobs
  PROVE  /\ InstanceFor(j).params = j.page
         /\ j.page = NoPage => \A k \in LoadKeysOf(j) : k[2] = NoPage
<1>1. ParamsKey(j) = j.page
  <2>1. j.style \in Local \cup Remote
    BY JobColumns DEF JobType
  <2>. QED BY <2>1 DEF ParamsKey, OwnPages, Local, Remote
<1>2. InstanceFor(j).params = j.page
  BY <1>1 DEF InstanceFor, UseSplit
<1>3. ASSUME j.page = NoPage, NEW k \in LoadKeysOf(j) PROVE k[2] = NoPage
  BY <1>3 DEF LoadKeysOf, LoadKey
<1>. QED BY <1>2, <1>3

\* Every step keeps an instance to the page of its params key.
LEMMA PagesStep ==
  ASSUME OwnPages
  PROVE  TypeInv /\ PagesInv /\ [Next]_vars => PagesInv'
<1>. SUFFICES ASSUME TypeOK, GenerationLive, PagesInv, [Next]_vars
              PROVE  PagesInv'
  BY DEF TypeInv
<1>a. CASE /\ queued' \subseteq queued /\ batches' \subseteq batches /\ rows' = rows
           /\ \A r \in Requests : waits'[r] \subseteq waits[r]
  BY <1>a DEF PagesInv, Reads
<1>1. ASSUME NEW r \in Requests, NEW j \in Jobs, StartJob(r, j)
      PROVE  PagesInv'
  <2>1. PICK i : i = InstanceFor(j)
    OBVIOUS
  <2>2. PICK fresh : fresh = LoadKeysOf(j) \ Held(i)
    OBVIOUS
  <2>3. PICK w : w = [inst |-> i, job |-> j, fresh |-> fresh]
    OBVIOUS
  <2>4. /\ queued' = queued \cup [inst : {i}, key : fresh]
        /\ waits' = [waits EXCEPT ![r] = @ \cup {w}]
        /\ UNCHANGED <<batches, rows>>
    BY <1>1, <2>1, <2>2, <2>3 DEF StartJob
  <2>5. /\ i.params = j.page
        /\ j.page = NoPage => \A k \in fresh : k[2] = NoPage
    BY <2>1, <2>2, PagedInstance
  <2>6. Reads' = Reads
    BY <2>4 DEF Reads
  <2>7. ASSUME NEW q \in queued', q.inst.params = NoPage PROVE q.key[2] = NoPage
    <3>1. CASE q \in queued
      BY <2>7, <3>1 DEF PagesInv
    <3>2. CASE q.inst = i /\ q.key \in fresh
      BY <2>5, <2>7, <3>2
    <3>. QED BY <2>4, <2>7, <3>1, <3>2
  <2>8. ASSUME NEW s \in Requests, NEW v \in waits'[s]
        PROVE  v.inst.params = v.job.page
    <3>1. CASE v \in waits[s]
      BY <3>1 DEF PagesInv
    <3>2. CASE v = w
      BY <2>3, <2>5, <3>2
    <3>. QED BY <2>4, <2>8, <3>1, <3>2 DEF TypeOK
  <2>. QED BY <2>4, <2>6, <2>7, <2>8 DEF PagesInv
<1>2. ASSUME NEW d \in queued, Dispatch(d.inst)
      PROVE  PagesInv'
  <2>1. PICK n : /\ batches' = batches \cup {n} /\ n.keys = QueuedKeys(d.inst)
                 /\ n.inst = d.inst /\ n.phase = "taken"
    <3>. WITNESS [inst |-> d.inst, keys |-> QueuedKeys(d.inst), phase |-> "taken",
                  cols |-> {}, page |-> NoPage, begun |-> {}]
    <3>. QED BY <1>2 DEF Dispatch
  <2>2. queued' \subseteq queued /\ UNCHANGED <<rows, waits>>
    BY <1>2 DEF Dispatch
  <2>3. Reads' = Reads
    BY <2>1, <2>2 DEF Reads
  <2>4. n.inst.params = NoPage => \A k \in n.keys : k[2] = NoPage
    BY <2>1 DEF QueuedKeys, PagesInv
  <2>. QED BY <2>1, <2>2, <2>3, <2>4 DEF PagesInv
<1>3. ASSUME NEW b \in batches, RunBatch(b)
      PROVE  PagesInv'
  <2>1. PICK n : /\ batches' = (batches \ {b}) \cup {n} /\ n.keys = b.keys
                 /\ n.inst = b.inst /\ n.page \in ReadPages(b)
    <3>1. PICK p \in ReadPages(b) :
            batches' = (batches \ {b}) \cup
              {[inst |-> b.inst, keys |-> b.keys, phase |-> "running",
                cols |-> ReadColumns(b.inst), page |-> p, begun |-> Begun]}
      BY <1>3 DEF RunBatch
    <3>. WITNESS [inst |-> b.inst, keys |-> b.keys, phase |-> "running",
                  cols |-> ReadColumns(b.inst), page |-> p, begun |-> Begun]
    <3>. QED BY <3>1
  <2>2. UNCHANGED <<queued, rows, waits>>
    BY <1>3 DEF RunBatch
  <2>3. Reads' \subseteq Reads \cup {n}
    BY <2>1, <2>2 DEF Reads
  <2>4. n.page = n.inst.params
    BY <2>1 DEF ReadPages, PagesInv
  <2>. QED BY <2>1, <2>2, <2>3, <2>4 DEF PagesInv
<1>4. ASSUME NEW b \in batches, BatchOk(b)
      PROVE  PagesInv'
  <2>. DEFINE new == [inst : {b.inst}, key : b.keys, cols : {b.cols},
                      page : {b.page}, begun : {b.begun}]
  <2>1. /\ batches' = batches \ {b} /\ rows' = rows \cup new
        /\ UNCHANGED <<queued, waits>>
        /\ b \in Reads
    BY <1>4 DEF BatchOk, Reads
  <2>2. \A x \in new : x.inst = b.inst /\ x.page = b.page
    OBVIOUS
  <2>. HIDE DEF new
  <2>3. Reads' \subseteq Reads \cup new
    BY <2>1 DEF Reads
  <2>. QED BY <2>1, <2>2, <2>3 DEF PagesInv
<1>5. ASSUME NEW b \in batches, BatchFail(b)
      PROVE  PagesInv'
  BY <1>5, <1>a DEF BatchFail
<1>6. ASSUME NEW r \in Requests,
             \/ BeginRequest(r) \/ BeginLevel(r) \/ Suspend(r)
             \/ EndLevel(r) \/ FinishRequest(r) \/ \E j \in Jobs : ClashJob(r, j)
      PROVE  PagesInv'
  BY <1>6, <1>a DEF BeginRequest, BeginLevel, Suspend, EndLevel, FinishRequest,
                    ClashJob, TypeOK
<1>7. CASE UNCHANGED vars
  BY <1>7, <1>a DEF vars
<1>. QED
  BY <1>1, <1>2, <1>3, <1>4, <1>5, <1>6, <1>7
  DEF Next, StartStep, BatchStep, Terminated

\* The package read for a page is the slice asked for by that page.
LEMMA PageReadIsDue ==
  ASSUME NEW style, NEW p \in Pages, NEW list \in Collections
  PROVE  PageRead(style, p, list) = PageDue(style, p, list)
<1>1. IsPaged(Declared[p]) /\ IsRaw(Raw[p]) /\ list \in Seq(Int)
  BY LoadersAssumption
<1>2. LocalPage(Merged(p), list) = PageAsked(Declared[p], Raw[p], list)
  BY <1>1, LocalPageIsAsked DEF Merged
<1>3. RemotePage(Merged(p), list) = RemotePageAsked(Declared[p], Raw[p], list)
  BY <1>1, RemotePageIsAsked DEF Merged
<1>. QED BY <1>2, <1>3 DEF PageRead, PageDue

\* However many page sizes share a relationship, and however requests
\* overlap, each consumer gets the page it asked for.
THEOREM PagesHonoured ==
  ASSUME OwnPages
  PROVE  Spec => []PageParamsHonoured
<1>1. Init => PagesInv
  BY DEF Init, PagesInv, Reads
<1>2. TypeInv /\ PagesInv => PageParamsHonoured
  <2>1. ASSUME TypeOK, PagesInv, NEW r \in Requests, NEW w \in waits[r],
               NEW x \in rows, x.inst = w.inst
        PROVE  /\ x.page = w.job.page
               /\ w.job.page # NoPage => x.page \in Pages
    <3>1. x.page = w.job.page
      BY <2>1 DEF PagesInv, Reads
    <3>2. x.page \in Pages \cup {NoPage}
      BY <2>1 DEF TypeOK, Row
    <3>. QED BY <3>1, <3>2
  <2>. QED BY <2>1, PageReadIsDue DEF TypeInv, PageParamsHonoured, Received
<1>3. Spec => []TypeInv
  BY TypeInit, TypeStep, PTL DEF Spec
<1>4. TypeInv /\ PagesInv /\ [Next]_vars => PagesInv'
  BY PagesStep
<1>. QED BY <1>1, <1>2, <1>3, <1>4, PTL DEF Spec

-----------------------------------------------------------------------------
(* Metadata merged before a batch runs is not lost.                        *)

\* Selections over local relationships, whose metadata are merged, and DTOs
\* with loaders of their own: in split mode, or with a page.
MergingJobs ==
  \A j \in Jobs : \/ j.style = "entity"
                  \/ j.style = "dto" /\ (SplitMode \/ j.page # NoPage)

\* A typed instance carries the columns of its type; what a request awaits
\* is among the columns attached to its instance, and among those a batch
\* or row has for the keys the request queued itself.
FreshInv ==
  /\ \A m \in meta : m.inst.type # {} => m.inst.type = {m.cols}
  /\ \A r \in Requests : \A w \in waits[r] :
       /\ Needs(w.job) \subseteq UNION Attached(w.inst)
       /\ \A b \in batches : b.phase = "running" /\ b.inst = w.inst
                             /\ w.fresh \cap b.keys # {} => Needs(w.job) \subseteq b.cols
       /\ \A x \in rows : x.inst = w.inst /\ x.key \in w.fresh
                          => Needs(w.job) \subseteq x.cols

\* A job either has an instance of its own columns or merges its columns
\* onto the instance it shares.
LEMMA MergingInstance ==
  ASSUME MergingJobs, NEW j \in Jobs, NEW i, i = InstanceFor(j)
  PROVE  \E cols :
           /\ AttachMeta(j, i) = {m \in meta : m.inst # i} \cup {[inst |-> i, cols |-> cols]}
           /\ \/ i.type = {Needs(j)} /\ cols = Needs(j)
              \/ i.type = {} /\ cols = Needs(j) \cup UNION Attached(i)
<1>1. /\ j.style \in {"entity", "dto"}
      /\ j.style = "dto" => SplitMode \/ j.page # NoPage
  BY DEF MergingJobs
<1>2. Needs(j) = SqlColumns(j)
  BY <1>1 DEF Needs, Remote
<1>3. CASE j.style = "dto" \/ (SplitMode /\ TypeKey(j) # {})
  <2>1. TypeKey(j) = {SqlColumns(j)}
    BY <1>1, <1>3 DEF TypeKey
  <2>2. UseSplit(j)
    BY <1>1, <1>3, <2>1 DEF UseSplit, ParamsKey
  <2>3. i.type = {Needs(j)}
    BY <1>2, <2>1, <2>2 DEF InstanceFor
  <2>4. AttachMeta(j, i) = {m \in meta : m.inst # i} \cup {[inst |-> i, cols |-> Needs(j)]}
    BY <1>1, <1>3 DEF AttachMeta
  <2>. QED BY <2>3, <2>4
<1>4. CASE j.style = "entity" /\ ~(SplitMode /\ TypeKey(j) # {})
  <2>1. ParamsKey(j) = NoPage
    BY <1>4 DEF ParamsKey, Remote
  <2>2. ~UseSplit(j)
    BY <1>4, <2>1 DEF UseSplit, Remote
  <2>3. i.type = {}
    BY <2>2 DEF InstanceFor
  <2>4. AttachMeta(j, i) = {m \in meta : m.inst # i} \cup
                           {[inst |-> i, cols |-> Needs(j) \cup UNION Attached(i)]}
    BY <1>2, <1>4 DEF AttachMeta
  <2>. QED BY <2>3, <2>4
<1>. QED BY <1>1, <1>3, <1>4

\* Starting a job takes no column away from any instance.
LEMMA AttachedGrows ==
  ASSUME MergingJobs, FreshInv, NEW j \in Jobs, NEW i, i = InstanceFor(j),
         meta' = AttachMeta(j, i)
  PROVE  /\ \A m \in meta' : m.inst.type # {} => m.inst.type = {m.cols}
         /\ Needs(j) \subseteq (UNION Attached(i))'
         /\ \A h : UNION Attached(h) \subseteq (UNION Attached(h))'
<1>1. PICK cols : /\ meta' = {m \in meta : m.inst # i} \cup {[inst |-> i, cols |-> cols]}
                  /\ \/ i.type = {Needs(j)} /\ cols = Needs(j)
                     \/ i.type = {} /\ cols = Needs(j) \cup UNION Attached(i)
  BY MergingInstance
<1>2. PICK n : n = [inst |-> i, cols |-> cols]
  OBVIOUS
<1>3. meta' = {m \in meta : m.inst # i} \cup {n} /\ n.inst = i /\ n.cols = cols
  BY <1>1, <1>2
<1>4. \A h, c : c \in Attached(h) <=> \E m \in meta : m.inst = h /\ m.cols = c
  BY DEF Attached
<1>5. \A h, c : c \in Attached(h)' <=> \E m \in meta' : m.inst = h /\ m.cols = c
  BY DEF Attached
<1>6. \A m \in meta' : m.inst.type # {} => m.inst.type = {m.cols}
  BY <1>1, <1>3 DEF FreshInv
<1>7. cols \in Attached(i)'
  BY <1>3, <1>5
<1>8. UNION Attached(i) \subseteq cols
  <2>1. CASE i.type = {Needs(j)} /\ cols = Needs(j)
    <3>1. \A m \in meta : m.inst = i => m.cols = cols
      BY <2>1 DEF FreshInv
    <3>. QED BY <1>4, <3>1
  <2>2. CASE i.type = {} /\ cols = Needs(j) \cup UNION Attached(i)
    BY <2>2
  <2>. QED BY <1>1, <2>1, <2>2
<1>9. ASSUME NEW h PROVE UNION Attached(h) \subseteq (UNION Attached(h))'
  <2>1. CASE h = i
    BY <1>7, <1>8, <2>1
  <2>2. CASE h # i
    BY <1>3, <1>4, <1>5, <2>2
  <2>. QED BY <2>1, <2>2
<1>10. Needs(j) \subseteq (UNION Attached(i))'
  BY <1>1, <1>7
<1>. QED BY <1>6, <1>9, <1>10

\* Every step keeps the columns of a request on its way to it.
LEMMA FreshStep ==
  ASSUME MergingJobs
  PROVE  TypeInv /\ FreshInv /\ [Next]_vars => FreshInv'
<1>. SUFFICES ASSUME TypeOK, GenerationLive, FreshInv, [Next]_vars
              PROVE  FreshInv'
  BY DEF TypeInv
<1>a. ASSUME meta' = meta
      PROVE  \A h : Attached(h)' = Attached(h)
  BY <1>a DEF Attached
<1>b. CASE /\ meta' = meta /\ batches' \subseteq batches /\ rows' = rows
           /\ \A r \in Requests : waits'[r] \subseteq waits[r]
  BY <1>a, <1>b DEF FreshInv
<1>1. ASSUME NEW r \in Requests, NEW j \in Jobs, StartJob(r, j)
      PROVE  FreshInv'
  <2>1. PICK i : i = InstanceFor(j)
    OBVIOUS
  <2>2. PICK fresh : fresh = LoadKeysOf(j) \ Held(i)
    OBVIOUS
  <2>3. PICK w : w = [inst |-> i, job |-> j, fresh |-> fresh]
    OBVIOUS
  <2>4. /\ meta' = AttachMeta(j, i)
        /\ waits' = [waits EXCEPT ![r] = @ \cup {w}]
        /\ UNCHANGED <<batches, rows>>
    BY <1>1, <2>1, <2>2, <2>3 DEF StartJob
  <2>5. /\ \A m \in meta' : m.inst.type # {} => m.inst.type = {m.cols}
        /\ Needs(j) \subseteq (UNION Attached(i))'
        /\ \A h : UNION Attached(h) \subseteq (UNION Attached(h))'
    BY <2>1, <2>4, AttachedGrows
  <2>6. /\ \A b \in batches : b.inst = i => fresh \cap b.keys = {}
        /\ \A x \in rows : x.inst = i => x.key \notin fresh
    BY <2>2, HeldMembers
  <2>7. ASSUME NEW s \in Requests, NEW v \in waits'[s]
        PROVE  /\ Needs(v.job) \subseteq (UNION Attached(v.inst))'
               /\ \A b \in batches : b.phase = "running" /\ b.inst = v.inst
                    /\ v.fresh \cap b.keys # {} => Needs(v.job) \subseteq b.cols
               /\ \A x \in rows : x.inst = v.inst /\ x.key \in v.fresh
                    => Needs(v.job) \subseteq x.cols
    <3>1. CASE v \in waits[s]
      <4>1. Needs(v.job) \subseteq UNION Attached(v.inst)
        BY <3>1 DEF FreshInv
      <4>2. UNION Attached(v.inst) \subseteq (UNION Attached(v.inst))'
        BY <2>5
      <4>3. Needs(v.job) \subseteq (UNION Attached(v.inst))'
        BY <4>1, <4>2
      <4>. QED BY <3>1, <4>3 DEF FreshInv
    <3>2. CASE v = w
      <4>1. v.inst = i /\ v.job = j /\ v.fresh = fresh
        BY <2>3, <3>2
      <4>. QED BY <2>5, <2>6, <4>1
    <3>. QED BY <2>4, <2>7, <3>1, <3>2 DEF TypeOK
  <2>. QED BY <2>4, <2>5, <2>7 DEF FreshInv
<1>2. ASSUME NEW d \in queued, Dispatch(d.inst)
      PROVE  FreshInv'
  <2>1. PICK n : batches' = batches \cup {n} /\ n.phase = "taken"
    <3>. WITNESS [inst |-> d.inst, keys |-> QueuedKeys(d.inst), phase |-> "taken",
                  cols |-> {}, page |-> NoPage, begun |-> {}]
    <3>. QED BY <1>2 DEF Dispatch
  <2>2. UNCHANGED <<meta, rows, waits>>
    BY <1>2 DEF Dispatch
  <2>. QED BY <1>a, <2>1, <2>2 DEF FreshInv
<1>3. ASSUME NEW b \in batches, RunBatch(b)
      PROVE  FreshInv'
  <2>1. PICK n : /\ batches' = (batches \ {b}) \cup {n}
                 /\ n.inst = b.inst /\ n.cols = ReadColumns(b.inst)
    <3>1. PICK p \in ReadPages(b) :
            batches' = (batches \ {b}) \cup
              {[inst |-> b.inst, keys |-> b.keys, phase |-> "running",
                cols |-> ReadColumns(b.inst), page |-> p, begun |-> Begun]}
      BY <1>3 DEF RunBatch
    <3>. WITNESS [inst |-> b.inst, keys |-> b.keys, phase |-> "running",
                  cols |-> ReadColumns(b.inst), page |-> p, begun |-> Begun]
    <3>. QED BY <3>1
  <2>2. UNCHANGED <<meta, rows, waits>>
    BY <1>3 DEF RunBatch
  <2>3. UNION Attached(b.inst) \subseteq n.cols
    BY <2>1 DEF ReadColumns
  <2>4. \A r \in Requests : \A w \in waits[r] :
          n.inst = w.inst => Needs(w.job) \subseteq n.cols
    BY <2>1, <2>3 DEF FreshInv
  <2>. QED BY <1>a, <2>1, <2>2, <2>4 DEF FreshInv
<1>4. ASSUME NEW b \in batches, BatchOk(b)
      PROVE  FreshInv'
  <2>. DEFINE new == [inst : {b.inst}, key : b.keys, cols : {b.cols},
                      page : {b.page}, begun : {b.begun}]
  <2>1. /\ batches' = batches \ {b} /\ rows' = rows \cup new
        /\ UNCHANGED <<meta, waits>>
        /\ b.phase = "running"
    BY <1>4 DEF BatchOk
  <2>2. \A x \in new : x.inst = b.inst /\ x.key \in b.keys /\ x.cols = b.cols
    OBVIOUS
  <2>. HIDE DEF new
  <2>3. ASSUME NEW r \in Requests, NEW w \in waits[r], NEW x \in new,
               x.inst = w.inst, x.key \in w.fresh
        PROVE  Needs(w.job) \subseteq x.cols
    BY <2>1, <2>2, <2>3 DEF FreshInv
  <2>. QED BY <1>a, <2>1, <2>3 DEF FreshInv
<1>5. ASSUME NEW b \in batches, BatchFail(b)
      PROVE  FreshInv'
  BY <1>5, <1>b DEF BatchFail
<1>6. ASSUME NEW r \in Requests,
             \/ BeginRequest(r) \/ BeginLevel(r) \/ Suspend(r)
             \/ EndLevel(r) \/ FinishRequest(r) \/ \E j \in Jobs : ClashJob(r, j)
      PROVE  FreshInv'
  BY <1>6, <1>b DEF BeginRequest, BeginLevel, Suspend, EndLevel, FinishRequest,
                    ClashJob, TypeOK
<1>7. CASE UNCHANGED vars
  BY <1>7, <1>b DEF vars
<1>. QED
  BY <1>1, <1>2, <1>3, <1>4, <1>5, <1>6, <1>7
  DEF Next, StartStep, BatchStep, Terminated

\* For the keys it put in the queue itself, a request gets every column its
\* selection or DTO names, whatever joins the loader before the batch runs.
THEOREM FreshCover ==
  ASSUME MergingJobs
  PROVE  Spec => []FreshRowsCoverSelection
<1>1. Init => FreshInv
  BY DEF Init, FreshInv
<1>2. FreshInv => FreshRowsCoverSelection
  BY DEF FreshInv, FreshRowsCoverSelection, Received
<1>3. Spec => []TypeInv
  BY TypeInit, TypeStep, PTL DEF Spec
<1>4. TypeInv /\ FreshInv /\ [Next]_vars => FreshInv'
  BY FreshStep
<1>. QED BY <1>1, <1>2, <1>3, <1>4, PTL DEF Spec
=============================================================================
