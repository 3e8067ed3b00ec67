------------------------------- MODULE Paging -------------------------------
(***************************************************************************)
(* The arithmetic of a page: the arguments of a caller merged with the     *)
(* declared default, the window of rows a page loader or a member's        *)
(* page_by_<key>_in root reads, and the package it makes of them.          *)
(*                                                                         *)
(* The rows of one key are a sequence, in the order of the page; an order  *)
(* profile and a direction choose that sequence and are passed on beside   *)
(* limit and offset.  An optional argument is the empty set or the set of  *)
(* its value.                                                              *)
(***************************************************************************)
EXTENDS Integers, Sequences

CONSTANTS
  DefaultPageSize,  \* RelationshipInfo.default_page_size
  MaxPageSize,      \* RelationshipInfo.max_page_size
  Stray             \* a value that is neither a number nor None

ASSUME PagingAssumption ==
  /\ DefaultPageSize \in Nat \ {0}
  /\ MaxPageSize \in Nat \ {0}
  /\ Stray \notin Nat

Smaller(a, b) == IF a <= b THEN a ELSE b
Value(option) == CHOOSE v \in option : TRUE
AtMostOne(option) == \A v, w \in option : v = w

\* Paged, and the raw arguments of a call.
IsPaged(p) == p.limit \subseteq Nat /\ AtMostOne(p.limit) /\ p.offset \in Nat
IsRaw(raw) ==
  /\ raw.limit \subseteq Nat \cup {Stray} /\ AtMostOne(raw.limit)
  /\ raw.offset \subseteq Nat \cup {Stray} /\ AtMostOne(raw.offset)

\* _PagedOverride.from_dict: stray values count as omitted.
FromDict(raw) == [limit |-> raw.limit \ {Stray}, offset |-> raw.offset \ {Stray}]

\* Resolver._merge_paged, and paged_from_selection with the empty Paged() as
\* default: a given zero is not an omission.
MergePaged(default, caller) ==
  [limit |-> IF caller.limit = {} THEN default.limit ELSE caller.limit,
   offset |-> IF caller.offset = {} THEN default.offset ELSE Value(caller.offset)]

\* Paged.clamp
Clamp(p) == [limit |-> {Smaller(v, MaxPageSize) : v \in p.limit}, offset |-> p.offset]

\* PageArgs.effective_limit: the default is not bounded by the maximum.
EffectiveLimit(p) ==
  IF p.limit = {} THEN DefaultPageSize ELSE Smaller(Value(p.limit), MaxPageSize)

\* Rows numbered offset + 1 .. offset + limit + 1: one more than the page.
Window(p, rows) ==
  SubSeq(rows, p.offset + 1, Smaller(p.offset + 1 + EffectiveLimit(p), Len(rows)))

\* The number of rows a row of the window carries, or a second query counts
\* when the window is empty.
TotalCount(rows) == Len(rows)

\* _build_page_result of the local page loaders.
LocalPage(p, rows) ==
  LET window == Window(p, rows)
      limit == EffectiveLimit(p)
  IN [items |-> SubSeq(window, 1, Smaller(limit, Len(window))),
      more |-> Len(window) > limit,
      total |-> TotalCount(rows)]

\* The package of one key that page_by_<key>_in returns.
RootPage(p, rows) ==
  LET window == Window(p, rows)
      limit == EffectiveLimit(p)
  IN [items |-> SubSeq(window, 1, Smaller(limit, Len(window))),
      more |-> limit > 0 /\ Len(window) > limit,
      total |-> TotalCount(rows)]

\* fetch_remote_subtree: clamped here, and cut by the member.
RemotePage(p, rows) == RootPage(Clamp(p), rows)

-----------------------------------------------------------------------------
(* What a caller asks for, said without windows.                           *)

\* The limit in force: the caller's, else the declared one, both bounded by
\* the maximum, else the default size.
LimitAsked(default, raw) ==
  LET given == {v \in raw.limit : v # Stray}
  IN CASE given # {} -> Smaller(Value(given), MaxPageSize)
       [] given = {} /\ default.limit # {} -> Smaller(Value(default.limit), MaxPageSize)
       [] OTHER -> DefaultPageSize
OffsetAsked(default, raw) ==
  LET given == {v \in raw.offset : v # Stray}
  IN IF given = {} THEN default.offset ELSE Value(given)

\* The rows after the first `offset`, at most `limit` of them.
Slice(rows, offset, limit) ==
  [i \in 1 .. Smaller(limit, IF offset < Len(rows) THEN Len(rows) - offset ELSE 0)
     |-> rows[offset + i]]

PageAsked(default, raw, rows) ==
  LET limit == LimitAsked(default, raw)
      offset == OffsetAsked(default, raw)
  IN [items |-> Slice(rows, offset, limit),
      more |-> offset + limit < Len(rows),
      total |-> Len(rows)]

\* A member does not announce more rows after a page of none.
RemotePageAsked(default, raw, rows) ==
  LET limit == LimitAsked(default, raw)
      offset == OffsetAsked(default, raw)
  IN [items |-> Slice(rows, offset, limit),
      more |-> limit > 0 /\ offset + limit < Len(rows),
      total |-> Len(rows)]
=============================================================================
