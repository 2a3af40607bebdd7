------------------------------- MODULE Buddy -------------------------------
(***************************************************************************)
(* kernel_core/src/memory/buddy.rs: the physical page allocator, lock-free *)
(* lists of free blocks of 2^order pages.                                  *)
(*                                                                         *)
(* A block is named by its first page, counted from base_addr.  The header *)
(* of a free block is its first word, so it belongs to whoever has the     *)
(* block.  One step is one access to a list head or to a header; a thread  *)
(* that follows a header that is not one (Garbage) has no defined next     *)
(* step.                                                                   *)
(***************************************************************************)
EXTENDS Integers, FiniteSets

CONSTANTS
  Threads,
  NumPages,       \* pages between base_addr and end_addr
  PageLen,        \* page size, in units of memory
  MaxOrder,       \* MAX_ORDER
  Regions,        \* the regions <<start, length>> that are added, in units
  MaxRequest,     \* bound: the largest request, in pages
  Usages,         \* how the allocator is used: by which threads, freeing what
  Null,           \* a null pointer
  Garbage         \* what the owner of a block writes over its header

ASSUME BuddyAssumption ==
  /\ NumPages \in Nat \ {0} /\ PageLen \in Nat \ {0} /\ MaxOrder \in Nat \ {0}
  /\ \A r \in Regions : r \in Nat \X Nat /\ r[2] > 0 /\ r[1] + r[2] <= NumPages * PageLen
  /\ MaxRequest \in Nat \ {0}
  /\ Usages \subseteq [threads : SUBSET Threads, frees : {"none", "safe", "all"}]
  /\ Null # Garbage /\ {Null, Garbage} \cap (0 .. NumPages - 1) = {}

Pages == 0 .. NumPages - 1
Orders == 0 .. MaxOrder - 1

\* 1 << order, the pages of a block.
Size[o \in Nat] == IF o = 0 THEN 1 ELSE 2 * Size[o - 1]

\* num_pages.checked_next_power_of_two().ilog2()
OrderOf(num_pages) == CHOOSE o \in 0 .. num_pages :
                        Size[o] >= num_pages /\ \A q \in 0 .. o - 1 : Size[q] < num_pages

PagesOf(b) == b[1] .. b[1] + Size[b[2]] - 1

\* Mutant: the buddy is always the block above.
BuddyOfAbove(p, o) == p + Size[o]

\* buddy_of: the offset with the bit of the block's size flipped.
BuddyOf(p, o) == IF (p \div Size[o]) % 2 = 0 THEN p + Size[o] ELSE p - Size[o]

VARIABLES
  head,           \* free_blocks: the first block of each order's list
  next,           \* FreeHeader::next_block of the block at a page
  loc,            \* per thread: place in the code and local variables
  reply,          \* per thread: outcome of the last call
  held,           \* history: the blocks <<page, order>> that a thread was given
  region,         \* add_memory_region: next block, pages remaining and order
  added,          \* history: the regions added so far
  usage           \* the usage of this behaviour

vars == <<head, next, loc, reply, held, region, added, usage>>

Idle == [pc |-> "idle", op |-> "none", want |-> 0, order |-> 0, block |-> 0,
         push |-> 0, seen |-> Null, nxt |-> Null, prev |-> Null, check |-> 0]

Init ==
  /\ head = [o \in Orders |-> Null]
  /\ next = [p \in Pages |-> Null]
  /\ loc = [t \in Threads |-> Idle]
  /\ reply = [t \in Threads |-> "none"]
  /\ held = [t \in Threads |-> {}]
  /\ region = [block |-> 0, left |-> 0, order |-> 0]
  /\ added = {}
  /\ usage \in Usages
-----------------------------------------------------------------------------
At(t, label) == loc[t].pc = label

Return(t, r) ==
  /\ loc' = [loc EXCEPT ![t] = Idle]
  /\ reply' = [reply EXCEPT ![t] = r]

\* add_memory_region, which runs at boot before the allocator is shared.  The
\* padding at the start is not taken off the length.
AddRegion(start, length) ==
  LET padding == (PageLen - (start % PageLen)) % PageLen IN
  /\ region.left = 0 /\ <<start, length>> \notin added
  /\ added' = added \cup {<<start, length>>}
  /\ region' = IF length < PageLen \/ length - padding < PageLen THEN region
               ELSE [block |-> (start + padding) \div PageLen, left |-> length \div PageLen,
                     order |-> MaxOrder - 1]
  /\ UNCHANGED <<head, next, loc, reply, held>>

\* One turn of its loop: a block is pushed if what remains has room for it, or
\* else the next lower order is tried, until less than a page remains.
AddBlock ==
  LET o == region.order
      b == region.block IN
  /\ region.left > 0
  /\ IF region.left >= Size[o]
     THEN /\ next' = [next EXCEPT ![b] = head[o]]
          /\ head' = [head EXCEPT ![o] = b]
          /\ region' = [region EXCEPT !.block = b + Size[o], !.left = @ - Size[o]]
     ELSE region' = [region EXCEPT !.order = o - 1] /\ UNCHANGED <<head, next>>
  /\ UNCHANGED <<loc, reply, held, added>>
-----------------------------------------------------------------------------
(* allocate                                                                *)

Allocate(t, num_pages) ==
  /\ At(t, "idle") /\ added = Regions /\ region.left = 0
  /\ LET o == OrderOf(num_pages) IN
       IF o < MaxOrder
       THEN /\ loc' = [loc EXCEPT ![t] = [Idle EXCEPT !.pc = "pop_load", !.op = "alloc",
                                                      !.want = o, !.order = o]]
            /\ UNCHANGED reply
       ELSE Return(t, "out_of_memory")
  /\ UNCHANGED <<head, next, held, region, added>>

\* Mutant: one order too many is tried.
NextOrderTooFar(t) ==
  LET o == loc[t].order + 1 IN
  IF o <= MaxOrder
  THEN /\ loc' = [loc EXCEPT ![t] = [@ EXCEPT !.pc = "pop_load", !.order = o, !.seen = Null]]
       /\ UNCHANGED reply
  ELSE Return(t, "out_of_memory")

\* Mutant: no larger block is split.
NextOrderGivesUp(t) == Return(t, "out_of_memory")

\* The list of this order is empty: try the next order, or give up.
NextOrder(t) ==
  LET o == loc[t].order + 1 IN
  IF o < MaxOrder
  THEN /\ loc' = [loc EXCEPT ![t] = [@ EXCEPT !.pc = "pop_load", !.order = o, !.seen = Null]]
       /\ UNCHANGED reply
  ELSE Return(t, "out_of_memory")

\* pop_free: a head was loaded.
Popping(t, h) ==
  IF h = Null THEN NextOrder(t)
  ELSE /\ loc' = [loc EXCEPT ![t] = [@ EXCEPT !.pc = "pop_next", !.seen = h, !.nxt = Null]]
       /\ UNCHANGED reply

PopLoad(t) ==
  /\ At(t, "pop_load")
  /\ Popping(t, head[loc[t].order])
  /\ UNCHANGED <<head, next, held, region, added>>

PopNext(t) ==
  /\ At(t, "pop_next") /\ loc[t].seen \in Pages
  /\ loc' = [loc EXCEPT ![t] = [@ EXCEPT !.pc = "pop_cas", !.nxt = next[loc[t].seen]]]
  /\ UNCHANGED <<head, next, reply, held, region, added>>

\* Mutant: the lower half of a block is pushed and the upper half is kept too.
SplitLower(t, block, order) ==
  IF order > loc[t].want
  THEN /\ loc' = [loc EXCEPT ![t] = [@ EXCEPT !.pc = "push_load", !.order = order - 1,
                    !.block = block, !.push = block, !.seen = Null, !.nxt = Null]]
       /\ UNCHANGED <<next, reply, held>>
  ELSE /\ Return(t, "ok")
       /\ held' = [held EXCEPT ![t] = @ \cup {<<block, order>>}]
       /\ next' = [next EXCEPT ![block] = Garbage]

\* split_block_to_size: the upper half of a block that is too large goes to a
\* free list; a block of the right size goes to the caller, who writes to it.
Split(t, block, order) ==
  IF order > loc[t].want
  THEN /\ loc' = [loc EXCEPT ![t] = [@ EXCEPT !.pc = "push_load", !.order = order - 1,
                    !.block = block, !.push = block + Size[order - 1], !.seen = Null, !.nxt = Null]]
       /\ UNCHANGED <<next, reply, held>>
  ELSE /\ Return(t, "ok")
       /\ held' = [held EXCEPT ![t] = @ \cup {<<block, order>>}]
       /\ next' = [next EXCEPT ![block] = Garbage]

\* Mutant: a store in place of the compare and exchange.
PopCasOkBlind(t) ==
  LET l == loc[t] IN
  /\ At(t, "pop_cas")
  /\ head' = [head EXCEPT ![l.order] = l.nxt]
  /\ Split(t, l.seen, l.order)
  /\ UNCHANGED <<region, added>>

PopCasOk(t) ==
  LET l == loc[t] IN
  /\ At(t, "pop_cas")
  /\ head[l.order] = l.seen
  /\ head' = [head EXCEPT ![l.order] = l.nxt]
  /\ Split(t, l.seen, l.order)
  /\ UNCHANGED <<region, added>>

PopCasFail(t) ==
  /\ At(t, "pop_cas")
  /\ head[loc[t].order] # loc[t].seen
  /\ Popping(t, head[loc[t].order])
  /\ UNCHANGED <<head, next, held, region, added>>
-----------------------------------------------------------------------------
(* push_free                                                               *)

PushLoad(t) ==
  /\ At(t, "push_load")
  /\ loc' = [loc EXCEPT ![t] = [@ EXCEPT !.pc = "push_store", !.seen = head[loc[t].order]]]
  /\ UNCHANGED <<head, next, reply, held, region, added>>

PushStore(t) ==
  /\ At(t, "push_store")
  /\ next' = [next EXCEPT ![loc[t].push] = loc[t].seen]
  /\ loc' = [loc EXCEPT ![t].pc = "push_cas"]
  /\ UNCHANGED <<head, reply, held, region, added>>

PushCasOk(t) ==
  LET l == loc[t] IN
  /\ At(t, "push_cas")
  /\ head[l.order] = l.seen
  /\ head' = [head EXCEPT ![l.order] = l.push]
  /\ IF l.op = "alloc" THEN Split(t, l.block, l.order)
                       ELSE Return(t, "ok") /\ UNCHANGED <<next, held>>
  /\ UNCHANGED <<region, added>>

PushCasFail(t) ==
  /\ At(t, "push_cas")
  /\ head[loc[t].order] # loc[t].seen
  /\ loc' = [loc EXCEPT ![t] = [@ EXCEPT !.pc = "push_store", !.seen = head[loc[t].order]]]
  /\ UNCHANGED <<head, next, reply, held, region, added>>
-----------------------------------------------------------------------------
(* The lists, as the chains of headers that start at their heads.          *)

\* What can be reached from the header h, if nx are the next_blocks: the least
\* set that has h and the successor of each of its blocks.
Chain(h, nx) ==
  LET Closed(S) == ({h} \cup {nx[p] : p \in S}) \cap Pages \subseteq S IN
  {p \in Pages : \A S \in SUBSET Pages : Closed(S) => p \in S}

Members(o) == Chain(head[o], next)

\* Which of its blocks a thread gives back: none; those below their buddy, or
\* above one that is not free; or all of them.
MayFree(p, o) ==
  \/ usage.frees = "all"
  \/ usage.frees = "safe" /\ o < MaxOrder - 1
     /\ (BuddyOf(p, o) \in Members(o) => BuddyOf(p, o) > p)

-----------------------------------------------------------------------------
(* free                                                                    *)

Free(t, p, o) ==
  /\ At(t, "idle") /\ <<p, o>> \in held[t] /\ MayFree(p, o)
  /\ held' = [held EXCEPT ![t] = @ \ {<<p, o>>}]
  /\ loc' = [loc EXCEPT ![t] = [Idle EXCEPT !.pc = "rem_load", !.op = "free", !.order = o, !.block = p]]
  /\ UNCHANGED <<head, next, reply, region, added>>

\* free_blocks[order] with an order that the array does not have panics.
Panic(t) == loc' = [loc EXCEPT ![t].pc = "panic"] /\ UNCHANGED reply

\* The lists that free looks in for a block that is free already, and what it
\* looks for there.
CheckOrder(l) == IF l.check = 1 THEN l.order ELSE l.order + 1
CheckFor(l) == IF l.check = 3 THEN BuddyOf(l.block, l.order) ELSE l.block

\* Go on to check c, or push the block once the three checks have passed.
StartCheck(t, c) ==
  LET l == [loc[t] EXCEPT !.check = c, !.seen = Null, !.prev = Null] IN
  IF c > 3 THEN loc' = [loc EXCEPT ![t] = [l EXCEPT !.pc = "push_load", !.push = l.block, !.check = 0]]
                /\ UNCHANGED reply
  ELSE IF CheckOrder(l) = MaxOrder THEN Panic(t)
  ELSE loc' = [loc EXCEPT ![t] = [l EXCEPT !.pc = "walk_load"]] /\ UNCHANGED reply

\* try_remove_buddy: the walk starts at the head of the list ...
RemoveLoad(t) ==
  LET h == head[loc[t].order] IN
  /\ At(t, "rem_load")
  /\ IF h = Null THEN StartCheck(t, 1)
     ELSE /\ loc' = [loc EXCEPT ![t] = [@ EXCEPT !.pc = "rem_next", !.seen = h, !.prev = Null]]
          /\ UNCHANGED reply
  /\ UNCHANGED <<head, next, held, region, added>>

\* ... and follows the headers until it finds the buddy.
RemoveNext(t) ==
  LET l == loc[t]
      n == next[l.seen] IN
  /\ At(t, "rem_next") /\ loc[t].seen \in Pages
  /\ IF l.seen = BuddyOf(l.block, l.order)
     THEN loc' = [loc EXCEPT ![t] = [@ EXCEPT !.pc = "rem_cas", !.nxt = n]] /\ UNCHANGED reply
     ELSE IF n = Null THEN StartCheck(t, 1)
     ELSE loc' = [loc EXCEPT ![t] = [@ EXCEPT !.prev = l.seen, !.seen = n]] /\ UNCHANGED reply
  /\ UNCHANGED <<head, next, held, region, added>>

\* The buddy is removed: the merged block is pushed one order up.
Merged(t) ==
  LET l == loc[t] IN
  IF l.order + 1 = MaxOrder THEN Panic(t)
  ELSE /\ loc' = [loc EXCEPT ![t] = [@ EXCEPT !.pc = "push_load", !.order = l.order + 1,
                    !.push = l.block, !.seen = Null, !.nxt = Null, !.prev = Null]]
       /\ UNCHANGED reply

\* The exchange failed: start again at the head of the list.
RetryRemove(t) ==
  /\ loc' = [loc EXCEPT ![t] = [@ EXCEPT !.pc = "rem_load", !.seen = Null, !.nxt = Null, !.prev = Null]]
  /\ UNCHANGED <<head, next, reply>>

RemoveCasHead(t) ==
  LET l == loc[t] IN
  /\ At(t, "rem_cas") /\ l.prev = Null
  /\ IF head[l.order] = l.seen
     THEN head' = [head EXCEPT ![l.order] = l.nxt] /\ Merged(t) /\ UNCHANGED next
     ELSE RetryRemove(t)
  /\ UNCHANGED <<held, region, added>>

\* Mutant: the block before the buddy is not linked to the one after it.
RemoveCasInnerCuts(t) ==
  LET l == loc[t] IN
  /\ At(t, "rem_cas") /\ l.prev # Null
  /\ IF next[l.prev] = l.seen
     THEN next' = [next EXCEPT ![l.prev] = Null] /\ Merged(t) /\ UNCHANGED head
     ELSE RetryRemove(t)
  /\ UNCHANGED <<held, region, added>>

RemoveCasInner(t) ==
  LET l == loc[t] IN
  /\ At(t, "rem_cas") /\ l.prev # Null
  /\ IF next[l.prev] = l.seen
     THEN next' = [next EXCEPT ![l.prev] = l.nxt] /\ Merged(t) /\ UNCHANGED head
     ELSE RetryRemove(t)
  /\ UNCHANGED <<held, region, added>>

\* block_in_free_list
WalkLoad(t) ==
  LET h == head[CheckOrder(loc[t])] IN
  /\ At(t, "walk_load")
  /\ IF h = Null THEN StartCheck(t, loc[t].check + 1)
     ELSE loc' = [loc EXCEPT ![t] = [@ EXCEPT !.pc = "walk_next", !.seen = h]] /\ UNCHANGED reply
  /\ UNCHANGED <<head, next, held, region, added>>

WalkNext(t) ==
  LET l == loc[t]
      n == next[l.seen] IN
  /\ At(t, "walk_next") /\ loc[t].seen \in Pages
  /\ IF l.seen = CheckFor(l) THEN Return(t, "unknown_ptr")
     ELSE IF n = Null THEN StartCheck(t, l.check + 1)
     ELSE loc' = [loc EXCEPT ![t].seen = n] /\ UNCHANGED reply
  /\ UNCHANGED <<head, next, held, region, added>>
-----------------------------------------------------------------------------
Step(t) ==
  \/ PopLoad(t) \/ PopNext(t) \/ PopCasOk(t) \/ PopCasFail(t)
  \/ PushLoad(t) \/ PushStore(t) \/ PushCasOk(t) \/ PushCasFail(t)
  \/ RemoveLoad(t) \/ RemoveNext(t) \/ RemoveCasHead(t) \/ RemoveCasInner(t)
  \/ WalkLoad(t) \/ WalkNext(t)

Next ==
  /\ \/ \E r \in Regions : AddRegion(r[1], r[2])
     \/ AddBlock
     \/ \E t \in usage.threads :
          \/ \E n \in 1 .. MaxRequest : Allocate(t, n)
          \/ \E b \in held[t] : Free(t, b[1], b[2])
          \/ Step(t)
  /\ UNCHANGED usage

Spec == Init /\ [][Next]_vars
-----------------------------------------------------------------------------
Labels == {"idle", "panic", "pop_load", "pop_next", "pop_cas", "push_load", "push_store",
           "push_cas", "rem_load", "rem_next", "rem_cas", "walk_load", "walk_next"}

Local == [pc : Labels, op : {"none", "alloc", "free"}, want : Orders, order : Orders,
          block : Pages, push : Pages, seen : Pages \cup {Null, Garbage},
          nxt : Pages \cup {Null, Garbage}, prev : Pages \cup {Null, Garbage}, check : 0 .. 3]

\* Heads, headers and local variables are pages, orders or null, and no order
\* reaches MAX_ORDER while a list is looked up.
TypeOK ==
  /\ head \in [Orders -> Pages \cup {Null}]
  /\ next \in [Pages -> Pages \cup {Null, Garbage}]
  /\ held \in [Threads -> SUBSET (Pages \X Orders)]
  /\ reply \in [Threads -> {"none", "ok", "out_of_memory", "unknown_ptr"}]
  /\ region \in [block : 0 .. NumPages, left : 0 .. NumPages, order : Orders]
  /\ added \subseteq Regions
  /\ usage \in Usages
  /\ loc \in [Threads -> Local]

\* The blocks that a thread has in hand in the middle of a call.
InHand(l) ==
  IF l.op = "alloc" /\ l.pc \in {"push_load", "push_store", "push_cas"}
  THEN {<<l.block, l.order>>, <<l.push, l.order>>}
  ELSE IF l.op = "free" THEN {<<l.block, l.order>>} ELSE {}

\* The blocks and whose they are, as <<kind, list or thread, block>>.
Owned ==
  (UNION {{<<"free", o, <<p, o>>>> : p \in Members(o)} : o \in Orders})
  \cup (UNION {{<<"held", t, b>> : b \in held[t]} : t \in Threads})
  \cup (UNION {{<<"hand", t, b>> : b \in InHand(loc[t])} : t \in Threads})

\* No page belongs to two blocks: the free lists, the callers and the calls in
\* progress never share memory, through splits, merges and racing list updates.
BlocksDisjoint ==
  LET blocks == Owned IN
  \A x, y \in blocks : x # y => PagesOf(x[3]) \cap PagesOf(y[3]) = {}

\* "To become the head, this block must be correctly initialized" (buddy.rs:116):
\* no thread takes what the owner of a block wrote in it for a header.
HeadersAreValid == \A t \in Threads : loc[t].seen # Garbage

\* The whole pages of the memory that was added.
Given == {p \in Pages : \E r \in added : r[1] <= p * PageLen /\ (p + 1) * PageLen <= r[1] + r[2]}

\* What add_memory_region has still to cut into blocks.
Uncut == region.block .. region.block + region.left - 1

\* Every page that was added is in a block, free or not, and no block reaches
\* outside the memory that was added: "every page should be free at the end"
\* (buddy.rs:408) of a run that gives everything back.
NoPageLost == Given = (UNION {PagesOf(x[3]) : x \in Owned}) \cup Uncut

\* "UnknownPtr if pages is null or was not allocated by this allocator"
\* (memory/mod.rs:397): giving back a block that was allocated is not refused.
FreeAccepted == \A t \in Threads : reply[t] # "unknown_ptr"

\* "OutOfMemory if there is not enough memory to allocate num_pages"
\* (memory/mod.rs:375): a request for one page by the only thread that uses the
\* allocator fails only when every page is with the caller.  (During another
\* thread's split its halves are in no list.)
OutOfMemoryMeansFull ==
  [][\A t \in Threads :
       usage.threads = {t} /\ loc[t].op = "alloc" /\ loc[t].want = 0
       /\ loc'[t].pc = "idle" /\ reply'[t] = "out_of_memory" =>
         Given = UNION {PagesOf(b) : b \in held[t]}]_vars
=============================================================================
