---------------------------- MODULE Subscribers ----------------------------
(***************************************************************************)
(* The list of subscribers of a client of the Go library.                  *)
(*                                                                         *)
(* SubscribeUntil appends to the list in the goroutine that calls it,      *)
(* handlePublish ranges over it and removes from it in the message loop.   *)
(* The mutex is only taken by handlePublish, so the two interleave: an     *)
(* append is a read of the slice, then a store of the slice and a store of *)
(* the element in either order.  Slices are modelled with the arrays under *)
(* them, since a removal writes into the array and a range goes on over    *)
(* the array it began with.                                                *)
(*                                                                         *)
(* What a handler does, and so whether it is to be removed, is up to the   *)
(* module that extends this one.                                           *)
(***************************************************************************)
EXTENDS Naturals, Sequences, FiniteSets

CONSTANTS
  Sub,    \* the calls of SubscribeUntil, and the subscribers they add
  NoSub   \* a nil pointer

VARIABLES
  heap,       \* the arrays; their length is their capacity
  slice,      \* c.subscribers: an array and a length
  append,     \* where each call of SubscribeUntil is, and the slice it stores
  handling,   \* where handlePublish is
  removed,    \* the subscribers whose handler asked for their removal
  raced,      \* an append overlapped another one, a removal or the start of a range
  crashed     \* handlePublish has panicked

list == <<heap, slice>>

subscribers == <<list, append, handling, removed, raced, crashed>>

Slice == [arr : Nat \ {0}, len : Nat]

Nil == [arr |-> 1, len |-> 0]

Idle == [at |-> "idle", range |-> Nil, idx |-> 1, sub |-> NoSub, event |-> {}, remove |-> <<>>]

SubscribersOK ==
  /\ heap \in Seq(Seq(Sub \cup {NoSub}))
  /\ slice \in Slice
  /\ append \in [Sub -> [at : {"new", "read", "stored", "filled", "done"}, slice : Slice]]
  /\ handling \in [at : {"idle", "range", "call", "signal", "copy", "shrink"}, range : Slice,
                   idx : Nat, sub : Sub \cup {NoSub}, event : SUBSET Sub, remove : Seq(Nat)]
  /\ removed \subseteq Sub
  /\ {raced, crashed} \subseteq BOOLEAN

SubscribersInit ==
  /\ heap = <<<<>>>>
  /\ slice = Nil
  /\ append = [s \in Sub |-> [at |-> "new", slice |-> Nil]]
  /\ handling = Idle
  /\ removed = {}
  /\ raced = FALSE
  /\ crashed = FALSE

Appending(s) == append[s].at \in {"read", "stored", "filled"}

Removes == handling.at \in {"copy", "shrink"}

-----------------------------------------------------------------------------
(* SubscribeUntil: c.subscribers = append(c.subscribers, s) *)

\* A full array is copied to one of twice the capacity.
Grown(array) == [i \in 1..(IF array = <<>> THEN 1 ELSE 2 * Len(array)) |->
                   IF i <= Len(array) THEN array[i] ELSE NoSub]

AppendReads(s) ==
  LET full == slice.len = Len(heap[slice.arr]) IN
  /\ append[s].at = "new"
  /\ heap' = IF full THEN Append(heap, Grown(heap[slice.arr])) ELSE heap
  /\ append' = [append EXCEPT ![s] =
       [at |-> "read",
        slice |-> [arr |-> IF full THEN Len(heap) + 1 ELSE slice.arr, len |-> slice.len + 1]]]
  /\ raced' = (raced \/ Removes \/ \E t \in Sub : Appending(t))
  /\ UNCHANGED <<slice, handling, removed, crashed>>

StoreSlice(s) ==
  /\ append[s].at \in {"read", "filled"}
  /\ slice' = append[s].slice
  /\ append' = [append EXCEPT ![s].at = IF @ = "filled" THEN "done" ELSE "stored"]
  /\ UNCHANGED <<heap, handling, removed, raced, crashed>>

StoreElement(s) ==
  /\ append[s].at \in {"read", "stored"}
  /\ heap' = [heap EXCEPT ![append[s].slice.arr][append[s].slice.len] = s]
  /\ append' = [append EXCEPT ![s].at = IF @ = "stored" THEN "done" ELSE "filled"]
  /\ UNCHANGED <<slice, handling, removed, raced, crashed>>

-----------------------------------------------------------------------------
(* handlePublish *)

\* The range keeps the slice it starts with.
BeginRange(event) ==
  /\ handling.at = "idle"
  /\ handling' = [Idle EXCEPT !.at = "range", !.range = slice, !.event = event]
  /\ raced' = (raced \/ \E s \in Sub : Appending(s))
  /\ UNCHANGED <<list, append, removed, crashed>>

\* An element that is not stored yet is a nil pointer.
Visit ==
  LET s == heap[handling.range.arr][handling.idx] IN
  /\ handling.at = "range" /\ handling.idx <= handling.range.len
  /\ crashed' = (s = NoSub)
  /\ handling' = IF s \in handling.event THEN [handling EXCEPT !.at = "call", !.sub = s]
                 ELSE [handling EXCEPT !.idx = @ + 1]
  /\ UNCHANGED <<list, append, removed, raced>>

\* The handler returns; the indices to remove are kept in reverse order.
HandlerReturns_inOrder(remove) ==
  /\ handling' = [handling EXCEPT !.at = "range", !.idx = @ + 1, !.sub = NoSub,
                                  !.remove = IF remove THEN Append(@, handling.idx) ELSE @]
  /\ removed' = IF remove THEN removed \cup {handling.sub} ELSE removed
  /\ UNCHANGED <<list, append, raced, crashed>>

HandlerReturns(remove) ==
  /\ handling' = [handling EXCEPT !.at = "range", !.idx = @ + 1, !.sub = NoSub,
                                  !.remove = IF remove THEN <<handling.idx>> \o @ ELSE @]
  /\ removed' = IF remove THEN removed \cup {handling.sub} ELSE removed
  /\ UNCHANGED <<list, append, raced, crashed>>

EndRange ==
  /\ handling.at = "range" /\ handling.idx > handling.range.len
  /\ handling' = IF handling.remove = <<>> THEN Idle ELSE [handling EXCEPT !.at = "copy"]
  /\ raced' = (raced \/ (handling.remove # <<>> /\ \E s \in Sub : Appending(s)))
  /\ UNCHANGED <<list, append, removed, crashed>>

\* c.subscribers[idx] = c.subscribers[len(c.subscribers)-1]: an index beyond the
\* slice panics.
CopyLast ==
  /\ handling.at = "copy"
  /\ crashed' = (Head(handling.remove) > slice.len)
  /\ heap' = IF crashed' THEN heap
             ELSE [heap EXCEPT ![slice.arr][Head(handling.remove)] = heap[slice.arr][slice.len]]
  /\ handling' = [handling EXCEPT !.at = "shrink"]
  /\ UNCHANGED <<slice, append, removed, raced>>

\* c.subscribers = c.subscribers[:len(c.subscribers)-1]
Shrink ==
  /\ handling.at = "shrink"
  /\ slice' = [slice EXCEPT !.len = @ - 1]
  /\ handling' = IF Len(handling.remove) = 1 THEN Idle
                 ELSE [handling EXCEPT !.at = "copy", !.remove = Tail(@)]
  /\ UNCHANGED <<heap, append, removed, raced, crashed>>

-----------------------------------------------------------------------------

Listed == SubSeq(heap[slice.arr], 1, slice.len)

Subscribed == {s \in Sub : append[s].at = "done"} \ removed

=============================================================================
