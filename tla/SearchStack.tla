---------------------------- MODULE SearchStack ----------------------------
(***************************************************************************)
(* SearchStack, the stack of the prefix query's frames: an array of inline *)
(* slots that are not initialized, and a heap vector that takes over when  *)
(* a push finds the slots full.  Once there is a heap, the slots are not   *)
(* used again.                                                             *)
(***************************************************************************)
EXTENDS Integers, Sequences

CONSTANTS Frames,    \* what is pushed
          Uninit,    \* what a slot holds before its first write
          Inline,    \* INLINE_SEARCH_FRAMES (32)
          MaxHeight  \* bound: how high the stack gets

ASSUME StackAssumption ==
    /\ Uninit \notin Frames
    /\ Inline \in Nat
    /\ MaxHeight \in Nat

VARIABLES
    slots,    \* frames: the inline array
    len,      \* len: how many slots are in use
    spilled,  \* whether heap is Some
    heap,     \* the vector in heap
    popped,   \* the frame the last pop returned, or Uninit for None
    order     \* history: the frames pushed and not popped, the last one last

vars == <<slots, len, spilled, heap, popped, order>>

Init ==
    /\ slots = [i \in 1 .. Inline |-> Uninit]
    /\ len = 0
    /\ spilled = FALSE
    /\ heap = <<>>
    /\ popped = Uninit
    /\ order = <<>>

\* The history of a push; MaxHeight is not in the code.
Pushed(f) == /\ Len(order) < MaxHeight
             /\ order' = Append(order, f)

PushHeap(f) ==
    /\ spilled
    /\ heap' = Append(heap, f)
    /\ Pushed(f)
    /\ UNCHANGED <<slots, len, spilled, popped>>

\* Mutant: the slot after the one that is free.
PushNextSlot(f) ==
    /\ ~spilled
    /\ len < Inline
    /\ slots' = [slots EXCEPT ![IF len + 2 > Inline THEN Inline ELSE len + 2] = f]
    /\ len' = len + 1
    /\ Pushed(f)
    /\ UNCHANGED <<spilled, heap, popped>>

PushInline(f) ==
    /\ ~spilled
    /\ len < Inline
    /\ slots' = [slots EXCEPT ![len + 1] = f]
    /\ len' = len + 1
    /\ Pushed(f)
    /\ UNCHANGED <<spilled, heap, popped>>

\* Mutant: the slots are left behind.
SpillOne(f) ==
    /\ ~spilled
    /\ len = Inline
    /\ heap' = <<f>>
    /\ len' = 0
    /\ spilled' = TRUE
    /\ Pushed(f)
    /\ UNCHANGED <<slots, popped>>

\* spill_to_heap: the slots are moved to a new vector, and the frame after them.
SpillToHeap(f) ==
    /\ ~spilled
    /\ len = Inline
    /\ heap' = Append([i \in 1 .. len |-> slots[i]], f)
    /\ len' = 0
    /\ spilled' = TRUE
    /\ Pushed(f)
    /\ UNCHANGED <<slots, popped>>

\* The history of a pop.
Popped == order' = IF order = <<>> THEN <<>> ELSE SubSeq(order, 1, Len(order) - 1)

PopHeap ==
    /\ spilled
    /\ popped' = IF heap = <<>> THEN Uninit ELSE heap[Len(heap)]
    /\ heap' = IF heap = <<>> THEN <<>> ELSE SubSeq(heap, 1, Len(heap) - 1)
    /\ Popped
    /\ UNCHANGED <<slots, len, spilled>>

\* assume_init_read leaves the slot as it is.
PopInline ==
    /\ ~spilled
    /\ popped' = IF len = 0 THEN Uninit ELSE slots[len]
    /\ len' = IF len = 0 THEN 0 ELSE len - 1
    /\ Popped
    /\ UNCHANGED <<slots, spilled, heap>>

Next == \/ \E f \in Frames : PushHeap(f) \/ PushInline(f) \/ SpillToHeap(f)
        \/ PopHeap \/ PopInline

Spec == Init /\ [][Next]_vars

-----------------------------------------------------------------------------
(* Properties.                                                             *)

\* No slot is read before it was written, by pop or by the spill: the slots
\* below len and the frames moved to the heap are frames.
ReadsInitialized ==
    /\ \A i \in 1 .. len : slots[i] \in Frames
    /\ heap \in Seq(Frames)

\* A pop returns the frame pushed last and not popped yet, also across the
\* spill, and None of an empty stack.
LastInFirstOut ==
    [][PopHeap \/ PopInline =>
          popped' = IF order = <<>> THEN Uninit ELSE order[Len(order)]]_vars
=============================================================================
