------------------------- MODULE SearchStackProofs -------------------------
(***************************************************************************)
(* Proofs about SearchStack, for any number of inline slots.               *)
(***************************************************************************)
EXTENDS SearchStack, SequenceTheorems, TLAPS

\* The stack holds the frames pushed and not popped: in the heap after the
\* spill, and in the slots in use before it.
StackInv ==
    /\ slots \in [1 .. Inline -> Frames \cup {Uninit}]
    /\ len \in 0 .. Inline
    /\ spilled \in BOOLEAN
    /\ heap \in Seq(Frames)
    /\ order \in Seq(Frames)
    /\ spilled => heap = order /\ len = 0
    /\ ~spilled => Len(order) = len /\ \A i \in 1 .. len : slots[i] = order[i]

\* A sequence is the function it is.
LEMMA SeqAsFunction ==
    ASSUME NEW S, NEW s \in Seq(S), NEW g, \A i \in 1 .. Len(s) : g[i] = s[i]
    PROVE  s = [i \in 1 .. Len(s) |-> g[i]]
  OBVIOUS

\* All but the last of a sequence.
LEMMA AllButLast ==
    ASSUME NEW S, NEW s \in Seq(S), s # <<>>
    PROVE  /\ SubSeq(s, 1, Len(s) - 1) \in Seq(S)
           /\ Len(SubSeq(s, 1, Len(s) - 1)) = Len(s) - 1
           /\ \A i \in 1 .. Len(s) - 1 : SubSeq(s, 1, Len(s) - 1)[i] = s[i]
<1> DEFINE n == Len(s) - 1
<1>1. n \in Nat /\ n \in Int /\ 1 \in Int
  BY EmptySeq
<1>2. \A i \in 1 .. n : s[i] \in S
  OBVIOUS
<1> HIDE DEF n
<1>3. /\ SubSeq(s, 1, n) \in Seq(S)
      /\ Len(SubSeq(s, 1, n)) = IF 1 <= n THEN n - 1 + 1 ELSE 0
      /\ \A i \in 1 .. n - 1 + 1 : SubSeq(s, 1, n)[i] = s[1 + i - 1]
  BY <1>1, <1>2, SubSeqProperties
<1>4. /\ SubSeq(s, 1, n) \in Seq(S)
      /\ Len(SubSeq(s, 1, n)) = n
      /\ \A i \in 1 .. n : SubSeq(s, 1, n)[i] = s[i]
  BY <1>1, <1>3
<1> QED
  BY <1>4 DEF n

\* A new stack is empty.
LEMMA InitStackInv == Init => StackInv
<1> SUFFICES ASSUME Init PROVE StackInv
  OBVIOUS
<1>1. slots \in [1 .. Inline -> Frames \cup {Uninit}]
  BY DEF Init
<1>2. len = 0 /\ ~spilled /\ spilled \in BOOLEAN /\ Inline \in Nat
  BY StackAssumption DEF Init
<1>3. heap \in Seq(Frames) /\ order \in Seq(Frames) /\ Len(order) = 0
  BY DEF Init
<1> QED
  BY <1>1, <1>2, <1>3 DEF StackInv

\* Pushing keeps the frames that are there and adds the new one, in the slots,
\* across the spill and in the heap.
LEMMA PushStep ==
    ASSUME StackInv, NEW f \in Frames, PushHeap(f) \/ PushInline(f) \/ SpillToHeap(f)
    PROVE  StackInv'
<1> USE StackAssumption
<1>1. CASE PushHeap(f)
  BY <1>1 DEF StackInv, PushHeap, Pushed
<1>2. CASE PushInline(f)
  <2>1. /\ slots' \in [1 .. Inline -> Frames \cup {Uninit}]
        /\ slots'[len + 1] = f
        /\ \A i \in 1 .. len : slots'[i] = slots[i]
    BY <1>2 DEF StackInv, PushInline
  <2>2. /\ order' \in Seq(Frames)
        /\ Len(order') = len + 1
        /\ order'[len + 1] = f
        /\ \A i \in 1 .. len : order'[i] = order[i]
    BY <1>2 DEF StackInv, PushInline, Pushed
  <2> QED
    BY <1>2, <2>1, <2>2 DEF StackInv, PushInline
<1>3. CASE SpillToHeap(f)
  <2>1. order = [i \in 1 .. len |-> slots[i]]
    BY <1>3, SeqAsFunction DEF StackInv, SpillToHeap
  <2>2. heap' = order' /\ order' \in Seq(Frames)
    BY <1>3, <2>1 DEF StackInv, SpillToHeap, Pushed
  <2> QED
    BY <1>3, <2>2 DEF StackInv, SpillToHeap
<1> QED
  BY <1>1, <1>2, <1>3

\* Popping takes the last of those frames, and returns it.
LEMMA PopStep ==
    ASSUME StackInv, PopHeap \/ PopInline
    PROVE  /\ StackInv'
           /\ popped' = IF order = <<>> THEN Uninit ELSE order[Len(order)]
<1> USE StackAssumption
<1>1. /\ order' \in Seq(Frames)
      /\ order = <<>> => order' = <<>>
      /\ order # <<>> => /\ Len(order') = Len(order) - 1
                         /\ \A i \in 1 .. Len(order) - 1 : order'[i] = order[i]
  <2>1. CASE order = <<>>
    BY <2>1 DEF StackInv, PopHeap, PopInline, Popped
  <2>2. CASE order # <<>>
    <3>1. order' = SubSeq(order, 1, Len(order) - 1)
      BY <2>2 DEF PopHeap, PopInline, Popped
    <3>2. order \in Seq(Frames) /\ Len(order) \in Nat /\ Len(order) > 0
      BY <2>2 DEF StackInv
    <3> QED
      BY <2>2, <3>1, <3>2, AllButLast
  <2> QED
    BY <2>1, <2>2
<1>2. CASE PopHeap
  BY <1>1, <1>2 DEF StackInv, PopHeap, Popped
<1>3. CASE PopInline
  <2>1. CASE len = 0
    <3>1. order = <<>>
      BY <1>3, <2>1 DEF StackInv, PopInline
    <3> QED
      BY <1>1, <1>3, <2>1, <3>1 DEF StackInv, PopInline
  <2>2. CASE len # 0
    <3>1. order # <<>> /\ order[Len(order)] = slots[len]
      BY <1>3, <2>2 DEF StackInv, PopInline
    <3>2. len' = len - 1 /\ len' \in 0 .. Inline /\ slots' = slots /\ len = Len(order)
      BY <1>3, <2>2 DEF StackInv, PopInline
    <3>3. Len(order') = len' /\ \A i \in 1 .. len' : slots'[i] = order'[i]
      BY <1>1, <1>3, <2>2, <3>1, <3>2 DEF StackInv, PopInline
    <3> QED
      BY <1>1, <1>3, <2>2, <3>1, <3>2, <3>3 DEF StackInv, PopInline
  <2> QED
    BY <2>1, <2>2
<1> QED
  BY <1>2, <1>3

\* The slots or the heap always hold the frames pushed and not popped.
THEOREM StackInvHolds == Spec => []StackInv
<1>1. ASSUME StackInv, [Next]_vars
      PROVE  StackInv'
  <2>1. CASE UNCHANGED vars
    BY <1>1, <2>1 DEF StackInv, vars
  <2> QED
    BY <1>1, <2>1, PushStep, PopStep DEF Next
<1> QED
  BY <1>1, InitStackInv, PTL DEF Spec

\* Neither pop nor the spill reads a slot that was not written.
THEOREM ReadsHold == Spec => []ReadsInitialized
<1>1. StackInv => ReadsInitialized
  <2> SUFFICES ASSUME StackInv PROVE ReadsInitialized
    OBVIOUS
  <2>1. ASSUME NEW i \in 1 .. len PROVE slots[i] \in Frames
    <3>1. ~spilled
      BY <2>1, StackAssumption DEF StackInv
    <3> QED
      BY <2>1, <3>1, StackAssumption DEF StackInv
  <2> QED
    BY <2>1 DEF StackInv, ReadsInitialized
<1> QED
  BY <1>1, StackInvHolds, PTL

\* SearchStack is a stack: a pop returns the frame pushed last, also across
\* the spill, and None when there is none.
THEOREM StackHolds == Spec => LastInFirstOut
<1>1. StackInv /\ [Next]_vars =>
        [PopHeap \/ PopInline =>
            popped' = IF order = <<>> THEN Uninit ELSE order[Len(order)]]_vars
  BY PopStep
<1> QED
  BY <1>1, StackInvHolds, PTL DEF Spec, LastInFirstOut
=============================================================================
