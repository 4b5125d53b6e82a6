----------------------------- MODULE UlogProofs -----------------------------
(***************************************************************************)
(* Proofs about the logger: no function has two slots, and a subscriber     *)
(* whose subscription is left alone is called once or never, for every      *)
(* size of the table, set of functions and depth of nesting.               *)
(*                                                                         *)
(* The count that CalledOnce speaks of at the end of a loop is followed     *)
(* through the loop (CountOK): it is one exactly if the function's slot     *)
(* has been passed.                                                        *)
(***************************************************************************)
EXTENDS Ulog, SequenceTheorems, FiniteSetTheorems, TLAPS

N == ULOG_MAX_SUBSCRIBERS

\* The slots a dispatch has dealt with; the one it is calling is among them.
Passed(frame) ==
    {slot \in Slots : \/ slot < frame.i
                      \/ slot = frame.i /\ frame.fn # NULL}

Owed(frame, f) ==
    \E slot \in SlotsOf(f) \cap Passed(frame) :
       frame.severity >= s_subscribers[slot].threshold

CountOK(frame) ==
    \A f \in Functions :
       frame.calls[f] # Touched => frame.calls[f] = IF Owed(frame, f) THEN 1 ELSE 0

\* Every dispatch but the innermost is inside a subscriber, and a dispatch
\* inside a subscriber is at a slot.
FramesOK ==
    /\ \A d \in 1 .. Len(stack) : CountOK(stack[d])
    /\ \A d \in 1 .. Len(stack) - 1 : stack[d].fn # NULL
    /\ \A d \in 1 .. Len(stack) : stack[d].fn # NULL => stack[d].i < N

IInv == TypeOK /\ NoDuplicates /\ FramesOK

\* A step that leaves the slots of every function but those in fns alone.
Spares(fns) ==
    \A g \in Functions \ fns, slot \in Slots :
       /\ s_subscribers'[slot].fn = g <=> s_subscribers[slot].fn = g
       /\ s_subscribers[slot].fn = g => s_subscribers'[slot] = s_subscribers[slot]

-----------------------------------------------------------------------------
\* The fields of a frame have their types.
LEMMA FrameFields ==
    ASSUME NEW frame \in Frames
    PROVE  /\ frame.severity \in Levels
           /\ frame.i \in 0 .. N
           /\ frame.fn \in Functions \cup {NULL}
           /\ frame.calls \in CallCounts
    BY DEF Frames, N

\* stack is a sequence of frames, and Top one of them.
LEMMA StackFacts ==
    ASSUME TypeOK
    PROVE  /\ Len(stack) \in Nat
           /\ DOMAIN stack = 1 .. Len(stack)
           /\ \A d \in 1 .. Len(stack) : stack[d] \in Frames
           /\ stack # << >> => Len(stack) \in 1 .. Len(stack) /\ Top \in Frames
<1>1. stack \in Seq(Frames)
  BY DEF TypeOK
<1>2. /\ Len(stack) \in Nat
      /\ DOMAIN stack = 1 .. Len(stack)
  BY <1>1, LenProperties
<1>3. \A d \in 1 .. Len(stack) : stack[d] \in Frames
  BY <1>1, ElementOfSeq
<1>4. stack # << >> => Len(stack) \in 1 .. Len(stack)
  BY <1>1, <1>2, EmptySeq
<1> QED BY <1>2, <1>3, <1>4 DEF Top

\* ulog_subscribe keeps the table a table without duplicates and spares all
\* other functions.
LEMMA SubscribeTable ==
    ASSUME TypeOK, NoDuplicates,
           NEW fn \in Functions, NEW threshold \in Levels,
           ulog_subscribe(fn, threshold)
    PROVE  /\ s_subscribers' \in [Slots -> subscriber_t]
           /\ NoDuplicates'
           /\ Spares({fn})
           /\ result' \in ulog_err_t
<1>t. /\ s_subscribers \in [Slots -> subscriber_t]
      /\ result \in ulog_err_t
  BY DEF TypeOK
<1>n. NULL \notin Functions /\ fn # NULL
  BY NullAssumption
<1>e. [fn |-> fn, threshold |-> threshold] \in subscriber_t
  BY DEF subscriber_t
<1>r. result' \in ulog_err_t
  BY DEF ulog_subscribe, ulog_err_t
<1>1. CASE s_subscribers' = s_subscribers
  BY <1>1, <1>t, <1>r DEF NoDuplicates, Spares
<1>2. ASSUME NEW slot \in Slots,
             s_subscribers' = [s_subscribers EXCEPT ![slot] =
                                 [fn |-> fn, threshold |-> threshold]],
             s_subscribers[slot].fn \in {fn, NULL},
             \A s \in Slots \ {slot} : s_subscribers[s].fn # fn
      PROVE  /\ s_subscribers' \in [Slots -> subscriber_t]
             /\ NoDuplicates'
             /\ Spares({fn})
  <2>1. s_subscribers' \in [Slots -> subscriber_t]
    BY <1>2, <1>t, <1>e
  <2>2. /\ s_subscribers'[slot] = [fn |-> fn, threshold |-> threshold]
        /\ \A s \in Slots \ {slot} : s_subscribers'[s] = s_subscribers[s]
    BY <1>2, <1>t
  <2>3. NoDuplicates'
    BY <1>2, <2>2, <1>n DEF NoDuplicates, Slots
  <2>4. Spares({fn})
    BY <1>2, <2>2, <1>n DEF Spares
  <2> QED BY <2>1, <2>3, <2>4
<1>3. CASE \E slot \in First(KnownSlots(fn)) :
             s_subscribers' = [s_subscribers EXCEPT ![slot] =
                                 [fn |-> fn, threshold |-> threshold]]
  <2>1. PICK slot \in Slots :
             /\ s_subscribers[slot].fn = fn
             /\ s_subscribers' = [s_subscribers EXCEPT ![slot] =
                                 [fn |-> fn, threshold |-> threshold]]
    BY <1>3 DEF First, KnownSlots, SlotsOf
  <2>2. \A s \in Slots \ {slot} : s_subscribers[s].fn # fn
    BY <2>1, <1>n DEF NoDuplicates
  <2> QED BY <1>2, <1>r, <2>1, <2>2
<1>4. CASE /\ KnownSlots(fn) = {}
           /\ \E slot \in Last(Available) :
                s_subscribers' = [s_subscribers EXCEPT ![slot] =
                                    [fn |-> fn, threshold |-> threshold]]
  <2>1. PICK slot \in Slots :
             /\ s_subscribers[slot].fn = NULL
             /\ s_subscribers' = [s_subscribers EXCEPT ![slot] =
                                 [fn |-> fn, threshold |-> threshold]]
    BY <1>4 DEF Last, Available, SlotsOf
  <2>2. \A s \in Slots : s_subscribers[s].fn # fn
    BY <1>4 DEF KnownSlots, SlotsOf
  <2> QED BY <1>2, <1>r, <2>1, <2>2
<1> QED BY <1>1, <1>3, <1>4 DEF ulog_subscribe

\* So does ulog_unsubscribe.
LEMMA UnsubscribeTable ==
    ASSUME TypeOK, NoDuplicates, NEW fn \in Functions, ulog_unsubscribe(fn)
    PROVE  /\ s_subscribers' \in [Slots -> subscriber_t]
           /\ NoDuplicates'
           /\ Spares({fn})
           /\ result' \in ulog_err_t
<1>t. s_subscribers \in [Slots -> subscriber_t]
  BY DEF TypeOK
<1>n. NULL \notin Functions
  BY NullAssumption
<1>r. result' \in ulog_err_t
  BY DEF ulog_unsubscribe, ulog_err_t
<1>1. CASE s_subscribers' = s_subscribers
  BY <1>1, <1>t, <1>r DEF NoDuplicates, Spares
<1>2. CASE \E slot \in First(SlotsOf(fn)) :
             s_subscribers' = [s_subscribers EXCEPT ![slot].fn = NULL]
  <2>1. PICK slot \in Slots :
             /\ s_subscribers[slot].fn = fn
             /\ s_subscribers' = [s_subscribers EXCEPT ![slot].fn = NULL]
    BY <1>2 DEF First, SlotsOf
  <2>2. s_subscribers[slot] \in subscriber_t
    BY <1>t
  <2>3. [s_subscribers[slot] EXCEPT !.fn = NULL] \in subscriber_t
    BY <2>2 DEF subscriber_t
  <2>4. /\ s_subscribers' \in [Slots -> subscriber_t]
        /\ s_subscribers'[slot] = [s_subscribers[slot] EXCEPT !.fn = NULL]
        /\ \A s \in Slots \ {slot} : s_subscribers'[s] = s_subscribers[s]
    BY <2>1, <2>3, <1>t
  <2>5. s_subscribers'[slot].fn = NULL
    BY <2>4, <2>2 DEF subscriber_t
  <2>6. NoDuplicates'
    BY <2>4, <2>5 DEF NoDuplicates, Slots
  <2>7. Spares({fn})
    BY <2>1, <2>4, <2>5, <1>n DEF Spares
  <2> QED BY <2>4, <2>6, <2>7, <1>r
<1> QED BY <1>1, <1>2 DEF ulog_unsubscribe

\* ulog_init leaves an empty table; it spares nobody.
LEMMA InitTable ==
    ASSUME TypeOK, s_subscribers' = EmptyTable
    PROVE  /\ s_subscribers' \in [Slots -> subscriber_t]
           /\ NoDuplicates'
           /\ Spares(Functions)
<1>1. [fn |-> NULL, threshold |-> 0] \in subscriber_t
  BY DEF subscriber_t
<1> QED BY <1>1 DEF EmptyTable, NoDuplicates, Spares, Slots

-----------------------------------------------------------------------------
(***************************************************************************)
(* The dispatches.                                                         *)
(***************************************************************************)
\* A change of the table that spares all functions but fns, with the history
\* of fns forgotten, keeps the frames right.
LEMMA TouchFrames ==
    ASSUME IInv, NEW fns \in SUBSET Functions, Touch(fns), Spares(fns)
    PROVE  stack' \in Seq(Frames) /\ FramesOK'
<1> DEFINE Left(frame) ==
        [frame EXCEPT !.calls =
            [f \in Functions |-> IF f \in fns THEN Touched ELSE frame.calls[f]]]
<1>s. /\ Len(stack) \in Nat
      /\ DOMAIN stack = 1 .. Len(stack)
      /\ \A d \in 1 .. Len(stack) : stack[d] \in Frames
  BY StackFacts DEF IInv
<1>1. ASSUME NEW frame \in Frames
      PROVE  /\ Left(frame) \in Frames
             /\ Left(frame).severity = frame.severity
             /\ Left(frame).i = frame.i
             /\ Left(frame).fn = frame.fn
             /\ \A f \in Functions :
                   Left(frame).calls[f] = IF f \in fns THEN Touched ELSE frame.calls[f]
  <2>1. frame.calls \in CallCounts
    BY <1>1, FrameFields
  <2>2. [f \in Functions |-> IF f \in fns THEN Touched ELSE frame.calls[f]] \in CallCounts
    BY <2>1 DEF CallCounts
  <2> QED BY <1>1, <2>2 DEF Frames
<1>2. stack' = [d \in 1 .. Len(stack) |-> Left(stack[d])]
  BY <1>s DEF Touch
<1> HIDE DEF Left
<1>3. stack' \in Seq(Frames) /\ Len(stack') = Len(stack)
  <2>1. \A d \in 1 .. Len(stack) : Left(stack[d]) \in Frames
    BY <1>1, <1>s
  <2> QED BY <1>2, <1>s, <2>1
<1>4. \A d \in 1 .. Len(stack) : stack'[d] = Left(stack[d])
  BY <1>2
<1>5. ASSUME NEW d \in 1 .. Len(stack)
      PROVE  CountOK(stack[d])'
  <2> SUFFICES ASSUME NEW f \in Functions,
                      stack'[d].calls[f] # Touched
               PROVE  stack'[d].calls[f] = IF Owed(stack[d], f)' THEN 1 ELSE 0
    BY DEF CountOK
  <2>1. f \notin fns /\ stack'[d].calls[f] = stack[d].calls[f]
    BY <1>s, <1>1, <1>4
  <2>2. Passed(stack[d])' = Passed(stack[d])
    BY <1>s, <1>1, <1>4 DEF Passed
  <2>3. /\ SlotsOf(f)' = SlotsOf(f)
        /\ \A slot \in SlotsOf(f) : s_subscribers'[slot] = s_subscribers[slot]
    BY <2>1 DEF SlotsOf, Spares
  <2>4. stack'[d].severity = stack[d].severity
    BY <1>s, <1>1, <1>4
  <2>5. Owed(stack[d], f)' <=> Owed(stack[d], f)
    BY <2>2, <2>3, <2>4 DEF Owed
  <2>6. stack[d].calls[f] = IF Owed(stack[d], f) THEN 1 ELSE 0
    BY <2>1 DEF IInv, FramesOK, CountOK
  <2> QED BY <2>1, <2>5, <2>6
<1>6. FramesOK'
  BY <1>1, <1>3, <1>4, <1>5, <1>s DEF FramesOK, IInv
<1> QED BY <1>3, <1>6

\* A new dispatch has passed no slot and called nobody.
LEMMA PushFrame ==
    ASSUME IInv, AtCaller, NEW severity \in Levels, NEW text \in Texts,
           ulog_message(severity, text)
    PROVE  stack' \in Seq(Frames) /\ FramesOK'
<1>s. /\ stack \in Seq(Frames)
      /\ Len(stack) \in Nat
      /\ \A d \in 1 .. Len(stack) : stack[d] \in Frames
      /\ stack # << >> => Len(stack) \in 1 .. Len(stack)
      /\ Len(stack) > 0 => stack # << >>
  BY StackFacts DEF IInv, TypeOK
<1>n. N \in Nat \ {0}
  BY SlotsAssumption DEF N
<1>1. Frame(severity) \in Frames
  <2>1. [f \in Functions |-> 0] \in CallCounts
    BY <1>n DEF CallCounts, N
  <2> QED BY <2>1, <1>n DEF Frame, Frames, N
<1>2. /\ stack' \in Seq(Frames)
      /\ Len(stack') = Len(stack) + 1
      /\ \A d \in 1 .. Len(stack) : stack'[d] = stack[d]
      /\ stack'[Len(stack) + 1] = Frame(severity)
      /\ s_subscribers' = s_subscribers
  BY <1>1, <1>s DEF ulog_message
<1>3. \A d \in 1 .. Len(stack) : CountOK(stack[d])'
  BY <1>2 DEF IInv, FramesOK, CountOK, Owed, Passed, SlotsOf
<1>4. CountOK(stack[Len(stack)])'
  <2>1. Passed(Frame(severity)) = {}
    BY DEF Passed, Frame, Slots
  <2>2. \A f \in Functions : ~Owed(Frame(severity), f)'
    BY <2>1 DEF Owed, Passed, Frame, Slots
  <2> QED BY <1>2, <1>s, <2>2 DEF CountOK, Frame, Owed, Passed, SlotsOf
<1>5. \A d \in 1 .. Len(stack) : stack[d].fn # NULL
  BY <1>s DEF AtCaller, Top, IInv, FramesOK
<1>6. Frame(severity).fn = NULL
  BY DEF Frame
<1> QED BY <1>2, <1>3, <1>4, <1>5, <1>6, <1>s DEF FramesOK, IInv

\* Replacing the top frame by another that counts right.
LEMMA ReplaceFrame ==
    ASSUME IInv, stack # << >>, NEW frame \in Frames, Replace(frame),
           CountOK(frame), frame.fn # NULL => frame.i < N
    PROVE  stack' \in Seq(Frames) /\ FramesOK'
<1>s. /\ stack \in Seq(Frames)
      /\ Len(stack) \in Nat
      /\ Len(stack) \in 1 .. Len(stack)
      /\ \A d \in 1 .. Len(stack) : stack[d] \in Frames
  BY StackFacts DEF IInv, TypeOK
<1>1. /\ stack' \in Seq(Frames)
      /\ Len(stack') = Len(stack)
      /\ \A d \in 1 .. Len(stack) :
            stack'[d] = IF d = Len(stack) THEN frame ELSE stack[d]
      /\ s_subscribers' = s_subscribers
  BY <1>s, ExceptSeq DEF Replace
<1>2. \A d \in 1 .. Len(stack) : CountOK(stack[d])'
  BY <1>1 DEF IInv, FramesOK, CountOK, Owed, Passed, SlotsOf
<1> QED BY <1>1, <1>2, <1>s DEF FramesOK, IInv

\* Popping the innermost dispatch.
LEMMA PopFrame ==
    ASSUME IInv, MessageDone
    PROVE  stack' \in Seq(Frames) /\ FramesOK'
<1>s. /\ stack \in Seq(Frames)
      /\ Len(stack) \in Nat
      /\ Len(stack) \in 1 .. Len(stack)
      /\ \A d \in 1 .. Len(stack) : stack[d] \in Frames
  BY StackFacts DEF IInv, TypeOK, MessageDone, InLoop
<1>1. /\ stack' \in Seq(Frames)
      /\ Len(stack') = Len(stack) - 1
      /\ \A d \in 1 .. Len(stack) - 1 : stack'[d] = stack[d]
  <2>1. /\ 1 \in Int
        /\ Len(stack) - 1 \in Int
        /\ \A d \in 1 .. Len(stack) - 1 : stack[d] \in Frames
    BY <1>s
  <2>2. /\ stack' \in Seq(Frames)
        /\ Len(stack') = IF 1 <= Len(stack) - 1 THEN Len(stack) - 1 - 1 + 1 ELSE 0
        /\ \A d \in 1 .. Len(stack) - 1 - 1 + 1 : stack'[d] = stack[1 + d - 1]
    BY <2>1, SubSeqProperties DEF MessageDone
  <2>3. \A d \in 1 .. Len(stack) - 1 : stack'[d] = stack[d]
    <3> TAKE d \in 1 .. Len(stack) - 1
    <3>1. d \in 1 .. Len(stack) - 1 - 1 + 1 /\ 1 + d - 1 = d
      BY <1>s
    <3> QED BY <2>2, <3>1
  <2>4. Len(stack') = Len(stack) - 1
    <3>1. Len(stack) \in Nat /\ Len(stack) >= 1
      BY <1>s
    <3>2. \A n \in Nat : n >= 1 => (IF 1 <= n - 1 THEN n - 1 - 1 + 1 ELSE 0) = n - 1
      OBVIOUS
    <3> QED BY <2>2, <3>1, <3>2, Zenon
  <2> QED BY <2>2, <2>3, <2>4
<1>2. s_subscribers' = s_subscribers
  BY DEF MessageDone
<1>3. \A d \in 1 .. Len(stack) - 1 : CountOK(stack[d])'
  <2> TAKE d \in 1 .. Len(stack) - 1
  <2>1. d \in 1 .. Len(stack)
    BY <1>s
  <2>2. CountOK(stack[d]) /\ stack'[d] = stack[d]
    BY <1>1, <2>1 DEF IInv, FramesOK
  <2>3. \A f : Owed(stack[d], f)' = Owed(stack[d], f)
    BY <1>2, <2>2 DEF Owed, Passed, SlotsOf
  <2> QED
    BY <2>2, <2>3 DEF CountOK
<1> QED BY <1>1, <1>3, <1>s DEF FramesOK, IInv

\* A subscriber that is called was not called before: its only slot is the one
\* the loop has come to.
LEMMA CallFrame ==
    ASSUME IInv, CallSubscriber
    PROVE  stack' \in Seq(Frames) /\ FramesOK'
<1> DEFINE fn == s_subscribers[Top.i].fn
           calls == [f \in Functions |->
                        IF f = fn /\ Top.calls[f] # Touched
                        THEN Top.calls[f] + 1 ELSE Top.calls[f]]
           frame == [Top EXCEPT !.fn = fn, !.calls = calls]
<1>s. /\ stack # << >>
      /\ Top \in Frames
      /\ CountOK(Top)
  BY StackFacts DEF IInv, CallSubscriber, AtSlot, InLoop, FramesOK, Top
<1>i. /\ Top.i \in Slots
      /\ Top.i < N
      /\ Top.fn = NULL
      /\ Top.severity \in Levels
      /\ Top.calls \in CallCounts
  BY <1>s, FrameFields, SlotsAssumption DEF CallSubscriber, AtSlot, InLoop, Slots, N
<1>t. /\ s_subscribers \in [Slots -> subscriber_t]
      /\ fn \in Functions
      /\ Top.severity >= s_subscribers[Top.i].threshold
  <2>1. s_subscribers[Top.i] \in subscriber_t
    BY <1>i DEF IInv, TypeOK
  <2> QED BY <2>1, <1>i DEF IInv, TypeOK, subscriber_t, CallSubscriber, Wants
<1>o. \A slot \in Slots : s_subscribers[slot].fn = fn => slot = Top.i
  BY <1>i, <1>t, NullAssumption DEF IInv, NoDuplicates
<1>c. \A f \in Functions :
        Top.calls[f] # Touched => Top.calls[f] \in {0, 1} /\ (f = fn => Top.calls[f] = 0)
  <2> SUFFICES ASSUME NEW f \in Functions, Top.calls[f] # Touched
               PROVE  Top.calls[f] \in {0, 1} /\ (f = fn => Top.calls[f] = 0)
    OBVIOUS
  <2>1. Top.calls[f] = IF Owed(Top, f) THEN 1 ELSE 0
    BY <1>s DEF CountOK
  <2>2. Top.i \notin Passed(Top)
    BY <1>i DEF Passed, Slots
  <2>3. f = fn => ~Owed(Top, f)
    BY <1>o, <2>2 DEF Owed, SlotsOf
  <2> QED BY <2>1, <2>3
<1>1. calls \in CallCounts
  BY <1>c, <1>i, SlotsAssumption DEF CallCounts, Touched
<1> HIDE DEF calls
<1>2. /\ frame \in Frames
      /\ frame.severity = Top.severity
      /\ frame.i = Top.i
      /\ frame.fn = fn
      /\ frame.calls = calls
  BY <1>1, <1>s, <1>t DEF Frames
<1>3. \A f \in Functions :
        /\ calls[f] = IF f = fn /\ Top.calls[f] # Touched
                     THEN Top.calls[f] + 1 ELSE Top.calls[f]
  BY DEF calls
<1> HIDE DEF frame
<1>4. CountOK(frame)
  <2> SUFFICES ASSUME NEW f \in Functions, calls[f] # Touched
               PROVE  calls[f] = IF Owed(frame, f) THEN 1 ELSE 0
    BY <1>2 DEF CountOK
  <2>p. \A slot \in Slots :
          slot \in Passed(frame) <=> slot \in Passed(Top) \/ slot = Top.i
    BY <1>2, <1>i, <1>t, NullAssumption DEF Passed, Slots
  <2>1. CASE f = fn
    <3>1. Top.i \in SlotsOf(f) \cap Passed(frame)
      BY <2>1, <2>p, <1>i DEF SlotsOf
    <3>2. Owed(frame, f)
      BY <3>1, <1>2, <1>t DEF Owed
    <3>3. Top.calls[f] # Touched
      BY <2>1, <1>3
    <3>4. Top.calls[f] = 0
      BY <2>1, <3>3, <1>c
    <3> QED BY <2>1, <3>2, <3>3, <3>4, <1>3
  <2>2. CASE f # fn
    <3>1. Top.i \notin SlotsOf(f)
      BY <2>2 DEF SlotsOf
    <3>2. Owed(frame, f) <=> Owed(Top, f)
      BY <3>1, <2>p, <1>2 DEF Owed, SlotsOf
    <3>3. calls[f] = Top.calls[f]
      BY <2>2, <1>3
    <3> QED BY <3>2, <3>3, <1>s DEF CountOK
  <2> QED BY <2>1, <2>2
<1>5. Replace(frame)
  BY DEF CallSubscriber, frame, calls
<1> QED BY <1>2, <1>4, <1>5, <1>i, <1>s, ReplaceFrame

\* Moving on to the next slot: after a subscriber has returned, and past a
\* slot whose owner does not want the message.
LEMMA Advance ==
    ASSUME IInv, stack # << >>, Top.i < N,
           Top.fn # NULL \/ ~Wants(Top.i, Top.severity),
           NEW frame, frame = [Top EXCEPT !.fn = NULL, !.i = Top.i + 1]
    PROVE  /\ frame \in Frames
           /\ frame.fn = NULL
           /\ CountOK(frame)
<1>s. /\ Top \in Frames
      /\ CountOK(Top)
  BY StackFacts DEF IInv, FramesOK, Top
<1>i. /\ Top.i \in Slots
      /\ Top.i + 1 \in 0 .. N
      /\ Top.severity \in Levels
  BY <1>s, FrameFields, SlotsAssumption DEF Slots, N
<1>1. /\ frame \in Frames
      /\ frame.severity = Top.severity
      /\ frame.i = Top.i + 1
      /\ frame.fn = NULL
      /\ frame.calls = Top.calls
  BY <1>s, <1>i DEF Frames, N
<1>2. \A slot \in Slots :
        slot \in Passed(frame) <=> slot < Top.i \/ slot = Top.i
  BY <1>1, <1>i DEF Passed, Slots
<1>3. ASSUME NEW f \in Functions
      PROVE  Owed(frame, f) <=> Owed(Top, f)
  <2>1. CASE Top.fn # NULL
    <3>1. \A slot \in Slots : slot \in Passed(frame) <=> slot \in Passed(Top)
      BY <1>2, <2>1 DEF Passed
    <3> QED BY <3>1, <1>1 DEF Owed, SlotsOf
  <2>2. CASE Top.fn = NULL
    <3>1. \A slot \in Slots :
            slot \in Passed(frame) <=> slot \in Passed(Top) \/ slot = Top.i
      BY <1>2, <2>2 DEF Passed
    <3>2. Top.i \in SlotsOf(f) => ~(Top.severity >= s_subscribers[Top.i].threshold)
      BY <2>2, NullAssumption DEF SlotsOf, Wants
    <3> QED BY <3>1, <3>2, <1>1 DEF Owed, SlotsOf
  <2> QED BY <2>1, <2>2
<1> QED BY <1>1, <1>3, <1>s DEF CountOK

-----------------------------------------------------------------------------
(***************************************************************************)
(* The invariant and what follows from it.                                 *)
(***************************************************************************)
\* At the start nobody subscribes and nothing is dispatched.
LEMMA InitEstablishes == Init => IInv
<1> SUFFICES ASSUME Init PROVE IInv
  OBVIOUS
<1>1. [fn |-> NULL, threshold |-> 0] \in subscriber_t
  BY DEF subscriber_t
<1>2. TypeOK
  BY <1>1, EmptySeq DEF Init, TypeOK, EmptyTable, ulog_err_t
<1>3. NoDuplicates
  BY DEF Init, NoDuplicates, EmptyTable
<1>4. FramesOK
  <2>1. Len(stack) = 0
    BY EmptySeq DEF Init
  <2> QED BY <2>1 DEF FramesOK
<1> QED BY <1>2, <1>3, <1>4 DEF IInv

\* Every step of the logger and of its callers keeps the invariant.
LEMMA NextPreserves == IInv /\ [Next]_vars => IInv'
<1> SUFFICES ASSUME IInv, [Next]_vars PROVE IInv'
  OBVIOUS
<1>t. /\ s_subscribers \in [Slots -> subscriber_t]
      /\ s_message \in Texts
      /\ result \in ulog_err_t
      /\ NoDuplicates
  BY DEF IInv, TypeOK
<1>1. CASE ulog_init
  <2>1. /\ s_subscribers' \in [Slots -> subscriber_t]
        /\ NoDuplicates'
        /\ Spares(Functions)
    BY <1>1, InitTable DEF IInv, ulog_init
  <2>2. stack' \in Seq(Frames) /\ FramesOK'
    BY <1>1, <2>1, TouchFrames DEF ulog_init
  <2> QED BY <1>1, <1>t, <2>1, <2>2 DEF IInv, TypeOK, ulog_init
<1>2. CASE \E fn \in Functions, threshold \in Levels : ulog_subscribe(fn, threshold)
  <2>1. PICK fn \in Functions, threshold \in Levels : ulog_subscribe(fn, threshold)
    BY <1>2
  <2>2. /\ s_subscribers' \in [Slots -> subscriber_t]
        /\ NoDuplicates'
        /\ Spares({fn})
        /\ result' \in ulog_err_t
    BY <2>1, SubscribeTable DEF IInv
  <2>3. /\ Touch({fn})
        /\ s_message' = s_message
    BY <2>1 DEF ulog_subscribe
  <2>4. stack' \in Seq(Frames) /\ FramesOK'
    BY <2>2, <2>3, TouchFrames
  <2> QED BY <1>t, <2>2, <2>3, <2>4 DEF IInv, TypeOK
<1>3. CASE \E fn \in Functions : ulog_unsubscribe(fn)
  <2>1. PICK fn \in Functions : ulog_unsubscribe(fn)
    BY <1>3
  <2>2. /\ s_subscribers' \in [Slots -> subscriber_t]
        /\ NoDuplicates'
        /\ Spares({fn})
        /\ result' \in ulog_err_t
    BY <2>1, UnsubscribeTable DEF IInv
  <2>3. /\ Touch({fn})
        /\ s_message' = s_message
    BY <2>1 DEF ulog_unsubscribe
  <2>4. stack' \in Seq(Frames) /\ FramesOK'
    BY <2>2, <2>3, TouchFrames
  <2> QED BY <1>t, <2>2, <2>3, <2>4 DEF IInv, TypeOK
<1>4. CASE AtCaller /\ \E severity \in Levels, text \in Texts : ulog_message(severity, text)
  <2>1. PICK severity \in Levels, text \in Texts : ulog_message(severity, text)
    BY <1>4
  <2>2. stack' \in Seq(Frames) /\ FramesOK'
    BY <1>4, <2>1, PushFrame
  <2>3. /\ s_message' \in Texts
        /\ UNCHANGED <<s_subscribers, result>>
    BY <2>1 DEF ulog_message
  <2> QED BY <1>t, <2>2, <2>3 DEF IInv, TypeOK, NoDuplicates
<1>5. CASE CallSubscriber
  <2>1. stack' \in Seq(Frames) /\ FramesOK'
    BY <1>5, CallFrame
  <2>2. UNCHANGED <<s_subscribers, s_message, result>>
    BY <1>5 DEF CallSubscriber, Replace
  <2> QED BY <1>t, <2>1, <2>2 DEF IInv, TypeOK, NoDuplicates
<1>6. ASSUME stack # << >>, Top.i < N,
             Top.fn # NULL \/ ~Wants(Top.i, Top.severity),
             Replace([Top EXCEPT !.fn = NULL, !.i = Top.i + 1])
      PROVE  IInv'
  <2> DEFINE frame == [Top EXCEPT !.fn = NULL, !.i = Top.i + 1]
  <2>1. /\ frame \in Frames
        /\ frame.fn = NULL
        /\ CountOK(frame)
    BY <1>6, Advance
  <2>2. Replace(frame)
    BY <1>6
  <2> HIDE DEF frame
  <2>3. stack' \in Seq(Frames) /\ FramesOK'
    BY <1>6, <2>1, <2>2, ReplaceFrame
  <2>4. UNCHANGED <<s_subscribers, s_message, result>>
    BY <2>2 DEF Replace
  <2> QED BY <1>t, <2>3, <2>4 DEF IInv, TypeOK, NoDuplicates
<1>7. CASE SkipSlot
  <2>1. /\ stack # << >>
        /\ Top.i < N
        /\ Top.fn = NULL
        /\ ~Wants(Top.i, Top.severity)
        /\ Top \in Frames
        /\ Replace([Top EXCEPT !.i = Top.i + 1])
    BY <1>7, StackFacts DEF SkipSlot, AtSlot, InLoop, N, IInv
  <2>2. [Top EXCEPT !.i = Top.i + 1] = [Top EXCEPT !.fn = NULL, !.i = Top.i + 1]
    BY <2>1 DEF Frames
  <2> QED BY <1>6, <2>1, <2>2
<1>8. CASE SubscriberReturns
  <2>1. /\ stack # << >>
        /\ Top.fn # NULL
        /\ Replace([Top EXCEPT !.fn = NULL, !.i = Top.i + 1])
    BY <1>8 DEF SubscriberReturns
  <2>2. Top.i < N
    BY <2>1, StackFacts DEF IInv, FramesOK, Top
  <2> QED BY <1>6, <2>1, <2>2
<1>9. CASE MessageDone
  <2>1. stack' \in Seq(Frames) /\ FramesOK'
    BY <1>9, PopFrame
  <2>2. UNCHANGED <<s_subscribers, s_message, result>>
    BY <1>9 DEF MessageDone
  <2> QED BY <1>t, <2>1, <2>2 DEF IInv, TypeOK, NoDuplicates
<1>10. CASE UNCHANGED vars
  BY <1>10 DEF vars, IInv, TypeOK, NoDuplicates, FramesOK, CountOK, Owed, Passed, SlotsOf
<1> QED BY <1>1, <1>2, <1>3, <1>4, <1>5, <1>7, <1>8, <1>9, <1>10
        DEF Next, Caller, Loop

\* At the end of the loop every slot has been passed, so the count is the one
\* CalledOnce asks for.
LEMMA InvariantImplies == IInv => CalledOnce
<1> SUFFICES ASSUME IInv,
                    NEW d \in DOMAIN stack,
                    stack[d].i = ULOG_MAX_SUBSCRIBERS,
                    NEW f \in Functions,
                    stack[d].calls[f] # Touched
             PROVE  stack[d].calls[f] =
                       IF \E slot \in SlotsOf(f) :
                             stack[d].severity >= s_subscribers[slot].threshold
                       THEN 1 ELSE 0
  BY DEF CalledOnce
<1>1. d \in 1 .. Len(stack)
  BY StackFacts DEF IInv
<1>2. stack[d].calls[f] = IF Owed(stack[d], f) THEN 1 ELSE 0
  BY <1>1 DEF IInv, FramesOK, CountOK
<1>3. SlotsOf(f) \cap Passed(stack[d]) = SlotsOf(f)
  BY SlotsAssumption DEF SlotsOf, Passed, Slots
<1> QED BY <1>2, <1>3 DEF Owed

\* The invariant that carries the others: types, no duplicates, and for each
\* dispatch under way what it has done so far (ulog.c:118-124).
THEOREM InductiveInvariant == Spec => []IInv
<1> QED BY InitEstablishes, NextPreserves, PTL DEF Spec

\* Every variable keeps its type: the loop of ulog_message stays in the table.
THEOREM TypeCorrect == Spec => []TypeOK
<1>1. IInv => TypeOK
  BY DEF IInv
<1> QED BY <1>1, InductiveInvariant, PTL

\* However ulog_subscribe and ulog_unsubscribe are called, no function has two
\* slots.
THEOREM SubscribedOnce == Spec => []NoDuplicates
<1>1. IInv => NoDuplicates
  BY DEF IInv
<1> QED BY <1>1, InductiveInvariant, PTL

\* A function whose subscription is left alone during a dispatch is called
\* once if it wants the message and never otherwise.
THEOREM DeliveredOnce == Spec => []CalledOnce
<1> QED BY InvariantImplies, InductiveInvariant, PTL

-----------------------------------------------------------------------------
(***************************************************************************)
(* Proof that the logger's table of slots implements the registry of         *)
(* subscribers of module Registry, for every size of the table, set of       *)
(* functions and set of levels, whatever is dispatched meanwhile.           *)
(*                                                                         *)
(* The refinement mapping reads a function's threshold from the slot that     *)
(* holds it; as no function has two slots there is one to choose, and there   *)
(* are as many subscribed functions as slots in use.                       *)
(***************************************************************************)

\* What the table t has in it.
Tables == [Slots -> subscriber_t]
Unique(t) == \A s1, s2 \in Slots : t[s1].fn = t[s2].fn /\ s1 # s2 => t[s1].fn = NULL
SlotsWith(t, f) == {slot \in Slots : t[slot].fn = f}
FunctionsIn(t) == {t[slot].fn : slot \in Slots} \ {NULL}
ThresholdIn(t) ==
    [f \in FunctionsIn(t) |-> t[CHOOSE slot \in SlotsWith(t, f) : TRUE].threshold]

-----------------------------------------------------------------------------
\* The fields of a slot.
LEMMA SlotFields ==
    ASSUME NEW t \in Tables, NEW slot \in Slots
    PROVE  /\ t[slot].fn \in Functions \cup {NULL}
           /\ t[slot].threshold \in Levels \cup {0}
  BY DEF Tables, subscriber_t

\* The functions in the table are those with a slot.
LEMMA InTheTable ==
    ASSUME NEW t, NEW f, f # NULL
    PROVE  f \in FunctionsIn(t) <=> \E slot \in Slots : t[slot].fn = f
  BY DEF FunctionsIn

\* There is one slot to choose.
LEMMA TheSlot ==
    ASSUME NEW t \in Tables, Unique(t), NEW slot \in Slots, t[slot].fn # NULL
    PROVE  /\ t[slot].fn \in FunctionsIn(t)
           /\ ThresholdIn(t)[t[slot].fn] = t[slot].threshold
<1> DEFINE f == t[slot].fn
           chosen == CHOOSE s \in SlotsWith(t, f) : TRUE
<1>1. slot \in SlotsWith(t, f)
  BY DEF SlotsWith
<1>2. chosen \in SlotsWith(t, f)
  BY <1>1
<1>3. chosen = slot
  BY <1>2 DEF SlotsWith, Unique
<1>4. f \in FunctionsIn(t)
  BY DEF FunctionsIn
<1>5. ThresholdIn(t)[f] = t[chosen].threshold
  BY <1>4 DEF ThresholdIn
<1> QED
  BY <1>3, <1>4, <1>5

\* A subscription is written over the function's slot, or into an empty one.
LEMMA WrittenSlot ==
    ASSUME NEW t \in Tables, Unique(t), NEW u \in Tables, Unique(u),
           NEW slot \in Slots, NEW fn \in Functions, NEW level \in Levels,
           t[slot].fn \in {fn, NULL},
           u[slot].fn = fn, u[slot].threshold = level,
           \A s \in Slots : s # slot => u[s] = t[s]
    PROVE  /\ FunctionsIn(u) = FunctionsIn(t) \cup {fn}
           /\ \A f \in FunctionsIn(u) :
                 ThresholdIn(u)[f] = IF f = fn THEN level ELSE ThresholdIn(t)[f]
<1>1. fn # NULL
  BY NullAssumption
<1>2. \A s \in Slots : s # slot => u[s] = t[s]
  OBVIOUS
<1>3. u[slot].fn = fn /\ u[slot].threshold = level
  OBVIOUS
<1>4. ASSUME NEW f
      PROVE  f \in FunctionsIn(u) <=> f \in FunctionsIn(t) \cup {fn}
  BY <1>1, <1>2, <1>3 DEF FunctionsIn
<1>5. FunctionsIn(u) = FunctionsIn(t) \cup {fn}
  BY <1>4
<1>6. ASSUME NEW f \in FunctionsIn(t) \cup {fn}
      PROVE  ThresholdIn(u)[f] = IF f = fn THEN level ELSE ThresholdIn(t)[f]
  <2>1. CASE f = fn
    BY <2>1, <1>1, <1>3, TheSlot
  <2>2. CASE f # fn
    <3>1. f # NULL
      BY <2>2 DEF FunctionsIn
    <3>2. PICK s \in Slots : t[s].fn = f
      BY <2>2 DEF FunctionsIn
    <3>3. s # slot
      BY <2>2, <3>1, <3>2
    <3>4. u[s] = t[s]
      BY <3>3, <1>2
    <3>5. ThresholdIn(u)[f] = u[s].threshold
      BY <3>1, <3>2, <3>4, TheSlot
    <3>6. ThresholdIn(t)[f] = t[s].threshold
      BY <3>1, <3>2, TheSlot
    <3> QED
      BY <2>2, <3>4, <3>5, <3>6
  <2> QED
    BY <2>1, <2>2
<1> QED
  BY <1>5, <1>6

\* A subscription is removed from the function's slot.
Erased(t, slot) == [t EXCEPT ![slot].fn = NULL]
LEMMA ErasedSlot ==
    ASSUME NEW t \in Tables, Unique(t), NEW u \in Tables, Unique(u),
           NEW slot \in Slots, NEW fn \in Functions, t[slot].fn = fn,
           u = Erased(t, slot)
    PROVE  ThresholdIn(u) = [f \in FunctionsIn(t) \ {fn} |-> ThresholdIn(t)[f]]
<1>1. fn # NULL
  BY NullAssumption
<1>2. \A s \in Slots : s # slot => u[s] = t[s]
  BY DEF Tables, Erased
<1>3. u[slot].fn = NULL
  <2>1. t[slot] \in [fn : Functions \cup {NULL}, threshold : Levels \cup {0}]
    BY DEF Tables, subscriber_t
  <2>2. u[slot] = [t[slot] EXCEPT !.fn = NULL]
    BY DEF Tables, Erased
  <2> QED
    BY <2>1, <2>2
<1>4. \A s \in Slots : s # slot => t[s].fn # fn
  BY <1>1 DEF Unique
<1>5. ASSUME NEW f
      PROVE  f \in FunctionsIn(u) <=> f \in FunctionsIn(t) \ {fn}
  BY <1>1, <1>2, <1>3, <1>4 DEF FunctionsIn
<1>6. FunctionsIn(u) = FunctionsIn(t) \ {fn}
  BY <1>5
<1>7. ASSUME NEW f \in FunctionsIn(t) \ {fn}
      PROVE  ThresholdIn(u)[f] = ThresholdIn(t)[f]
  <2>1. f # NULL
    BY DEF FunctionsIn
  <2>2. PICK s \in Slots : t[s].fn = f
    BY DEF FunctionsIn
  <2>3. s # slot
    BY <2>2
  <2>4. u[s] = t[s]
    BY <2>3, <1>2
  <2>5. ThresholdIn(u)[f] = u[s].threshold
    BY <2>1, <2>2, <2>4, TheSlot
  <2>6. ThresholdIn(t)[f] = t[s].threshold
    BY <2>1, <2>2, TheSlot
  <2> QED
    BY <2>4, <2>5, <2>6
<1>8. ThresholdIn(u) = [f \in FunctionsIn(u) |-> ThresholdIn(u)[f]]
  BY DEF ThresholdIn
<1>9. [f \in FunctionsIn(u) |-> ThresholdIn(u)[f]] = [f \in FunctionsIn(t) \ {fn} |-> ThresholdIn(t)[f]]
  BY <1>6, <1>7
<1> QED
  BY <1>8, <1>9, Zenon

\* The cleared table.
LEMMA NothingWritten == FunctionsIn(EmptyTable) = {} /\ ThresholdIn(EmptyTable) = << >>
<1>1. FunctionsIn(EmptyTable) = {}
  BY DEF FunctionsIn, EmptyTable
<1> QED
  BY <1>1 DEF ThresholdIn

-----------------------------------------------------------------------------
\* There are as many subscribed functions as slots in use: the registry is full
\* exactly if there is no empty slot.
LEMMA SlotsInUse ==
    ASSUME NEW t \in Tables, Unique(t)
    PROVE  /\ IsFiniteSet(FunctionsIn(t))
           /\ Cardinality(FunctionsIn(t)) \in Nat
           /\ (\E slot \in Slots : t[slot].fn = NULL) => Cardinality(FunctionsIn(t)) < N
           /\ (\A slot \in Slots : t[slot].fn # NULL) => Cardinality(FunctionsIn(t)) = N
<1> DEFINE used == {slot \in Slots : t[slot].fn # NULL}
           fnOf == [slot \in used |-> t[slot].fn]
<1>1. IsFiniteSet(Slots) /\ Cardinality(Slots) = N /\ N \in Nat
  BY SlotsAssumption, FS_Interval DEF Slots, N
<1>2. IsFiniteSet(used) /\ Cardinality(used) <= N /\ (Cardinality(used) = N => used = Slots)
      /\ Cardinality(used) \in Nat
  BY <1>1, FS_Subset, FS_CardinalityType
<1>3. fnOf \in Bijection(used, FunctionsIn(t))
  <2>1. fnOf \in [used -> FunctionsIn(t)]
    BY DEF FunctionsIn
  <2>2. \A a, b \in used : fnOf[a] = fnOf[b] => a = b
    BY DEF Unique
  <2>3. \A f \in FunctionsIn(t) : \E a \in used : fnOf[a] = f
    BY DEF FunctionsIn
  <2> QED
    BY <2>1, <2>2, <2>3 DEF Bijection, Injection, Surjection, IsInjective
<1>4. IsFiniteSet(FunctionsIn(t)) /\ Cardinality(FunctionsIn(t)) = Cardinality(used)
  BY <1>2, <1>3, FS_Bijection DEF ExistsBijection
<1>5. (\A slot \in Slots : t[slot].fn # NULL) => used = Slots
  OBVIOUS
<1>6. (\E slot \in Slots : t[slot].fn = NULL) => used # Slots
  OBVIOUS
<1>7. ASSUME \E slot \in Slots : t[slot].fn = NULL
      PROVE  Cardinality(FunctionsIn(t)) < N
  <2> DEFINE c == Cardinality(used)
  <2>1. c # N
    BY <1>2, <1>6, <1>7
  <2>2. c \in Nat /\ c <= N /\ N \in Nat
    BY <1>1, <1>2
  <2> HIDE DEF c
  <2>3. c < N
    BY <2>1, <2>2
  <2> QED
    BY <2>3, <1>4 DEF c
<1>8. ASSUME \A slot \in Slots : t[slot].fn # NULL
      PROVE  Cardinality(FunctionsIn(t)) = N
  <2>1. used = Slots
    BY <1>5, <1>8
  <2> QED
    BY <2>1, <1>1, <1>4
<1> QED
  BY <1>2, <1>4, <1>7, <1>8

-----------------------------------------------------------------------------
\* The mapping of module Ulog reads the table as ThresholdIn does.
LEMMA Reading ==
    /\ ThresholdOf = ThresholdIn(s_subscribers)
    /\ ThresholdOf' = ThresholdIn(s_subscribers')
  BY DEF ThresholdOf, ThresholdIn, SubscribedFunctions, FunctionsIn, SlotsOf, SlotsWith

LEMMA ReadingDomain ==
    ASSUME NEW t
    PROVE  DOMAIN ThresholdIn(t) = FunctionsIn(t)
  BY DEF ThresholdIn

\* The registry counts as the table does.
LEMMA Counting ==
    ASSUME NEW S
    PROVE  Promise!Cardinality(S) = Cardinality(S)
  BY DEF Promise!Cardinality, Cardinality

LEMMA TableFacts ==
    ASSUME IInv
    PROVE  s_subscribers \in Tables /\ Unique(s_subscribers)
  BY DEF IInv, TypeOK, NoDuplicates, Tables, Unique

LEMMA TableFactsNext ==
    ASSUME IInv'
    PROVE  s_subscribers' \in Tables /\ Unique(s_subscribers')
  BY DEF IInv, TypeOK, NoDuplicates, Tables, Unique

LEMMA InitRefines == Init => Promise!RInit
  BY NothingWritten, Reading DEF Init, Promise!RInit

-----------------------------------------------------------------------------
\* Each operation of the table is the registry's operation of the same name.
LEMMA SubscribeRefines ==
    ASSUME IInv, IInv', NEW fn \in Functions, NEW level \in Levels,
           ulog_subscribe(fn, level)
    PROVE  Promise!Subscribe(fn, level) \/ Promise!Refuse(fn)
<1> DEFINE t == s_subscribers
           u == s_subscribers'
<1>t. t \in Tables /\ Unique(t)
  BY TableFacts
<1>u. u \in Tables /\ Unique(u)
  BY TableFactsNext
<1>n. fn # NULL
  BY NullAssumption
<1>d. Promise!Subscribed = FunctionsIn(t)
  BY Reading, ReadingDomain DEF Promise!Subscribed
<1>w. ASSUME NEW slot \in Slots, u = [t EXCEPT ![slot] = [fn |-> fn, threshold |-> level]],
             t[slot].fn \in {fn, NULL}
      PROVE  ThresholdOf' = [f \in Promise!Subscribed \cup {fn} |->
                                IF f = fn THEN level ELSE ThresholdOf[f]]
  <2>0. /\ u[slot].fn = fn /\ u[slot].threshold = level
        /\ \A s \in Slots : s # slot => u[s] = t[s]
    BY <1>w, <1>t DEF Tables
  <2>1. /\ FunctionsIn(u) = FunctionsIn(t) \cup {fn}
        /\ \A f \in FunctionsIn(u) :
              ThresholdIn(u)[f] = IF f = fn THEN level ELSE ThresholdIn(t)[f]
    <3>1. t \in Tables /\ Unique(t)
      BY <1>t
    <3>2. u \in Tables /\ Unique(u)
      BY <1>u
    <3>3. slot \in Slots /\ t[slot].fn \in {fn, NULL}
      BY <1>w
    <3>4. fn \in Functions /\ level \in Levels
      OBVIOUS
    <3> HIDE DEF t, u
    <3> QED
      BY <2>0, <3>1, <3>2, <3>3, <3>4, WrittenSlot
  <2>2. ThresholdIn(u) = [f \in FunctionsIn(u) |-> ThresholdIn(u)[f]]
    BY DEF ThresholdIn
  <2>3. [f \in FunctionsIn(u) |-> ThresholdIn(u)[f]]
          = [f \in Promise!Subscribed \cup {fn} |->
                IF f = fn THEN level ELSE ThresholdOf[f]]
    BY <2>1, <1>d, Reading
  <2> QED
    BY <2>2, <2>3, Reading
<1>1. CASE \E slot \in First(KnownSlots(fn)) :
             u = [t EXCEPT ![slot] = [fn |-> fn, threshold |-> level]] /\ result' = "NONE"
  <2>1. PICK slot \in Slots :
           t[slot].fn = fn /\ u = [t EXCEPT ![slot] = [fn |-> fn, threshold |-> level]]
    BY <1>1 DEF First, KnownSlots, SlotsOf
  <2>2. fn \in Promise!Subscribed
    BY <2>1, <1>d, <1>n, InTheTable
  <2> QED
    BY <1>1, <1>w, <2>1, <2>2 DEF Promise!Subscribe
<1>2. CASE \E slot \in Last(Available) :
             u = [t EXCEPT ![slot] = [fn |-> fn, threshold |-> level]] /\ result' = "NONE"
  <2>1. PICK slot \in Slots :
           t[slot].fn = NULL /\ u = [t EXCEPT ![slot] = [fn |-> fn, threshold |-> level]]
    BY <1>2 DEF Last, Available, SlotsOf
  <2>2. Cardinality(Promise!Subscribed) < ULOG_MAX_SUBSCRIBERS
    BY <2>1, <1>d, <1>t, SlotsInUse DEF N
  <2> QED
    BY <1>2, <1>w, <2>1, <2>2, Counting DEF Promise!Subscribe
<1>3. CASE /\ KnownSlots(fn) = {}
           /\ Available = {}
           /\ result' = "SUBSCRIBERS_EXCEEDED"
           /\ UNCHANGED s_subscribers
  <2>1. fn \notin Promise!Subscribed
    BY <1>3, <1>d, <1>n, InTheTable DEF KnownSlots, SlotsOf
  <2>2. Cardinality(FunctionsIn(t)) = N
    BY <1>3, <1>t, SlotsInUse DEF Available, SlotsOf
  <2>3. Cardinality(Promise!Subscribed) >= ULOG_MAX_SUBSCRIBERS
    BY <2>2, <1>d, SlotsAssumption DEF N
  <2>4. ThresholdOf' = ThresholdOf
    BY <1>3, Reading
  <2> QED
    BY <1>3, <2>1, <2>3, <2>4, Counting DEF Promise!Refuse
<1> QED
  BY <1>1, <1>2, <1>3 DEF ulog_subscribe

LEMMA UnsubscribeRefines ==
    ASSUME IInv, IInv', NEW fn \in Functions, ulog_unsubscribe(fn)
    PROVE  Promise!Unsubscribe(fn) \/ Promise!NothingToUnsubscribe(fn)
<1> DEFINE t == s_subscribers
           u == s_subscribers'
<1>t. t \in Tables /\ Unique(t)
  BY TableFacts
<1>u. u \in Tables /\ Unique(u)
  BY TableFactsNext
<1>n. fn # NULL
  BY NullAssumption
<1>d. Promise!Subscribed = FunctionsIn(t)
  BY Reading, ReadingDomain DEF Promise!Subscribed
<1>1. CASE \E slot \in First(SlotsOf(fn)) :
             u = [t EXCEPT ![slot].fn = NULL] /\ result' = "NONE"
  <2>1. PICK slot \in Slots : t[slot].fn = fn /\ u = Erased(t, slot)
    BY <1>1 DEF First, SlotsOf, Erased
  <2>2. fn \in Promise!Subscribed
    BY <2>1, <1>d, <1>n, InTheTable
  <2>3. ThresholdOf' = [f \in Promise!Subscribed \ {fn} |-> ThresholdOf[f]]
    <3>1. ThresholdIn(u) = [f \in FunctionsIn(t) \ {fn} |-> ThresholdIn(t)[f]]
      <4> HIDE DEF t, u
      <4> QED
        BY <2>1, <1>t, <1>u, ErasedSlot
    <3>2. [f \in FunctionsIn(t) \ {fn} |-> ThresholdIn(t)[f]]
            = [f \in Promise!Subscribed \ {fn} |-> ThresholdOf[f]]
      BY <1>d, Reading
    <3> QED
      BY <3>1, <3>2, Reading
  <2> QED
    BY <1>1, <2>2, <2>3 DEF Promise!Unsubscribe
<1>2. CASE /\ SlotsOf(fn) = {}
           /\ result' = "NOT_SUBSCRIBED"
           /\ UNCHANGED s_subscribers
  <2>1. fn \notin Promise!Subscribed
    BY <1>2, <1>d, <1>n, InTheTable DEF SlotsOf
  <2>2. ThresholdOf' = ThresholdOf
    BY <1>2, Reading
  <2> QED
    BY <1>2, <2>1, <2>2 DEF Promise!NothingToUnsubscribe
<1> QED
  BY <1>1, <1>2 DEF ulog_unsubscribe

\* A step that leaves the table and the last answer alone is no step of the
\* registry: the dispatch only reads.
LEMMA OnlyReads ==
    ASSUME UNCHANGED <<s_subscribers, result>>
    PROVE  UNCHANGED <<ThresholdOf, result>>
  BY Reading

LEMMA NextRefines ==
    IInv /\ IInv' /\ [Next]_vars => [Promise!RNext]_<<ThresholdOf, result>>
<1> SUFFICES ASSUME IInv, IInv', [Next]_vars
             PROVE  [Promise!RNext]_<<ThresholdOf, result>>
  OBVIOUS
<1>1. CASE ulog_init
  <2>1. Promise!Clear
    BY <1>1, NothingWritten, Reading DEF ulog_init, Promise!Clear
  <2> QED
    BY <2>1 DEF Promise!RNext
<1>2. CASE \E fn \in Functions, level \in Levels : ulog_subscribe(fn, level)
  <2>1. PICK fn \in Functions, level \in Levels : ulog_subscribe(fn, level)
    BY <1>2
  <2>2. Promise!Subscribe(fn, level) \/ Promise!Refuse(fn)
    BY <2>1, SubscribeRefines
  <2> QED
    BY <2>2 DEF Promise!RNext
<1>3. CASE \E fn \in Functions : ulog_unsubscribe(fn)
  <2>1. PICK fn \in Functions : ulog_unsubscribe(fn)
    BY <1>3
  <2>2. Promise!Unsubscribe(fn) \/ Promise!NothingToUnsubscribe(fn)
    BY <2>1, UnsubscribeRefines
  <2> QED
    BY <2>2 DEF Promise!RNext
<1>4. CASE \E severity \in Levels, text \in Texts : ulog_message(severity, text)
  BY <1>4, OnlyReads DEF ulog_message
<1>5. CASE Loop \/ SubscriberReturns
  <2>1. UNCHANGED <<s_subscribers, result>>
    BY <1>5 DEF Loop, CallSubscriber, SkipSlot, MessageDone, SubscriberReturns, Replace
  <2> QED
    BY <2>1, OnlyReads
<1>6. CASE UNCHANGED vars
  BY <1>6, OnlyReads DEF vars
<1> QED
  BY <1>1, <1>2, <1>3, <1>4, <1>5, <1>6 DEF Next, Caller

(***************************************************************************)
(* The table of ulog.c implements the registry: ulog_subscribe keeps one     *)
(* threshold per function and refuses only when there is no slot left,        *)
(* ulog_unsubscribe removes exactly the function it is given, ulog_init       *)
(* removes all of them and ulog_message, whose subscribers may call any of    *)
(* these while the loop is in the table, changes nothing itself.             *)
(***************************************************************************)
THEOREM TableImplementsRegistry == Spec => ImplementsRegistry
<1>1. Init => Promise!RInit
  BY InitRefines
<1>2. IInv /\ IInv' /\ [Next]_vars => [Promise!RNext]_<<ThresholdOf, result>>
  BY NextRefines
<1>3. Init => IInv
  BY InitEstablishes
<1>4. IInv /\ [Next]_vars => IInv'
  BY NextPreserves
<1> QED
  BY <1>1, <1>2, <1>3, <1>4, PTL DEF Spec, ImplementsRegistry, Promise!RSpec
=============================================================================
