-------------------------------- MODULE Ulog --------------------------------
(***************************************************************************)
(* The logger (log/ulog.c): a fixed table of subscribers and a dispatch     *)
(* loop that calls each of them for the messages that are severe enough.    *)
(*                                                                         *)
(* A subscriber may itself log, subscribe or unsubscribe while it is being  *)
(* called, so a dispatch that is under way is a frame on a stack and every  *)
(* operation of the logger can happen inside it.                           *)
(***************************************************************************)
EXTENDS Integers, Sequences

CONSTANTS
    ULOG_MAX_SUBSCRIBERS,  \* slots of the table: 6 in ulog.h
    Functions,             \* the functions that may subscribe
    NULL,                  \* the function pointer of an empty slot
    Levels,                \* severities and thresholds
    Texts,                 \* what the messages say
    MAX_DEPTH              \* a bound on messages logged inside subscribers

ASSUME SlotsAssumption == ULOG_MAX_SUBSCRIBERS \in Nat \ {0}
ASSUME NullAssumption == NULL \notin Functions
ASSUME LevelsAssumption == Levels \subseteq Nat
ASSUME DepthAssumption == MAX_DEPTH \in Nat

VARIABLES
    s_subscribers,  \* the table
    s_message,      \* the one buffer every message is formatted into
    stack,          \* the dispatches under way, the innermost last
    result          \* what the last ulog_subscribe or ulog_unsubscribe returned

vars == <<s_subscribers, s_message, stack, result>>

Slots == 0 .. ULOG_MAX_SUBSCRIBERS - 1
subscriber_t == [fn : Functions \cup {NULL}, threshold : Levels \cup {0}]
ulog_err_t == {"NONE", "SUBSCRIBERS_EXCEEDED", "NOT_SUBSCRIBED"}

\* The locals of a running ulog_message: its severity, the loop counter, the
\* subscriber it is in (or NULL), and, as history, how often it has called
\* each function, or Touched if somebody has changed the function's
\* subscription since the dispatch began.
Touched == -1
Frame(severity) ==
    [severity |-> severity, i |-> 0, fn |-> NULL,
     calls |-> [f \in Functions |-> 0]]
CallCounts == [Functions -> {Touched} \cup 0 .. ULOG_MAX_SUBSCRIBERS]
Frames == [severity : Levels, i : 0 .. ULOG_MAX_SUBSCRIBERS,
           fn : Functions \cup {NULL}, calls : CallCounts]

Top == stack[Len(stack)]

\* Somebody other than the dispatch loop has the processor.
AtCaller == stack # << >> => Top.fn # NULL

-----------------------------------------------------------------------------
(***************************************************************************)
(* The table.                                                              *)
(***************************************************************************)
\* memset(s_subscribers, 0, ...)
EmptyTable == [slot \in Slots |-> [fn |-> NULL, threshold |-> 0]]

SlotsOf(fn) == {slot \in Slots : s_subscribers[slot].fn = fn}

\* Mutant: the search for fn ends at the first empty slot.
KnownSlotsBeforeGap(fn) ==
    {slot \in SlotsOf(fn) : \A s \in SlotsOf(NULL) : slot < s}

\* The loop looks at the whole table for fn before it settles for an empty
\* slot.
KnownSlots(fn) == SlotsOf(fn)

\* The first, or last, of the slots, if there are any.
First(slots) == {slot \in slots : \A s \in slots : slot <= s}
Last(slots) == {slot \in slots : \A s \in slots : s <= slot}

\* available_slot is overwritten each time an empty slot is met, so the last
\* one is used.
Available == SlotsOf(NULL)

\* The history of every dispatch under way stops counting for fns.
Touch(fns) ==
    stack' = [d \in DOMAIN stack |->
                 [stack[d] EXCEPT !.calls =
                     [f \in Functions |->
                         IF f \in fns THEN Touched ELSE stack[d].calls[f]]]]

ulog_init ==
    /\ s_subscribers' = EmptyTable
    /\ Touch(Functions)
    /\ UNCHANGED <<s_message, result>>

\* A function found in the table keeps its slot and gets the new threshold.
ulog_subscribe(fn, threshold) ==
    /\ \/ /\ \E slot \in First(KnownSlots(fn)) :
                s_subscribers' = [s_subscribers EXCEPT ![slot] =
                                     [fn |-> fn, threshold |-> threshold]]
          /\ result' = "NONE"
       \/ /\ KnownSlots(fn) = {}
          /\ \E slot \in Last(Available) :
                s_subscribers' = [s_subscribers EXCEPT ![slot] =
                                     [fn |-> fn, threshold |-> threshold]]
          /\ result' = "NONE"
       \/ /\ KnownSlots(fn) = {}
          /\ Available = {}
          /\ result' = "SUBSCRIBERS_EXCEEDED"
          /\ UNCHANGED s_subscribers
    /\ Touch({fn})
    /\ UNCHANGED s_message

\* Mutant: only the threshold is cleared.
ulog_unsubscribeThresholdOnly(fn) ==
    /\ \/ /\ \E slot \in First(SlotsOf(fn)) :
                s_subscribers' = [s_subscribers EXCEPT ![slot].threshold = 0]
          /\ result' = "NONE"
       \/ /\ SlotsOf(fn) = {}
          /\ result' = "NOT_SUBSCRIBED"
          /\ UNCHANGED s_subscribers
    /\ Touch({fn})
    /\ UNCHANGED s_message

ulog_unsubscribe(fn) ==
    /\ \/ /\ \E slot \in First(SlotsOf(fn)) :
                s_subscribers' = [s_subscribers EXCEPT ![slot].fn = NULL]
          /\ result' = "NONE"
       \/ /\ SlotsOf(fn) = {}
          /\ result' = "NOT_SUBSCRIBED"
          /\ UNCHANGED s_subscribers
    /\ Touch({fn})
    /\ UNCHANGED s_message

-----------------------------------------------------------------------------
(***************************************************************************)
(* ulog_message: format the text, then walk the table.  Everything a        *)
(* subscriber does while it is called happens between CallSubscriber and    *)
(* SubscriberReturns.                                                      *)
(***************************************************************************)
\* vsnprintf, and the start of the loop.
ulog_message(severity, text) ==
    /\ s_message' = text
    /\ stack' = Append(stack, Frame(severity))
    /\ UNCHANGED <<s_subscribers, result>>

InLoop == stack # << >> /\ Top.fn = NULL
AtSlot == InLoop /\ Top.i < ULOG_MAX_SUBSCRIBERS

\* Mutant: a message is delivered only above the threshold.
WantsMoreSevere(slot, severity) ==
    s_subscribers[slot].fn # NULL /\ severity > s_subscribers[slot].threshold

Wants(slot, severity) ==
    s_subscribers[slot].fn # NULL /\ severity >= s_subscribers[slot].threshold

Replace(frame) ==
    /\ stack' = [stack EXCEPT ![Len(stack)] = frame]
    /\ UNCHANGED <<s_subscribers, s_message, result>>

CallSubscriber ==
    /\ AtSlot
    /\ Wants(Top.i, Top.severity)
    /\ LET fn == s_subscribers[Top.i].fn
       IN  Replace([Top EXCEPT !.fn = fn,
                        !.calls = [f \in Functions |->
                            IF f = fn /\ Top.calls[f] # Touched
                            THEN Top.calls[f] + 1 ELSE Top.calls[f]]])

\* Mutant: the loop variable advances only after a call.
SkipSlotStays == AtSlot /\ ~Wants(Top.i, Top.severity) /\ Replace(Top)

SkipSlot ==
    /\ AtSlot
    /\ ~Wants(Top.i, Top.severity)
    /\ Replace([Top EXCEPT !.i = Top.i + 1])

\* Mutant: the loop variable advances twice after a call.
SubscriberReturnsTwice ==
    /\ stack # << >>
    /\ Top.fn # NULL
    /\ Replace([Top EXCEPT !.fn = NULL, !.i = Top.i + 2])

SubscriberReturns ==
    /\ stack # << >>
    /\ Top.fn # NULL
    /\ Replace([Top EXCEPT !.fn = NULL, !.i = Top.i + 1])

MessageDone ==
    /\ InLoop
    /\ Top.i = ULOG_MAX_SUBSCRIBERS
    /\ stack' = SubSeq(stack, 1, Len(stack) - 1)
    /\ UNCHANGED <<s_subscribers, s_message, result>>

-----------------------------------------------------------------------------
Init ==
    /\ s_subscribers = EmptyTable
    /\ s_message \in Texts
    /\ stack = << >>
    /\ result = "NONE"

\* What the kernel's code, or a subscriber, may do with the logger.
Caller ==
    /\ AtCaller
    /\ \/ ulog_init
       \/ \E fn \in Functions :
             \/ \E threshold \in Levels : ulog_subscribe(fn, threshold)
             \/ ulog_unsubscribe(fn)
       \/ /\ Len(stack) < MAX_DEPTH
          /\ \E severity \in Levels, text \in Texts : ulog_message(severity, text)

Loop == CallSubscriber \/ SkipSlot \/ MessageDone

Next == Caller \/ Loop \/ SubscriberReturns

\* The loop is ordinary code, and a subscriber returns after finitely many
\* steps, whatever it does to the logger meanwhile.
Fairness ==
    \A depth \in 1 .. MAX_DEPTH :
       /\ WF_vars(Loop /\ Len(stack) = depth)
       /\ SF_vars(SubscriberReturns /\ Len(stack) = depth)

Spec == Init /\ [][Next]_vars
FairSpec == Spec /\ Fairness

-----------------------------------------------------------------------------
(***************************************************************************)
(* Properties.                                                             *)
(***************************************************************************)
\* Every variable has its type; in particular the loop never leaves the table.
TypeOK ==
    /\ s_subscribers \in [Slots -> subscriber_t]
    /\ s_message \in Texts
    /\ stack \in Seq(Frames)
    /\ result \in ulog_err_t

\* However subscriptions and removals have left gaps in the table, no function
\* has two slots (ulog_subscribe's "already subscribed").
NoDuplicates ==
    \A s1, s2 \in Slots :
       s_subscribers[s1].fn = s_subscribers[s2].fn /\ s1 # s2
          => s_subscribers[s1].fn = NULL

\* A function whose subscription is left alone while a message is dispatched
\* is called for it once if the message is severe enough and never otherwise,
\* whatever the other subscribers do to the table and to the logger meanwhile.
CalledOnce ==
    \A d \in DOMAIN stack :
       stack[d].i = ULOG_MAX_SUBSCRIBERS =>
          \A f \in Functions :
             stack[d].calls[f] # Touched =>
             stack[d].calls[f] =
                IF \E slot \in SlotsOf(f) :
                      stack[d].severity >= s_subscribers[slot].threshold
                THEN 1 ELSE 0

\* The dispatch of a message ends, with messages logged inside subscribers.
DispatchEnds ==
    \A depth \in 1 .. MAX_DEPTH : Len(stack) = depth ~> Len(stack) < depth

\* The table implements a registry of at most ULOG_MAX_SUBSCRIBERS functions
\* with the thresholds they asked for; a dispatch only reads it.
SubscribedFunctions ==
    {s_subscribers[slot].fn : slot \in Slots} \ {NULL}
ThresholdOf ==
    [f \in SubscribedFunctions |->
        s_subscribers[CHOOSE slot \in SlotsOf(f) : TRUE].threshold]
Promise == INSTANCE Registry WITH threshold <- ThresholdOf,
                                  Capacity <- ULOG_MAX_SUBSCRIBERS
ImplementsRegistry == Promise!RSpec
=============================================================================
