----------------------- MODULE StripeWebhooksProofs ------------------------
(***************************************************************************)
(* Proofs about StripeWebhooks, for any number of handlers, callers, plans *)
(* and events and every combination of faults.                             *)
(*                                                                         *)
(* The inductive invariant has five parts:                                 *)
(*   Shape      types, and where handlers and callers stand;               *)
(*   StripeOK   what Stripe's events say of its subscriptions: the last    *)
(*              one carries the present state, and a deletion or a failed  *)
(*              payment follows one of the same, open subscription;        *)
(*   TakenOnce  a handler past the INSERT is alone with its event, which   *)
(*              has had no effect yet;                                     *)
(*   Accounted  an event with a key, a row or a 200 is processed, being    *)
(*              handled or missed;                                         *)
(*   InOrder    as long as effects come in order and none is missing, the  *)
(*              row is that of the latest event.                           *)
(***************************************************************************)
EXTENDS StripeWebhooks, SequenceTheorems, TLAPS

HandlerStep == {"idle", "insert", "fetch", "apply", "mark", "release"}

EventRow == [type: Type, sub: Nat, state: State]
Trace == [effects: Seq(Nat), missed: SUBSET Nat, last: Nat, ordered: BOOLEAN]

StoresOK ==
  /\ acked \subseteq Event /\ keys \subseteq Event
  /\ processed \subseteq stored /\ stored \subseteq Event
  /\ row \in Row /\ row.sub <= Latest

TraceOK ==
  /\ trace \in Trace
  /\ Len(trace.effects) = Len(events)
  /\ trace.missed \subseteq Event /\ trace.last <= Len(events)

LocalsOK ==
  /\ pc \in [Process -> Step]
  /\ at \in [Process -> Event \union {0}]
  /\ held \in [Process -> State \union {Nothing}]

HandlerOK(h) == pc[h] \in HandlerStep /\ (pc[h] = "idle" <=> at[h] = 0)

\* A caller holds the state of its own event.
CallerOK(c) ==
  /\ pc[c] \in {"idle", "write.plan", "write.flag"}
  /\ pc[c] # "idle" =>
       at[c] \in Event /\ events[at[c]].type = "upsert" /\ events[at[c]].state = held[c]

Shape ==
  /\ stripe \in Seq(State) /\ events \in Seq(EventRow)
  /\ StoresOK /\ TraceOK /\ LocalsOK
  /\ \A h \in Handler : HandlerOK(h)
  /\ \A c \in Caller : CallerOK(c)

EventOK(e) ==
  /\ events[e].sub \in 1 .. Latest
  /\ events[e].type = "deleted" <=> events[e].state.status = "canceled"
  /\ events[e].type \in {"deleted", "payment_failed"} =>
       e - 1 \in Event /\ events[e - 1].sub = events[e].sub /\ events[e - 1].type # "deleted"

LastOK ==
  LET e == Len(events) IN
  e > 0 => /\ events[e].sub = Latest /\ events[e].state = stripe[Latest]
           /\ events[e].type # "payment_failed"

StripeOK ==
  /\ \A n \in 1 .. Latest : n < Latest => stripe[n].status = "canceled"
  /\ Latest > 0 <=> Len(events) > 0
  /\ \A e \in Event : EventOK(e)
  /\ LastOK

Taking(h) == pc[h] \in {"fetch", "apply"}

TakenOnce ==
  /\ \A h \in Handler : Taking(h) => at[h] \in stored /\ trace.effects[at[h]] = 0
  /\ \A h, g \in Handler : h # g /\ Taking(h) /\ Taking(g) => at[h] # at[g]
  /\ \A h \in Handler : pc[h] = "mark" => at[h] \in stored
  /\ \A e \in Event : trace.effects[e] <= 1 /\ (trace.effects[e] > 0 => e \in stored)

\* Being handled by one that has the row.
Owned(e) == \E h \in Handler : at[h] = e /\ pc[h] # "insert"

Accounted ==
  /\ \A e \in acked \union keys : Handled(e) \/ e \in trace.missed
  /\ \A e \in stored : e \in processed \/ Owned(e) \/ e \in trace.missed
  /\ \A h \in Handler : pc[h] = "release" => at[h] \in trace.missed

\* Every event up to e took effect.
Complete(e) == \A f \in 1 .. e : trace.effects[f] > 0

RowIs(e) ==
  LET event == events[e] IN
  /\ event.type = "upsert" => row = Upsert(event.sub, event.state)
  /\ event.type = "checkout" =>
       row.sub = event.sub /\ (e = Len(events) => row = Upsert(event.sub, event.state))
  /\ event.type = "deleted" => row = Free("canceled")
  /\ event.type = "payment_failed" => row.sub = event.sub

\* What the latest effect left in the row: an answer to a caller may come
\* before the event of its change.
LastTook ==
  IF trace.effects[trace.last] = 0 THEN events[trace.last].type = "upsert"
  ELSE Complete(trace.last) => RowIs(trace.last)

InOrder ==
  /\ \A h \in Handler :
       pc[h] = "apply" /\ events[at[h]].type = "checkout" /\ at[h] = Len(events)
       => held[h] = events[at[h]].state
  /\ trace.ordered =>
       /\ \A e \in Event : trace.effects[e] > 0 => e <= trace.last
       /\ trace.last > 0 => LastTook

--------------------------------------------------------------------------
(* Helpers *)

LEMMA EventNat ==
  ASSUME Shape
  PROVE  Event \subseteq Nat /\ Len(events) \in Nat /\ Latest \in Nat
BY LenProperties DEF Shape, Event, Latest

LEMMA NothingType == Nothing \in State \union {Nothing} /\ Free("active") \in Row /\ Free("canceled") \in Row
BY DEF Free, Row, Status

\* What an answer leaves of the process that gives it.
LEMMA AnswerFacts ==
  ASSUME LocalsOK, NEW h \in Process, NEW ok, Answer(h, ok)
  PROVE  /\ pc' \in [Process -> Step] /\ pc'[h] = "idle" /\ \A p \in Process : p # h => pc'[p] = pc[p]
         /\ at' \in [Process -> Event \union {0}] /\ at'[h] = 0 /\ \A p \in Process : p # h => at'[p] = at[p]
         /\ held' \in [Process -> State \union {Nothing}] /\ \A p \in Process : p # h => held'[p] = held[p]
<1> HIDE DEF Nothing
<1> QED
  BY DEF LocalsOK, Answer, Goto, Step

LEMMA GotoFacts ==
  ASSUME LocalsOK, NEW h \in Process, NEW s \in Step, Goto(h, s)
  PROVE  pc' \in [Process -> Step] /\ pc'[h] = s /\ \A p \in Process : p # h => pc'[p] = pc[p]
BY DEF LocalsOK, Goto

LEMMA MissedFacts ==
  ASSUME trace \in Trace, NEW e \in Nat, trace' = [trace EXCEPT !.missed = @ \union {e}]
  PROVE  /\ trace' \in Trace /\ trace'.missed = trace.missed \union {e}
         /\ trace'.effects = trace.effects /\ trace'.last = trace.last /\ trace'.ordered = trace.ordered
<1> DEFINE missed == trace.missed \union {e}
<1>1. missed \in SUBSET Nat /\ trace' = [trace EXCEPT !.missed = missed]
  BY DEF Trace
<1> HIDE DEF missed
<1>2. /\ trace' \in Trace /\ trace'.missed = missed
      /\ trace'.effects = trace.effects /\ trace'.last = trace.last /\ trace'.ordered = trace.ordered
  BY <1>1, Zenon DEF Trace
<1> QED
  BY <1>2 DEF missed

LEMMA NoteFacts ==
  ASSUME trace \in Trace, NEW e \in Nat, NEW effects \in Seq(Nat), Note(e, effects)
  PROVE  /\ trace' \in Trace /\ trace'.effects = effects /\ trace'.missed = trace.missed
         /\ trace'.last = e /\ (trace'.ordered <=> (trace.ordered /\ e >= trace.last))
<1> DEFINE inOrder == e >= trace.last
<1>1. inOrder \in BOOLEAN /\ trace' = [trace EXCEPT !.effects = effects, !.last = e, !.ordered = @ /\ inOrder]
  BY DEF Note
<1> HIDE DEF inOrder
<1>2. /\ trace' \in Trace /\ trace'.effects = effects /\ trace'.missed = trace.missed
      /\ trace'.last = e /\ (trace'.ordered <=> (trace.ordered /\ inOrder))
  BY <1>1, Zenon DEF Trace
<1> QED
  BY <1>2 DEF inOrder

\* One effect more.
LEMMA EffectFacts ==
  ASSUME TraceOK, events \in Seq(EventRow), NEW e \in Event
  PROVE  LET effects == [trace.effects EXCEPT ![e] = @ + 1] IN
         /\ effects \in Seq(Nat) /\ Len(effects) = Len(events)
         /\ \A f \in Event : effects[f] = IF f = e THEN trace.effects[f] + 1 ELSE trace.effects[f]
<1>1. trace.effects \in Seq(Nat) /\ e \in 1 .. Len(trace.effects)
  BY DEF TraceOK, Trace, Event
<1>2. trace.effects[e] + 1 \in Nat
  BY <1>1, ElementOfSeq
<1> QED
  BY <1>1, <1>2, ExceptSeq DEF TraceOK, Event

LEMMA FunctionIsSeq ==
  ASSUME NEW S, NEW n \in Nat, NEW f \in [1 .. n -> S]
  PROVE  f \in Seq(S) /\ Len(f) = n
<1>1. f \in Seq(S)
  BY SeqDef
<1> QED
  BY <1>1, LenProperties

\* Appending a sequence, element by element.
LEMMA Appended ==
  ASSUME NEW S, NEW s \in Seq(S), NEW t \in Seq(S)
  PROVE  /\ s \o t \in Seq(S) /\ Len(s \o t) = Len(s) + Len(t)
         /\ \A i \in 1 .. Len(s) : (s \o t)[i] = s[i]
         /\ \A i \in 1 .. Len(t) : (s \o t)[Len(s) + i] = t[i]
<1>1. Len(s) \in Nat /\ Len(t) \in Nat
  BY LenProperties
<1>2. \A i \in 1 .. Len(s) : i \in 1 .. Len(s) + Len(t) /\ i <= Len(s)
  BY <1>1
<1>3. \A i \in 1 .. Len(t) : /\ Len(s) + i \in 1 .. Len(s) + Len(t)
                             /\ ~ (Len(s) + i <= Len(s)) /\ (Len(s) + i) - Len(s) = i
  BY <1>1
<1>4. /\ s \o t \in Seq(S) /\ Len(s \o t) = Len(s) + Len(t)
      /\ \A i \in 1 .. Len(s) + Len(t) :
           (s \o t)[i] = IF i <= Len(s) THEN s[i] ELSE t[i - Len(s)]
  BY ConcatProperties
<1>5. ASSUME NEW i \in 1 .. Len(t)
      PROVE  (s \o t)[Len(s) + i] = t[i]
  <2> DEFINE j == Len(s) + i
  <2>1. j \in 1 .. Len(s) + Len(t) /\ ~ (j <= Len(s)) /\ j - Len(s) = i
    BY <1>3
  <2> HIDE DEF j
  <2>2. (s \o t)[j] = t[j - Len(s)]
    BY <1>4, <2>1, Zenon
  <2> QED
    BY <2>1, <2>2 DEF j
<1>6. \A i \in 1 .. Len(s) : (s \o t)[i] = s[i]
  BY <1>2, <1>4, Zenon
<1> QED
  BY <1>4, <1>5, <1>6

\* What Emit appends to the events and to the history.
LEMMA EmitFacts ==
  ASSUME Shape, NEW n \in Nat, NEW state \in State, NEW types \in Seq(Type), Emit(n, state, types)
  PROVE  /\ events' \in Seq(EventRow) /\ Len(events') = Len(events) + Len(types)
         /\ \A e \in Event : events'[e] = events[e]
         /\ \A i \in 1 .. Len(types) :
              events'[Len(events) + i] = [type |-> types[i], sub |-> n, state |-> state]
         /\ TraceOK' /\ trace'.missed = trace.missed
         /\ trace'.last = trace.last /\ trace'.ordered = trace.ordered
         /\ \A e \in Event : trace'.effects[e] = trace.effects[e]
         /\ \A i \in 1 .. Len(types) : trace'.effects[Len(events) + i] = 0
         /\ Event \subseteq Event'
<1> DEFINE more == [i \in 1 .. Len(types) |-> [type |-> types[i], sub |-> n, state |-> state]]
           zeros == [i \in 1 .. Len(types) |-> 0]
<1>1. Len(types) \in Nat /\ \A i \in 1 .. Len(types) : types[i] \in Type
  BY LenProperties, ElementOfSeq
<1>2. more \in Seq(EventRow) /\ Len(more) = Len(types)
      /\ \A i \in 1 .. Len(types) : more[i] = [type |-> types[i], sub |-> n, state |-> state]
  <2>1. \A i \in 1 .. Len(types) : [type |-> types[i], sub |-> n, state |-> state] \in EventRow
    BY <1>1 DEF EventRow
  <2>2. more \in [1 .. Len(types) -> EventRow]
    BY <2>1
  <2> QED
    <3>1. \A i \in 1 .. Len(types) : more[i] = [type |-> types[i], sub |-> n, state |-> state]
      OBVIOUS
    <3> HIDE DEF more
    <3>2. more \in Seq(EventRow) /\ Len(more) = Len(types)
      BY <1>1, <2>2, FunctionIsSeq
    <3> QED
      BY <3>1, <3>2
<1>3. zeros \in Seq(Nat) /\ Len(zeros) = Len(types) /\ \A i \in 1 .. Len(types) : zeros[i] = 0
  <2>1. zeros \in [1 .. Len(types) -> Nat]
    OBVIOUS
  <2> QED
    BY <1>1, <2>1, FunctionIsSeq
<1>4. events' = events \o more /\ trace' = [trace EXCEPT !.effects = @ \o zeros]
  BY DEF Emit
<1> HIDE DEF more, zeros
<1>5. events \in Seq(EventRow) /\ trace \in Trace /\ trace.effects \in Seq(Nat)
      /\ Len(events) \in Nat /\ Len(trace.effects) = Len(events)
  BY LenProperties DEF Shape, TraceOK, Trace
<1>6. /\ events' \in Seq(EventRow) /\ Len(events') = Len(events) + Len(types)
      /\ \A i \in 1 .. Len(events) : events'[i] = events[i]
      /\ \A i \in 1 .. Len(types) : events'[Len(events) + i] = more[i]
  <2>1. /\ events \o more \in Seq(EventRow) /\ Len(events \o more) = Len(events) + Len(more)
        /\ \A i \in 1 .. Len(events) : (events \o more)[i] = events[i]
        /\ \A i \in 1 .. Len(more) : (events \o more)[Len(events) + i] = more[i]
    <3>1. events \in Seq(EventRow) /\ more \in Seq(EventRow)
      BY <1>2, <1>5
    <3> QED
      BY ONLY <3>1, Appended
  <2> QED
    BY <1>2, <1>4, <2>1, Zenon
<1> DEFINE effects == trace.effects \o zeros
<1>7. /\ effects \in Seq(Nat) /\ Len(effects) = Len(events) + Len(types)
      /\ \A i \in 1 .. Len(events) : effects[i] = trace.effects[i]
      /\ \A i \in 1 .. Len(types) : effects[Len(events) + i] = zeros[i]
  <2>1. /\ effects \in Seq(Nat) /\ Len(effects) = Len(trace.effects) + Len(zeros)
        /\ \A i \in 1 .. Len(trace.effects) : effects[i] = trace.effects[i]
        /\ \A i \in 1 .. Len(zeros) : effects[Len(trace.effects) + i] = zeros[i]
    <3>1. trace.effects \in Seq(Nat) /\ zeros \in Seq(Nat)
      BY <1>3, <1>5
    <3> QED
      BY ONLY <3>1, Appended
  <2> HIDE DEF effects
  <2> QED
    BY <1>3, <1>5, <2>1, Zenon
<1>8. trace' = [trace EXCEPT !.effects = effects]
  BY <1>4
<1> HIDE DEF effects
<1>9. /\ trace' \in Trace /\ trace'.effects = effects /\ trace'.missed = trace.missed
      /\ trace'.last = trace.last /\ trace'.ordered = trace.ordered
  BY <1>5, <1>7, <1>8, Zenon DEF Trace
<1>10. Event \subseteq Event'
  BY <1>1, <1>5, <1>6 DEF Event
<1>11. TraceOK'
  <2>1. trace.last \in Nat /\ trace.last <= Len(events) /\ trace.missed \subseteq Event
    BY DEF Shape, TraceOK, Trace
  <2> QED
    BY <1>1, <1>5, <1>6, <1>7, <1>9, <1>10, <2>1 DEF TraceOK
<1> QED
  BY <1>2, <1>3, <1>6, <1>7, <1>9, <1>10, <1>11 DEF Event

\* The parts that do not speak of Stripe survive new events.
LEMMA EmitKeeps ==
  ASSUME Shape, StripeOK, TakenOnce, Accounted, InOrder,
         NEW n \in Nat, NEW state \in State, NEW types \in Seq(Type), Emit(n, state, types),
         types # << >>, UNCHANGED <<acked, keys, stored, processed, row>>,
         stripe' \in Seq(State), Len(stripe') >= Len(stripe),
         LocalsOK', \A h \in Handler : pc'[h] = pc[h] /\ at'[h] = at[h] /\ held'[h] = held[h],
         \A c \in Caller : CallerOK(c)'
  PROVE  Shape' /\ TakenOnce' /\ Accounted' /\ InOrder'
<1>1. /\ events' \in Seq(EventRow) /\ Len(events') = Len(events) + Len(types)
      /\ \A e \in Event : events'[e] = events[e]
      /\ TraceOK' /\ trace'.missed = trace.missed
      /\ trace'.last = trace.last /\ trace'.ordered = trace.ordered
      /\ \A e \in Event : trace'.effects[e] = trace.effects[e]
      /\ \A i \in 1 .. Len(types) : trace'.effects[Len(events) + i] = 0
      /\ Event \subseteq Event'
  BY EmitFacts
<1>2. Len(events) \in Nat /\ Len(types) \in Nat \ {0} /\ Latest \in Nat
  BY EventNat, EmptySeq
<1>3. Shape'
  <2>1. StoresOK'
    <3>1. row.sub \in Nat /\ Latest' \in Nat
      BY LenProperties DEF Shape, StoresOK, Row, Latest
    <3> QED
      BY <1>1, <1>2, <3>1 DEF Shape, StoresOK, Latest
  <2>2. \A h \in Handler : HandlerOK(h)'
    BY DEF Shape, HandlerOK
  <2> QED
    BY <1>1, <2>1, <2>2 DEF Shape
<1>4. ASSUME NEW e \in Event', e \notin Event
      PROVE  trace'.effects[e] = 0
  <2>1. e - Len(events) \in 1 .. Len(types) /\ e = Len(events) + (e - Len(events))
    BY <1>1, <1>2, <1>4 DEF Event
  <2> QED
    BY <1>1, <2>1
<1>5. \A h \in Handler : pc[h] # "idle" => at[h] \in Event
  BY DEF Shape, HandlerOK, LocalsOK, Process
<1>6. TakenOnce'
  <2>1. \A h \in Handler : Taking(h)' <=> Taking(h)
    BY DEF Taking
  <2>2. \A h \in Handler : Taking(h) => at[h] \in stored /\ trace'.effects[at[h]] = 0
    BY <1>1, <1>5 DEF TakenOnce, Taking
  <2>3. \A e \in Event' : trace'.effects[e] <= 1 /\ (trace'.effects[e] > 0 => e \in stored)
    <3>1. ASSUME NEW e \in Event', e \notin Event
          PROVE  trace'.effects[e] <= 1 /\ ~ (trace'.effects[e] > 0)
      BY <1>4, <3>1
    <3> QED
      BY <1>1, <3>1 DEF TakenOnce
  <2> QED
    BY <2>1, <2>2, <2>3 DEF TakenOnce
<1>7. Accounted'
  <2>1. \A e : (Handled(e)' <=> Handled(e)) /\ (Owned(e)' <=> Owned(e))
    BY DEF Handled, Owned
  <2> QED
    BY <1>1, <2>1 DEF Accounted
<1>8. InOrder'
  <2>1. ASSUME NEW h \in Handler, pc[h] = "apply"
        PROVE  at[h] # Len(events')
    <3>1. at[h] \in 1 .. Len(events)
      BY <1>5, <2>1 DEF Event
    <3> QED
      BY <1>1, <1>2, <3>1
  <2>2. ASSUME trace.ordered
        PROVE  \A e \in Event' : trace'.effects[e] > 0 => e <= trace'.last
    <3>1. ASSUME NEW e \in Event', trace'.effects[e] > 0
          PROVE  e \in Event
      BY <1>4, <3>1
    <3> QED
      BY <1>1, <2>2, <3>1 DEF InOrder
  <2>3. ASSUME trace.ordered, trace.last > 0
        PROVE  LastTook'
    <3> DEFINE e == trace.last
    <3>1. e \in Event /\ e # Len(events')
      BY <1>1, <1>2, <2>3 DEF Shape, TraceOK, Trace, Event
    <3>2. Complete(e)' => Complete(e)
      <4>1. \A f \in 1 .. e : f \in Event
        BY <1>2, <3>1 DEF Event
      <4> QED
        BY <1>1, <4>1 DEF Complete
    <3>3. RowIs(e) => RowIs(e)'
      <4>1. e' = e /\ events'[e] = events[e] /\ row' = row
        BY <1>1, <3>1
      <4>2. (e = Len(events')) => (e = Len(events))
        BY <3>1
      <4> QED
        BY <4>1, <4>2 DEF RowIs
    <3> QED
      BY <1>1, <2>3, <3>1, <3>2, <3>3 DEF InOrder, LastTook
  <2> QED
    BY <1>1, <2>1, <2>2, <2>3 DEF InOrder
<1> QED
  BY <1>3, <1>6, <1>7, <1>8
--------------------------------------------------------------------------
(* Stripe *)

SIInv == Shape /\ StripeOK /\ TakenOnce /\ Accounted /\ InOrder

LEMMA OneType ==
  ASSUME NEW t \in Type
  PROVE  <<t>> \in Seq(Type) /\ <<t>> # << >> /\ Len(<<t>>) = 1 /\ <<t>>[1] = t
OBVIOUS

\* Subscribing: a new subscription, whose first event follows nothing.
LEMMA SubscribeKeeps ==
  ASSUME SIInv, Subscribe
  PROVE  SIInv'
<1>1. PICK p \in Plan, metadata \in Plan \union {"none"}, type \in {"checkout", "upsert"} :
        Begin(p, metadata, type)
  BY DEF Subscribe
<1> DEFINE state == [price |-> p, metadata |-> metadata, status |-> "active", ending |-> FALSE]
           types == <<type>>
<1>2. state \in State /\ state.status = "active"
  BY DEF State, Status
<1>3. stripe' = Append(stripe, state) /\ Emit(Latest + 1, state, types)
  BY <1>1 DEF Begin
<1>4. /\ Latest \in Nat /\ Latest + 1 \in Nat /\ Len(events) \in Nat
      /\ types \in Seq(Type) /\ types # << >> /\ Len(types) = 1 /\ types[1] = type
  BY EventNat, OneType DEF SIInv, Type
<1> HIDE DEF state, types
<1>5. /\ stripe' \in Seq(State) /\ Len(stripe') = Latest + 1 /\ Latest' = Latest + 1
      /\ \A n \in 1 .. Latest : stripe'[n] = stripe[n]
      /\ stripe'[Latest + 1] = state
  BY <1>2, <1>3, <1>4, AppendProperties DEF SIInv, Shape, Latest
<1>6. /\ Len(events') = Len(events) + 1 /\ Event \subseteq Event'
      /\ \A e \in Event : events'[e] = events[e]
      /\ events'[Len(events) + 1] = [type |-> type, sub |-> Latest + 1, state |-> state]
  <2>1. /\ Len(events') = Len(events) + Len(types) /\ Event \subseteq Event'
        /\ \A e \in Event : events'[e] = events[e]
        /\ \A i \in 1 .. Len(types) :
             events'[Len(events) + i] = [type |-> types[i], sub |-> Latest + 1, state |-> state]
    BY <1>2, <1>3, <1>4, EmitFacts DEF SIInv
  <2> QED
    BY <1>4, <2>1
<1>7. Shape' /\ TakenOnce' /\ Accounted' /\ InOrder'
  <2>1. UNCHANGED <<acked, keys, stored, processed, row, pc, at, held>>
    BY DEF Subscribe, db, locals
  <2>2. ASSUME NEW c \in Caller PROVE CallerOK(c)'
    BY <1>6, <2>1 DEF SIInv, Shape, CallerOK
  <2>3. LocalsOK'
    BY <1>6, <2>1 DEF SIInv, Shape, LocalsOK
  <2> QED
    <3>1. Len(stripe') >= Len(stripe)
      BY <1>4, <1>5 DEF Latest
    <3> QED
      BY <1>2, <1>3, <1>4, <1>5, <2>1, <2>2, <2>3, <3>1, EmitKeeps DEF SIInv
<1>8. StripeOK'
  <2>1. \A n \in 1 .. Latest' : n < Latest' => stripe'[n].status = "canceled"
    <3>1. \A n \in 1 .. Latest : stripe[n].status = "canceled"
      BY <1>4 DEF SIInv, StripeOK, Subscribe, Open
    <3> QED
      BY <1>4, <1>5, <3>1
  <2>2. Latest' > 0 /\ Len(events') > 0
    BY <1>4, <1>5, <1>6
  <2>3. ASSUME NEW e \in Event PROVE EventOK(e)'
    <3>1. EventOK(e)
      BY DEF SIInv, StripeOK
    <3>2. events[e].sub \in 1 .. Latest'
      BY <1>4, <1>5, <3>1 DEF EventOK
    <3> QED
      BY <1>6, <3>1, <3>2 DEF EventOK
  <2>4. ASSUME NEW e, e = Len(events) + 1 PROVE EventOK(e)'
    <3>1. Latest + 1 \in 1 .. Latest'
      BY <1>4, <1>5
    <3>2. events'[e] = [type |-> type, sub |-> Latest + 1, state |-> state]
      BY <1>6, <2>4
    <3>3. /\ events'[e].sub \in 1 .. Latest' /\ events'[e].type \in {"checkout", "upsert"}
          /\ events'[e].state.status = "active"
      BY <1>2, <3>1, <3>2
    <3> QED
      BY <3>3 DEF EventOK
  <2>5. \A e \in Event' : e \in Event \/ e = Len(events) + 1
    BY <1>4, <1>6 DEF Event
  <2>6. LastOK'
    BY <1>4, <1>5, <1>6 DEF LastOK
  <2> QED
    BY <2>1, <2>2, <2>3, <2>4, <2>5, <2>6 DEF StripeOK
<1> QED
  BY <1>7, <1>8 DEF SIInv

\* The types of a change's events: none is a checkout, a deletion is alone
\* and is what ends the subscription, a failed payment is not the last.
Types(types, state) ==
  /\ types \in Seq(Type) /\ types # << >>
  /\ \A i \in 1 .. Len(types) :
       /\ types[i] # "checkout" /\ (types[i] = "deleted" <=> state.status = "canceled")
       /\ i < Len(types) => types[i] # "deleted"
  /\ types[Len(types)] # "payment_failed"

\* Changing the open subscription.
LEMMA AlterKeeps ==
  ASSUME SIInv, Open, NEW state \in State, NEW types, Types(types, state), Alter(Latest, state, types),
         UNCHANGED <<acked, db>>, LocalsOK',
         \A h \in Handler : pc'[h] = pc[h] /\ at'[h] = at[h] /\ held'[h] = held[h],
         \A c \in Caller : CallerOK(c)'
  PROVE  SIInv'
<1>1. /\ Latest \in Nat \ {0} /\ Len(events) \in Nat /\ types \in Seq(Type) /\ types # << >>
      /\ Len(types) \in Nat \ {0}
  BY EventNat, EmptySeq DEF SIInv, Open, Types
<1>2. stripe' = [stripe EXCEPT ![Latest] = state] /\ Emit(Latest, state, types)
  BY DEF Alter
<1>3. /\ stripe' \in Seq(State) /\ Len(stripe') = Len(stripe) /\ Latest' = Latest
      /\ \A n \in 1 .. Latest : n # Latest => stripe'[n] = stripe[n]
      /\ stripe'[Latest] = state
  BY <1>1, <1>2, ExceptSeq DEF SIInv, Shape, Latest
<1>4. /\ Len(events') = Len(events) + Len(types) /\ Event \subseteq Event'
      /\ \A e \in Event : events'[e] = events[e]
      /\ \A i \in 1 .. Len(types) :
           events'[Len(events) + i] = [type |-> types[i], sub |-> Latest, state |-> state]
  BY <1>1, <1>2, EmitFacts DEF SIInv
<1>5. Shape' /\ TakenOnce' /\ Accounted' /\ InOrder'
  <2>1. Len(stripe') >= Len(stripe)
    BY <1>1, <1>3 DEF Latest
  <2>2. UNCHANGED <<acked, keys, stored, processed, row>>
    BY DEF db
  <2> QED
    BY <1>1, <1>2, <1>3, <2>1, <2>2, EmitKeeps DEF SIInv
<1>6. StripeOK'
  <2>1. \A n \in 1 .. Latest' : n < Latest' => stripe'[n].status = "canceled"
    BY <1>1, <1>3 DEF SIInv, StripeOK
  <2>2. Latest' > 0 /\ Len(events') > 0
    BY <1>1, <1>3, <1>4
  <2>3. ASSUME NEW e \in Event PROVE EventOK(e)'
    <3>1. EventOK(e)
      BY DEF SIInv, StripeOK
    <3> QED
      BY <1>3, <1>4, <3>1 DEF EventOK
  <2>4. /\ Len(events) > 0 /\ Len(events) \in Event
        /\ events[Len(events)].sub = Latest /\ events[Len(events)].type # "deleted"
    <3>1. Len(events) > 0 /\ Len(events) \in Event
      BY <1>1 DEF SIInv, StripeOK, Event
    <3>2. EventOK(Len(events)) /\ LastOK
      BY <3>1 DEF SIInv, StripeOK
    <3> QED
      BY <3>1, <3>2 DEF EventOK, LastOK, Open
  <2>5. ASSUME NEW i \in 1 .. Len(types), NEW e, e = Len(events) + i PROVE EventOK(e)'
    <3>1. events'[e] = [type |-> types[i], sub |-> Latest, state |-> state]
      BY <1>4, <2>5
    <3>2. Latest \in 1 .. Latest' /\ (types[i] = "deleted" <=> state.status = "canceled")
      BY <1>1, <1>3 DEF Types
    <3>3. e - 1 \in Event' /\ events'[e - 1].sub = Latest /\ events'[e - 1].type # "deleted"
      <4>1. CASE i = 1
        <5>1. e - 1 = Len(events)
          BY <1>1, <2>5, <4>1
        <5> QED
          BY <1>4, <2>4, <5>1
      <4>2. CASE i # 1
        <5> DEFINE j == i - 1
        <5>1. j \in 1 .. Len(types) /\ j < Len(types) /\ e - 1 = Len(events) + j
          BY <1>1, <2>5, <4>2
        <5>2. e - 1 \in Event'
          BY <1>1, <1>4, <5>1 DEF Event
        <5> HIDE DEF j
        <5>3. events'[e - 1] = [type |-> types[j], sub |-> Latest, state |-> state]
              /\ types[j] # "deleted"
          BY <1>4, <5>1 DEF Types
        <5> QED
          BY <5>2, <5>3
      <4> QED
        BY <4>1, <4>2
    <3> QED
      BY <3>1, <3>2, <3>3 DEF EventOK
  <2>6. ASSUME NEW e \in Event', e \notin Event
        PROVE  \E i \in 1 .. Len(types) : e = Len(events) + i
    <3>1. e - Len(events) \in 1 .. Len(types) /\ e = Len(events) + (e - Len(events))
      BY <1>1, <1>4, <2>6 DEF Event
    <3> QED
      BY <3>1
  <2>7. LastOK'
    <3>1. Len(types) \in 1 .. Len(types) /\ types[Len(types)] # "payment_failed"
      BY <1>1 DEF Types
    <3>2. events'[Len(events')] = [type |-> types[Len(types)], sub |-> Latest, state |-> state]
      BY <1>4, <3>1
    <3>3. /\ events'[Len(events')].sub = Latest' /\ events'[Len(events')].state = stripe'[Latest']
          /\ events'[Len(events')].type # "payment_failed"
      BY <1>3, <3>1, <3>2
    <3> QED
      BY <3>3 DEF LastOK
  <2> QED
    BY <2>1, <2>2, <2>3, <2>5, <2>6, <2>7 DEF StripeOK
<1> QED
  BY <1>5, <1>6 DEF SIInv

LEMMA NewState ==
  ASSUME SIInv, Open
  PROVE  /\ stripe[Latest] \in State /\ stripe[Latest].status # "canceled"
         /\ \A p \in Plan : [stripe[Latest] EXCEPT !.price = p] \in State
                              /\ [stripe[Latest] EXCEPT !.price = p].status # "canceled"
         /\ \A p \in Plan : [stripe[Latest] EXCEPT !.price = p, !.metadata = p] \in State
                              /\ [stripe[Latest] EXCEPT !.price = p, !.metadata = p].status # "canceled"
         /\ \A s \in Status : [stripe[Latest] EXCEPT !.status = s] \in State
                                /\ [stripe[Latest] EXCEPT !.status = s].status = s
         /\ \A b \in BOOLEAN : [stripe[Latest] EXCEPT !.ending = b] \in State
                                 /\ [stripe[Latest] EXCEPT !.ending = b].status # "canceled"
<1>1. stripe[Latest] \in State
  BY EventNat, ElementOfSeq DEF SIInv, Shape, Open, Latest
<1> DEFINE now == stripe[Latest]
<1>2. now.status # "canceled" /\ now \in State
  BY <1>1 DEF Open
<1> HIDE DEF now
<1>3. \A p \in Plan : [now EXCEPT !.price = p] \in State /\ [now EXCEPT !.price = p].status # "canceled"
  BY <1>2, Zenon DEF State
<1>4. \A p \in Plan : /\ [now EXCEPT !.price = p, !.metadata = p] \in State
                      /\ [now EXCEPT !.price = p, !.metadata = p].status # "canceled"
  <2>1. \A p \in Plan : p \in Plan \union {"none"}
    OBVIOUS
  <2> QED
    BY <1>2, <2>1, Zenon DEF State
<1>5. \A s \in Status : [now EXCEPT !.status = s] \in State /\ [now EXCEPT !.status = s].status = s
  BY <1>2, Zenon DEF State
<1>6. \A b \in BOOLEAN : [now EXCEPT !.ending = b] \in State /\ [now EXCEPT !.ending = b].status # "canceled"
  BY <1>2, Zenon DEF State
<1> QED
  BY <1>2, <1>3, <1>4, <1>5, <1>6 DEF now

LEMMA TypesFacts ==
  ASSUME NEW state, state.status # "canceled"
  PROVE  Types(<<"upsert">>, state) /\ Types(<<"payment_failed", "upsert">>, state)
<1>1. <<"upsert">> \in Seq(Type) /\ <<"payment_failed", "upsert">> \in Seq(Type)
  BY DEF Type
<1> QED
  BY <1>1 DEF Types

LEMMA TypesDeleted ==
  ASSUME NEW state, state.status = "canceled"
  PROVE  Types(<<"deleted">>, state)
<1>1. <<"deleted">> \in Seq(Type)
  BY DEF Type
<1> QED
  BY <1>1 DEF Types

\* A change made at Stripe itself.
LEMMA ChangeKeeps ==
  ASSUME SIInv, StripeChanges \/ PaymentFails \/ SubscriptionEnds
  PROVE  SIInv'
<1>1. Open /\ UNCHANGED <<acked, db, locals>>
  BY DEF StripeChanges, PaymentFails, SubscriptionEnds
<1> DEFINE Change(state, types) == state \in State /\ Types(types, state) /\ Alter(Latest, state, types)
<1>2. ASSUME NEW state, NEW types, Change(state, types)
      PROVE  SIInv'
  <2>1. UNCHANGED <<acked, db, pc, at, held>>
    BY <1>1 DEF locals
  <2>2. Event \subseteq Event' /\ \A e \in Event : events'[e] = events[e]
    BY <1>2, EventNat, EmitFacts DEF Alter, SIInv, Types
  <2>3. LocalsOK' /\ \A c \in Caller : CallerOK(c)'
    BY <2>1, <2>2 DEF SIInv, Shape, LocalsOK, CallerOK
  <2> QED
    BY <1>1, <1>2, <2>1, <2>3, AlterKeeps
<1>3. \E state, types : Change(state, types)
  <2>1. CASE StripeChanges
    <3>1. CASE \E p \in Plan : Alter(Latest, [stripe[Latest] EXCEPT !.price = p], <<"upsert">>)
      BY <1>1, <3>1, NewState, TypesFacts
    <3>2. CASE Alter(Latest, [stripe[Latest] EXCEPT !.status = "active"], <<"upsert">>)
      <4>1. "active" \in Status /\ "active" # "canceled"
        BY DEF Status
      <4> QED
        BY <1>1, <3>2, <4>1, NewState, TypesFacts
    <3> QED
      BY <2>1, <3>1, <3>2 DEF StripeChanges
  <2>2. CASE PaymentFails
    <3>1. "past_due" \in Status /\ "past_due" # "canceled"
      BY DEF Status
    <3> QED
      BY <1>1, <2>2, <3>1, NewState, TypesFacts DEF PaymentFails
  <2>3. CASE SubscriptionEnds
    <3>1. "canceled" \in Status
      BY DEF Status
    <3> QED
      BY <1>1, <2>3, <3>1, NewState, TypesDeleted DEF SubscriptionEnds
  <2> QED
    BY <2>1, <2>2, <2>3
<1> QED
  BY <1>2, <1>3

\* A change made by a caller: its own event is the one Stripe emits.
LEMMA CallKeeps ==
  ASSUME SIInv, NEW c \in Caller, ChangeSubscription(c)
  PROVE  SIInv'
<1>1. row.sub = Latest /\ Open
  <2>1. row.sub \in Nat \ {0} /\ row.sub <= Latest /\ stripe[row.sub].status # "canceled"
    BY DEF ChangeSubscription, SIInv, Shape, StoresOK, Row
  <2>2. ~ (row.sub < Latest)
    BY <2>1, EventNat DEF SIInv, StripeOK
  <2>3. row.sub = Latest /\ Latest > 0
    BY <2>1, <2>2, EventNat DEF SIInv
  <2> QED
    BY <2>1, <2>3 DEF Open
<1> DEFINE Called(state, next) ==
             Call(c, state, next) /\ state \in State /\ state.status # "canceled"
<1>2. PICK state, next : Called(state, next) /\ next \in {"write.plan", "write.flag"}
  <2>1. ASSUME NEW p \in Plan, Call(c, [stripe[Latest] EXCEPT !.price = p, !.metadata = p], "write.plan")
        PROVE  Called([stripe[Latest] EXCEPT !.price = p, !.metadata = p], "write.plan")
    BY <1>1, <2>1, NewState
  <2>2. ASSUME NEW b \in BOOLEAN, Call(c, [stripe[Latest] EXCEPT !.ending = b], "write.flag")
        PROVE  Called([stripe[Latest] EXCEPT !.ending = b], "write.flag")
    BY <1>1, <2>2, NewState
  <2> HIDE DEF Called
  <2>3. \/ \E p \in Plan : Call(c, [stripe[Latest] EXCEPT !.price = p, !.metadata = p], "write.plan")
        \/ Call(c, [stripe[Latest] EXCEPT !.ending = TRUE], "write.flag")
        \/ Call(c, [stripe[Latest] EXCEPT !.ending = FALSE], "write.flag")
    BY <1>1, Zenon DEF ChangeSubscription
  <2> QED
    BY <2>1, <2>2, <2>3, Zenon
<1>3. /\ Alter(Latest, state, <<"upsert">>) /\ at' = [at EXCEPT ![c] = Len(events) + 1]
      /\ held' = [held EXCEPT ![c] = state] /\ Goto(c, next) /\ UNCHANGED <<acked, db>>
  BY <1>1, <1>2 DEF Call
<1>4. "upsert" \in Type /\ <<"upsert">> \in Seq(Type) /\ Len(<<"upsert">>) = 1 /\ <<"upsert">>[1] = "upsert"
  BY OneType DEF Type
<1>5. /\ Len(events') = Len(events) + 1 /\ Event \subseteq Event'
      /\ \A e \in Event : events'[e] = events[e]
      /\ events'[Len(events) + 1] = [type |-> "upsert", sub |-> Latest, state |-> state]
  <2> DEFINE types == <<"upsert">>
  <2>1. types \in Seq(Type) /\ Len(types) = 1 /\ types[1] = "upsert"
    BY <1>4
  <2>2. Emit(Latest, state, types)
    BY <1>3 DEF Alter
  <2> HIDE DEF types
  <2>3. /\ Len(events') = Len(events) + Len(types) /\ Event \subseteq Event'
        /\ \A e \in Event : events'[e] = events[e]
        /\ \A i \in 1 .. Len(types) :
             events'[Len(events) + i] = [type |-> types[i], sub |-> Latest, state |-> state]
    BY <1>2, <2>1, <2>2, EmitFacts, EventNat DEF SIInv
  <2> QED
    BY <2>1, <2>3
<1>6. Len(events) \in Nat /\ Len(events) + 1 \in Event'
  BY <1>5, EventNat DEF SIInv, Event
<1>7. LocalsOK' /\ \A p \in Process : p # c => pc'[p] = pc[p] /\ at'[p] = at[p] /\ held'[p] = held[p]
  <2>1. LocalsOK /\ c \in Process /\ next \in Step
    BY <1>2 DEF SIInv, Shape, Process, Step
  <2> HIDE DEF Nothing
  <2>2. /\ pc' \in [Process -> Step] /\ \A p \in Process : p # c => pc'[p] = pc[p]
        /\ at' \in [Process -> Event' \union {0}] /\ \A p \in Process : p # c => at'[p] = at[p]
        /\ held' \in [Process -> State \union {Nothing}] /\ \A p \in Process : p # c => held'[p] = held[p]
    BY <1>2, <1>3, <1>5, <1>6, <2>1 DEF LocalsOK, Goto
  <2> QED
    BY <2>2 DEF LocalsOK
<1>8. \A h \in Handler : h \in Process /\ h # c
  BY StripeAssumption DEF Process
<1>9. ASSUME NEW d \in Caller PROVE CallerOK(d)'
  <2>1. CASE d = c
    <3>1. pc'[c] = next /\ at'[c] = Len(events) + 1 /\ held'[c] = state
      BY <1>3 DEF SIInv, Shape, LocalsOK, Goto, Process
    <3> QED
      BY <1>2, <1>5, <1>6, <2>1, <3>1 DEF CallerOK
  <2>2. CASE d # c
    <3>1. CallerOK(d) /\ d \in Process
      BY DEF SIInv, Shape, Process
    <3> QED
      BY <1>5, <1>7, <2>2, <3>1 DEF CallerOK
  <2> QED
    BY <2>1, <2>2
<1> QED
  BY <1>1, <1>2, <1>3, <1>7, <1>8, <1>9, TypesFacts, AlterKeeps

--------------------------------------------------------------------------
(* Handlers: what the steps have in common. *)

LEMMA Working ==
  ASSUME SIInv, NEW h \in Handler
  PROVE  /\ h \in Process /\ \A c \in Caller : c # h /\ c \in Process
         /\ LocalsOK /\ (pc[h] # "idle" => at[h] \in Event /\ at[h] \in Nat /\ at[h] > 0)
<1>1. \A e \in Event : e \in Nat /\ e > 0
  BY EventNat DEF SIInv, Event
<1> QED
  BY <1>1, StripeAssumption DEF SIInv, Shape, HandlerOK, LocalsOK, Process

LEMMA StripeKept ==
  ASSUME StripeOK, UNCHANGED <<stripe, events>>
  PROVE  StripeOK' /\ Event' = Event /\ Latest' = Latest
BY DEF StripeOK, Event, Latest, EventOK, LastOK

\* A handler that answers is idle; the others and the callers stand still.
LEMMA AnswerKeeps ==
  ASSUME SIInv, NEW h \in Handler, NEW ok, Answer(h, ok), UNCHANGED events
  PROVE  /\ LocalsOK' /\ (\A g \in Handler : HandlerOK(g)') /\ (\A c \in Caller : CallerOK(c)')
         /\ pc'[h] = "idle" /\ at'[h] = 0
         /\ \A g \in Handler : g # h => pc'[g] = pc[g] /\ at'[g] = at[g] /\ held'[g] = held[g]
<1>1. h \in Process /\ LocalsOK /\ \A c \in Caller : c # h /\ c \in Process
  BY Working
<1>2. /\ pc' \in [Process -> Step] /\ pc'[h] = "idle" /\ \A p \in Process : p # h => pc'[p] = pc[p]
      /\ at' \in [Process -> Event \union {0}] /\ at'[h] = 0 /\ \A p \in Process : p # h => at'[p] = at[p]
      /\ held' \in [Process -> State \union {Nothing}] /\ \A p \in Process : p # h => held'[p] = held[p]
  BY <1>1, AnswerFacts
<1>3. Event' = Event
  BY DEF Event
<1>4. \A g \in Handler : g # h => pc'[g] = pc[g] /\ at'[g] = at[g] /\ held'[g] = held[g]
  BY <1>2 DEF Process
<1>5. \A g \in Handler : HandlerOK(g)'
  BY <1>2, <1>4 DEF SIInv, Shape, HandlerOK, HandlerStep
<1>6. \A c \in Caller : CallerOK(c)'
  BY <1>1, <1>2, <1>3 DEF SIInv, Shape, CallerOK
<1> QED
  BY <1>2, <1>3, <1>4, <1>5, <1>6 DEF LocalsOK

\* A handler that goes on keeps its event.
LEMMA GotoKeeps ==
  ASSUME SIInv, NEW h \in Handler, NEW s \in HandlerStep \ {"idle"}, pc[h] # "idle", Goto(h, s),
         UNCHANGED <<events, at>>, held' \in [Process -> State \union {Nothing}],
         \A p \in Process : p # h => held'[p] = held[p]
  PROVE  /\ LocalsOK' /\ (\A g \in Handler : HandlerOK(g)') /\ (\A c \in Caller : CallerOK(c)')
         /\ pc'[h] = s /\ \A g \in Handler : g # h => pc'[g] = pc[g]
<1>1. h \in Process /\ LocalsOK /\ \A c \in Caller : c # h /\ c \in Process
  BY Working
<1>2. s \in Step
  BY DEF HandlerStep, Step
<1>3. pc' \in [Process -> Step] /\ pc'[h] = s /\ \A p \in Process : p # h => pc'[p] = pc[p]
  BY <1>1, <1>2, GotoFacts
<1>4. Event' = Event
  BY DEF Event
<1>5. \A g \in Handler : g # h => pc'[g] = pc[g]
  BY <1>3 DEF Process
<1>6. \A g \in Handler : HandlerOK(g)'
  BY <1>3, <1>5 DEF SIInv, Shape, HandlerOK, HandlerStep
<1>7. \A c \in Caller : CallerOK(c)'
  BY <1>1, <1>3, <1>4 DEF SIInv, Shape, CallerOK
<1> QED
  BY <1>1, <1>3, <1>4, <1>5, <1>6, <1>7 DEF LocalsOK

\* An attempt that failed leaves the event missed.
LEMMA MissedKeeps ==
  ASSUME SIInv, NEW e \in Event, trace' = [trace EXCEPT !.missed = @ \union {e}], UNCHANGED events
  PROVE  /\ TraceOK' /\ trace'.missed = trace.missed \union {e}
         /\ trace'.effects = trace.effects /\ trace'.last = trace.last /\ trace'.ordered = trace.ordered
<1>1. trace \in Trace /\ e \in Nat /\ Event' = Event
  BY EventNat DEF SIInv, Shape, TraceOK, Event
<1>2. /\ trace' \in Trace /\ trace'.missed = trace.missed \union {e}
      /\ trace'.effects = trace.effects /\ trace'.last = trace.last /\ trace'.ordered = trace.ordered
  BY <1>1, MissedFacts
<1> QED
  BY <1>1, <1>2 DEF SIInv, Shape, TraceOK

\* Nothing in the order of effects changes but what a handler holds.
LEMMA OrderKept ==
  ASSUME SIInv, UNCHANGED <<events, row>>, trace'.effects = trace.effects,
         trace'.last = trace.last, trace'.ordered = trace.ordered,
         \A h \in Handler : pc'[h] = "apply" /\ events[at'[h]].type = "checkout"
                              => pc[h] = "apply" /\ at'[h] = at[h] /\ held'[h] = held[h]
  PROVE  InOrder'
<1>1. Event' = Event /\ Len(events') = Len(events)
  BY DEF Event
<1>2. LastTook' <=> LastTook
  <2>1. (Complete(trace.last)' <=> Complete(trace.last)) /\ (RowIs(trace.last)' <=> RowIs(trace.last))
    BY <1>1 DEF Complete, RowIs
  <2> QED
    BY <2>1 DEF LastTook
<1>3. \A h \in Handler :
        pc'[h] = "apply" /\ events'[at'[h]].type = "checkout" /\ at'[h] = Len(events')
          => held'[h] = events'[at'[h]].state
  BY <1>1 DEF SIInv, InOrder
<1>4. trace'.ordered => \A e \in Event' : trace'.effects[e] > 0 => e <= trace'.last
  BY <1>1 DEF SIInv, InOrder
<1> QED
  BY <1>2, <1>3, <1>4 DEF SIInv, InOrder

\* No handler takes up an event, and no effect is added.
LEMMA TakenKept ==
  ASSUME SIInv, UNCHANGED <<events, stored>>, trace'.effects = trace.effects,
         \A g \in Handler : Taking(g)' => Taking(g) /\ at'[g] = at[g],
         \A g \in Handler : pc'[g] = "mark" => pc[g] = "mark" /\ at'[g] = at[g]
  PROVE  TakenOnce'
<1>1. Event' = Event
  BY DEF Event
<1>2. \A g \in Handler : Taking(g)' => at'[g] \in stored' /\ trace'.effects[at'[g]] = 0
  BY DEF SIInv, TakenOnce
<1>3. \A g, k \in Handler : g # k /\ Taking(g)' /\ Taking(k)' => at'[g] # at'[k]
  <2>1. \A g, k \in Handler : g # k /\ Taking(g) /\ Taking(k) => at[g] # at[k]
    BY DEF SIInv, TakenOnce
  <2> QED
    BY <2>1
<1>4. \A g \in Handler : pc'[g] = "mark" => at'[g] \in stored'
  BY DEF SIInv, TakenOnce
<1>5. \A e \in Event' : trace'.effects[e] <= 1 /\ (trace'.effects[e] > 0 => e \in stored')
  BY <1>1 DEF SIInv, TakenOnce
<1> QED
  BY <1>2, <1>3, <1>4, <1>5 DEF TakenOnce

--------------------------------------------------------------------------
(* Deliveries and handlers, step by step. *)

LEMMA RejectKeeps ==
  ASSUME SIInv, NEW e \in Event, RejectOld(e) \/ RejectSeen(e)
  PROVE  SIInv'
<1>1. /\ UNCHANGED <<stripe, events, keys, stored, processed, row, pc, at, held>>
      /\ acked' = acked \union {e}
  BY DEF RejectOld, RejectSeen, Outside, db, locals
<1>2. StripeOK' /\ Event' = Event /\ Latest' = Latest
  BY <1>1, StripeKept DEF SIInv
<1>3. /\ TraceOK' /\ trace.missed \subseteq trace'.missed
      /\ trace'.effects = trace.effects /\ trace'.last = trace.last /\ trace'.ordered = trace.ordered
      /\ e \in trace'.missed \/ e \in keys
  <2>1. CASE RejectOld(e)
    BY <1>1, <2>1, MissedKeeps DEF RejectOld
  <2>2. CASE RejectSeen(e)
    BY <1>1, <1>2, <2>2 DEF RejectSeen, SIInv, Shape, TraceOK
  <2> QED
    BY <2>1, <2>2
<1>4. Shape'
  <2>1. StoresOK' /\ LocalsOK'
    BY <1>1, <1>2 DEF SIInv, Shape, StoresOK, LocalsOK
  <2>2. \A h \in Handler : HandlerOK(h)'
    BY <1>1 DEF SIInv, Shape, HandlerOK
  <2>3. \A c \in Caller : CallerOK(c)'
    BY <1>1, <1>2 DEF SIInv, Shape, CallerOK
  <2> QED
    BY <1>1, <1>3, <2>1, <2>2, <2>3 DEF SIInv, Shape
<1>5. TakenOnce'
  BY <1>1, <1>2, <1>3 DEF SIInv, TakenOnce, Taking
<1>6. Accounted'
  <2>1. \A f : (Handled(f)' <=> Handled(f)) /\ (Owned(f)' <=> Owned(f))
    BY <1>1 DEF Handled, Owned
  <2> QED
    BY <1>1, <1>3, <2>1 DEF SIInv, Accounted
<1>7. InOrder'
  BY <1>1, <1>3, OrderKept
<1> QED
  BY <1>2, <1>4, <1>5, <1>6, <1>7 DEF SIInv

LEMMA ReceiveKeeps ==
  ASSUME SIInv, NEW h \in Handler, NEW e \in Event, Receive(h, e)
  PROVE  SIInv'
<1>1. /\ UNCHANGED <<stripe, events, acked, stored, processed, row, held, trace>>
      /\ pc[h] = "idle" /\ keys' = keys \union {e}
  BY DEF Receive, Outside
<1>2. StripeOK' /\ Event' = Event /\ Latest' = Latest
  BY <1>1, StripeKept DEF SIInv
<1>3. /\ h \in Process /\ (\A c \in Caller : c # h /\ c \in Process) /\ LocalsOK
      /\ \A f \in Event : f \in Nat /\ f > 0
  BY Working, EventNat DEF SIInv, Event
<1>4. /\ pc' \in [Process -> Step] /\ pc'[h] = "insert" /\ \A p \in Process : p # h => pc'[p] = pc[p]
      /\ at' \in [Process -> Event \union {0}] /\ at'[h] = e /\ \A p \in Process : p # h => at'[p] = at[p]
  BY <1>3 DEF Receive, Goto, LocalsOK, Step
<1>5. at[h] = 0
  BY <1>1 DEF SIInv, Shape, HandlerOK
<1>6. \A g \in Handler : g # h => pc'[g] = pc[g] /\ at'[g] = at[g]
  BY <1>4 DEF Process
<1>7. Shape'
  <2>1. StoresOK' /\ TraceOK' /\ LocalsOK'
    BY <1>1, <1>2, <1>3, <1>4 DEF SIInv, Shape, StoresOK, TraceOK, LocalsOK
  <2>2. \A g \in Handler : HandlerOK(g)'
    BY <1>3, <1>4, <1>6 DEF SIInv, Shape, HandlerOK, HandlerStep
  <2>3. \A c \in Caller : CallerOK(c)'
    BY <1>1, <1>2, <1>3, <1>4 DEF SIInv, Shape, CallerOK
  <2> QED
    BY <1>1, <2>1, <2>2, <2>3 DEF SIInv, Shape
<1>8. TakenOnce'
  <2>1. \A g \in Handler : Taking(g)' => Taking(g) /\ at'[g] = at[g]
    BY <1>4, <1>6 DEF Taking
  <2>2. \A g \in Handler : pc'[g] = "mark" => pc[g] = "mark" /\ at'[g] = at[g]
    BY <1>4, <1>6
  <2> QED
    BY <1>1, <2>1, <2>2, TakenKept
<1>9. Accounted'
  <2>1. \A f \in Event : (Handled(f) => Handled(f)') /\ (Owned(f) => Owned(f)')
    BY <1>1, <1>3, <1>5, <1>6 DEF Handled, Owned
  <2>2. Handled(e)'
    BY <1>4 DEF Handled
  <2>3. \A g \in Handler : pc'[g] = "release" => g # h
    BY <1>4
  <2> QED
    BY <1>1, <1>6, <2>1, <2>2, <2>3 DEF SIInv, Accounted, Shape, StoresOK
<1>10. InOrder'
  <2>1. \A g \in Handler : pc'[g] = "apply" => g # h
    BY <1>4
  <2> QED
    BY <1>1, <1>6, <2>1, OrderKept
<1> QED
  BY <1>2, <1>7, <1>8, <1>9, <1>10 DEF SIInv

\* A handler that gives up: the event it leaves is accounted for.
LEMMA LeaveKeeps ==
  ASSUME SIInv, NEW h \in Handler, NEW ok, Answer(h, ok), pc[h] # "idle", UNCHANGED <<stripe, events, stored, row>>,
         keys' \subseteq keys, processed \subseteq processed', processed' \subseteq stored,
         TraceOK', trace.missed \subseteq trace'.missed,
         trace'.effects = trace.effects, trace'.last = trace.last, trace'.ordered = trace.ordered,
         NEW e \in Event, e = at[h], e \in processed' \/ Owned(e)' \/ e \in trace'.missed
  PROVE  SIInv'
<1>1. StripeOK' /\ Event' = Event /\ Latest' = Latest
  BY StripeKept DEF SIInv
<1>2. /\ LocalsOK' /\ (\A g \in Handler : HandlerOK(g)') /\ (\A c \in Caller : CallerOK(c)')
      /\ pc'[h] = "idle" /\ at'[h] = 0
      /\ \A g \in Handler : g # h => pc'[g] = pc[g] /\ at'[g] = at[g] /\ held'[g] = held[g]
  BY AnswerKeeps
<1>3. at[h] \in Event /\ acked' = IF ok THEN acked \union {at[h]} ELSE acked
  BY Working DEF Answer
<1>4. Shape'
  BY <1>1, <1>2, <1>3 DEF SIInv, Shape, StoresOK
<1>5. TakenOnce'
  <2>1. \A g \in Handler : Taking(g)' => Taking(g) /\ at'[g] = at[g]
    BY <1>2 DEF Taking
  <2>2. \A g \in Handler : pc'[g] = "mark" => pc[g] = "mark" /\ at'[g] = at[g]
    BY <1>2
  <2> QED
    BY <2>1, <2>2, TakenKept
<1>6. Accounted'
  <2>1. \A f : f # e => (Handled(f) => Handled(f)') /\ (Owned(f) => Owned(f)')
    BY <1>2 DEF Handled, Owned
  <2>2. \A f : Owned(f)' => Handled(f)'
    BY DEF Handled, Owned
  <2>3. ASSUME NEW f \in acked' \union keys' PROVE Handled(f)' \/ f \in trace'.missed
    <3>1. CASE f = e
      BY <2>2, <3>1 DEF Handled
    <3>2. CASE f # e
      BY <1>3, <2>1, <2>3, <3>2 DEF SIInv, Accounted
    <3> QED
      BY <3>1, <3>2
  <2>4. \A f \in stored' : f \in processed' \/ Owned(f)' \/ f \in trace'.missed
    BY <2>1 DEF SIInv, Accounted
  <2>5. \A g \in Handler : pc'[g] = "release" => at'[g] \in trace'.missed
    BY <1>2 DEF SIInv, Accounted
  <2> QED
    BY <2>3, <2>4, <2>5 DEF Accounted
<1>7. InOrder'
  BY <1>2, OrderKept
<1> QED
  BY <1>1, <1>4, <1>5, <1>6, <1>7 DEF SIInv

LEMMA InsertKeeps ==
  ASSUME SIInv, NEW h \in Handler, Insert(h)
  PROVE  SIInv'
<1>1. /\ UNCHANGED <<stripe, events, keys, processed, row, trace>> /\ pc[h] = "insert"
  BY DEF Insert, Outside
<1>2. at[h] \in Event /\ StripeOK' /\ Event' = Event /\ Latest' = Latest /\ h \in Process /\ LocalsOK
  BY <1>1, Working, StripeKept DEF SIInv
<1>3. TraceOK' /\ TraceOK
  BY <1>1, <1>2 DEF SIInv, Shape, TraceOK
<1>4. CASE at[h] \in stored
  <2>1. Answer(h, TRUE) /\ UNCHANGED stored
    BY <1>4 DEF Insert
  <2>2. /\ pc'[h] = "idle" /\ at'[h] = 0
        /\ \A g \in Handler : g # h => pc'[g] = pc[g] /\ at'[g] = at[g] /\ held'[g] = held[g]
    BY <1>1, <2>1, AnswerKeeps
  <2>3. \A f : Owned(f) => Owned(f)'
    BY <1>1, <2>2 DEF Owned
  <2>4. PICK e \in Event : e = at[h]
    BY <1>2
  <2>5. e \in processed' \/ Owned(e)' \/ e \in trace'.missed
    BY <1>1, <1>4, <2>3, <2>4 DEF SIInv, Accounted
  <2>6. processed \subseteq stored
    BY DEF SIInv, Shape, StoresOK
  <2> QED
    BY <1>1, <1>3, <2>1, <2>4, <2>5, <2>6, LeaveKeeps
<1>5. CASE at[h] \notin stored
  <2> DEFINE s == IF events[at[h]].type = "checkout" THEN "fetch" ELSE "apply"
  <2>1. stored' = stored \union {at[h]} /\ Goto(h, s) /\ UNCHANGED <<acked, at, held>>
    BY <1>5 DEF Insert
  <2>2. s \in HandlerStep \ {"idle"} /\ s \in {"fetch", "apply"} /\ (s = "apply" => events[at[h]].type # "checkout")
    BY DEF HandlerStep
  <2> HIDE DEF s
  <2>3. /\ LocalsOK' /\ (\A g \in Handler : HandlerOK(g)') /\ (\A c \in Caller : CallerOK(c)')
        /\ pc'[h] = s /\ \A g \in Handler : g # h => pc'[g] = pc[g]
    BY <1>1, <1>2, <2>1, <2>2, GotoKeeps DEF LocalsOK
  <2>4. Shape'
    BY <1>1, <1>2, <1>3, <2>1, <2>3 DEF SIInv, Shape, StoresOK
  <2>5. TakenOnce'
    <3>1. trace.effects[at[h]] = 0
      <4>1. trace.effects[at[h]] \in Nat
        BY <1>2, <1>3, ElementOfSeq DEF TraceOK, Trace, Event
      <4> QED
        BY <1>2, <1>5, <4>1 DEF SIInv, TakenOnce
    <3>2. \A g \in Handler : g # h /\ Taking(g)' => Taking(g) /\ at[g] # at[h]
      BY <1>5, <2>3 DEF SIInv, TakenOnce, Taking
    <3>3. \A g \in Handler : pc'[g] = "mark" => pc[g] = "mark"
      BY <2>2, <2>3
    <3>4. \A g \in Handler : Taking(g)' => at'[g] \in stored' /\ trace'.effects[at'[g]] = 0
      BY <1>1, <2>1, <3>1, <3>2 DEF SIInv, TakenOnce
    <3>5. \A g, k \in Handler : g # k /\ Taking(g)' /\ Taking(k)' => at'[g] # at'[k]
      BY <2>1, <3>2 DEF SIInv, TakenOnce
    <3> QED
      BY <1>1, <1>2, <2>1, <3>3, <3>4, <3>5 DEF SIInv, TakenOnce
  <2>6. Accounted'
    <3>1. \A f : (Handled(f) => Handled(f)') /\ (Owned(f) => Owned(f)')
      BY <1>1, <2>1, <2>3 DEF Handled, Owned
    <3>3. \A g \in Handler : pc'[g] = "release" => pc[g] = "release"
      BY <2>2, <2>3
    <3>4. \A e \in stored' : e \in processed' \/ Owned(e)' \/ e \in trace'.missed
      <4>1. at'[h] = at[h] /\ pc'[h] # "insert"
        BY <2>1, <2>2, <2>3
      <4>2. \A e : e = at[h] => Owned(e)'
        BY <4>1 DEF Owned
      <4> QED
        BY <1>1, <2>1, <3>1, <4>2 DEF SIInv, Accounted
    <3> QED
      BY <1>1, <2>1, <3>1, <3>3, <3>4 DEF SIInv, Accounted
  <2>7. InOrder'
    <3>1. \A g \in Handler : pc'[g] = "apply" /\ events[at'[g]].type = "checkout" => pc[g] = "apply"
      BY <2>1, <2>2, <2>3
    <3> QED
      BY <1>1, <2>1, <3>1, OrderKept
  <2> QED
    BY <1>2, <2>4, <2>5, <2>6, <2>7 DEF SIInv
<1> QED
  BY <1>4, <1>5

LEMMA FetchKeeps ==
  ASSUME SIInv, NEW h \in Handler, Fetch(h)
  PROVE  SIInv'
<1>1. /\ UNCHANGED <<stripe, events, acked, keys, stored, processed, row, at, trace>>
      /\ pc[h] = "fetch" /\ held' = [held EXCEPT ![h] = stripe[events[at[h]].sub]] /\ Goto(h, "apply")
  BY DEF Fetch, Outside, db
<1>2. /\ at[h] \in Event /\ StripeOK' /\ Event' = Event /\ Latest' = Latest /\ h \in Process /\ LocalsOK
      /\ TraceOK'
  BY <1>1, Working, StripeKept DEF SIInv, Shape, TraceOK
<1>3. stripe[events[at[h]].sub] \in State
  BY <1>2, ElementOfSeq DEF SIInv, StripeOK, EventOK, Shape, Latest
<1>4. held' \in [Process -> State \union {Nothing}] /\ held'[h] = stripe[events[at[h]].sub]
      /\ \A p \in Process : p # h => held'[p] = held[p]
  <2> HIDE DEF Nothing
  <2> QED
    BY <1>1, <1>2, <1>3 DEF LocalsOK
<1>5. /\ LocalsOK' /\ (\A g \in Handler : HandlerOK(g)') /\ (\A c \in Caller : CallerOK(c)')
      /\ pc'[h] = "apply" /\ \A g \in Handler : g # h => pc'[g] = pc[g]
  <2>1. "apply" \in HandlerStep \ {"idle"}
    BY DEF HandlerStep
  <2> QED
    BY <1>1, <1>4, <2>1, GotoKeeps
<1>6. Shape'
  BY <1>1, <1>2, <1>5 DEF SIInv, Shape, StoresOK
<1>7. TakenOnce'
  <2>1. \A g \in Handler : Taking(g)' => Taking(g) /\ at'[g] = at[g]
    BY <1>1, <1>5 DEF Taking
  <2>2. \A g \in Handler : pc'[g] = "mark" => pc[g] = "mark" /\ at'[g] = at[g]
    BY <1>1, <1>5
  <2> QED
    BY <1>1, <2>1, <2>2, TakenKept
<1>8. Accounted'
  <2>1. \A f : (Handled(f) => Handled(f)') /\ (Owned(f) => Owned(f)')
    BY <1>1, <1>5 DEF Handled, Owned
  <2>2. \A g \in Handler : pc'[g] = "release" => pc[g] = "release"
    BY <1>5
  <2> QED
    BY <1>1, <2>1, <2>2 DEF SIInv, Accounted
<1>9. InOrder'
  <2>1. \A g \in Handler :
          pc'[g] = "apply" /\ events'[at'[g]].type = "checkout" /\ at'[g] = Len(events')
            => held'[g] = events'[at'[g]].state
    <3>1. at[h] = Len(events) => stripe[events[at[h]].sub] = events[at[h]].state
      BY <1>2 DEF SIInv, StripeOK, LastOK, Event
    <3>2. \A g \in Handler : g # h => held'[g] = held[g] /\ pc'[g] = pc[g]
      BY <1>4, <1>5 DEF Process
    <3>3. \A g \in Handler :
            pc[g] = "apply" /\ events[at[g]].type = "checkout" /\ at[g] = Len(events)
              => held[g] = events[at[g]].state
      BY DEF SIInv, InOrder
    <3> QED
      BY <1>1, <1>4, <3>1, <3>2, <3>3
  <2>2. LastTook' <=> LastTook
    BY <1>1 DEF LastTook, Complete, RowIs
  <2>3. trace'.ordered => \A e \in Event' : trace'.effects[e] > 0 => e <= trace'.last
    BY <1>1, <1>2 DEF SIInv, InOrder
  <2> QED
    BY <1>1, <2>1, <2>2, <2>3 DEF SIInv, InOrder
<1> QED
  BY <1>2, <1>6, <1>7, <1>8, <1>9 DEF SIInv

LEMMA MarkKeeps ==
  ASSUME SIInv, NEW h \in Handler, MarkProcessed(h)
  PROVE  SIInv'
<1>1. /\ UNCHANGED <<stripe, events, keys, stored, row, trace>> /\ pc[h] = "mark"
      /\ processed' = processed \union {at[h]} /\ Answer(h, TRUE)
  BY DEF MarkProcessed, Outside
<1>2. at[h] \in Event /\ Event' = Event
  BY <1>1, Working, StripeKept DEF SIInv
<1>3. TraceOK' /\ processed' \subseteq stored
  BY <1>1, <1>2 DEF SIInv, Shape, TraceOK, StoresOK, TakenOnce
<1>4. PICK e \in Event : e = at[h] /\ e \in processed'
  BY <1>1, <1>2
<1> QED
  BY <1>1, <1>3, <1>4, LeaveKeeps

LEMMA FailKeeps ==
  ASSUME SIInv, NEW h \in Handler, Fail(h) \/ Crash(h)
  PROVE  SIInv'
<1>1. /\ UNCHANGED <<stripe, events, keys, stored, processed, row>> /\ pc[h] # "idle"
      /\ trace' = [trace EXCEPT !.missed = @ \union {at[h]}]
      /\ \/ Answer(h, FALSE)
         \/ pc[h] \in {"fetch", "apply", "mark"} /\ Goto(h, "release") /\ UNCHANGED <<acked, at, held>>
  BY DEF Fail, Crash, Outside, db
<1>2. at[h] \in Event /\ h \in Process /\ LocalsOK /\ StripeOK' /\ Event' = Event /\ Latest' = Latest
  BY <1>1, Working, StripeKept DEF SIInv
<1>3. /\ TraceOK' /\ trace'.missed = trace.missed \union {at[h]}
      /\ trace'.effects = trace.effects /\ trace'.last = trace.last /\ trace'.ordered = trace.ordered
  BY <1>1, <1>2, MissedKeeps
<1>4. CASE Answer(h, FALSE)
  <2>1. processed \subseteq stored
    BY DEF SIInv, Shape, StoresOK
  <2>2. PICK e \in Event : e = at[h] /\ e \in trace'.missed
    BY <1>2, <1>3
  <2> QED
    BY <1>1, <1>3, <1>4, <2>1, <2>2, LeaveKeeps
<1>5. CASE pc[h] \in {"fetch", "apply", "mark"} /\ Goto(h, "release") /\ UNCHANGED <<acked, at, held>>
  <2>1. /\ LocalsOK' /\ (\A g \in Handler : HandlerOK(g)') /\ (\A c \in Caller : CallerOK(c)')
        /\ pc'[h] = "release" /\ \A g \in Handler : g # h => pc'[g] = pc[g]
    <3>1. "release" \in HandlerStep \ {"idle"}
      BY DEF HandlerStep
    <3> QED
      BY <1>1, <1>2, <1>5, <3>1, GotoKeeps DEF LocalsOK
  <2>2. Shape'
    BY <1>1, <1>2, <1>3, <1>5, <2>1 DEF SIInv, Shape, StoresOK
  <2>3. TakenOnce'
    <3>1. \A g \in Handler : Taking(g)' => Taking(g) /\ at'[g] = at[g]
      BY <1>5, <2>1 DEF Taking
    <3>2. \A g \in Handler : pc'[g] = "mark" => pc[g] = "mark" /\ at'[g] = at[g]
      BY <1>5, <2>1
    <3> QED
      BY <1>1, <1>3, <3>1, <3>2, TakenKept
  <2>4. Accounted'
    <3>1. \A f : (Handled(f) => Handled(f)') /\ (Owned(f) => Owned(f)')
      BY <1>1, <1>5, <2>1 DEF Handled, Owned
    <3>2. \A g \in Handler : pc'[g] = "release" => pc[g] = "release" \/ g = h
      BY <2>1
    <3> QED
      BY <1>1, <1>3, <1>5, <3>1, <3>2 DEF SIInv, Accounted
  <2>5. InOrder'
    <3>1. \A g \in Handler : pc'[g] = "apply" => pc[g] = "apply"
      BY <2>1
    <3> QED
      BY <1>1, <1>3, <1>5, <3>1, OrderKept
  <2> QED
    BY <1>2, <2>2, <2>3, <2>4, <2>5 DEF SIInv
<1> QED
  BY <1>1, <1>4, <1>5

LEMMA ReleaseKeeps ==
  ASSUME SIInv, NEW h \in Handler, Release(h)
  PROVE  SIInv'
<1>1. /\ UNCHANGED <<stripe, events, stored, processed, row, trace>> /\ pc[h] = "release"
      /\ keys' \subseteq keys /\ Answer(h, FALSE)
  BY DEF Release, Outside
<1>2. at[h] \in Event /\ Event' = Event
  BY <1>1, Working, StripeKept DEF SIInv
<1>3. TraceOK' /\ processed \subseteq stored
  BY <1>1, <1>2 DEF SIInv, Shape, TraceOK, StoresOK
<1>4. PICK e \in Event : e = at[h] /\ e \in trace'.missed
  BY <1>1, <1>2 DEF SIInv, Accounted
<1> QED
  BY <1>1, <1>3, <1>4, LeaveKeeps

\* What an effect or an answer writes is a row.
LEMMA UpsertRow ==
  ASSUME NEW n \in Nat, NEW state \in State \union {Nothing}
  PROVE  Upsert(n, state) \in Row /\ Upsert(n, state).sub = n
<1>1. /\ state.price \in Plan \union {"none"} /\ PlanOf(state) \in Plan \union {"free"}
      /\ state.status \in Status /\ state.ending \in BOOLEAN
  <2>1. CASE state \in State
    BY <2>1 DEF State, PlanOf
  <2>2. CASE state = Nothing
    BY <2>2 DEF Nothing, Status, PlanOf
  <2> QED
    BY <2>1, <2>2
<1> QED
  BY <1>1 DEF Upsert, Row

LEMMA EffectRow ==
  ASSUME SIInv, NEW e \in Event, NEW fetched \in State \union {Nothing}
  PROVE  /\ Effect(events[e], fetched) \in Row /\ Effect(events[e], fetched).sub <= Latest
         /\ events[e].type = "upsert" =>
              Effect(events[e], fetched) = Upsert(events[e].sub, events[e].state)
         /\ events[e].type = "checkout" =>
              /\ Effect(events[e], fetched) = Upsert(events[e].sub, fetched)
              /\ Effect(events[e], fetched).sub = events[e].sub
         /\ events[e].type = "deleted" /\ row.sub = events[e].sub =>
              Effect(events[e], fetched) = Free("canceled")
         /\ events[e].type = "payment_failed" /\ row.sub = events[e].sub =>
              Effect(events[e], fetched).sub = events[e].sub
<1>1. events[e] \in EventRow
  BY ElementOfSeq DEF SIInv, Shape, Event
<1>2. /\ events[e].type \in {"checkout", "upsert", "deleted", "payment_failed"}
      /\ events[e].sub \in Nat /\ events[e].sub <= Latest /\ events[e].state \in State
  BY <1>1, EventNat DEF SIInv, StripeOK, EventOK, EventRow, Type
<1>3. row \in Row /\ row.sub \in Nat /\ row.sub <= Latest
  BY DEF SIInv, Shape, StoresOK, Row
<1> DEFINE Upserted == Upsert(events[e].sub, events[e].state)
           Fetched == Upsert(events[e].sub, fetched)
           Failed == [row EXCEPT !.plan = "free", !.status = "past_due"]
<1>4. /\ Upserted \in Row /\ Upserted.sub = events[e].sub
      /\ Fetched \in Row /\ Fetched.sub = events[e].sub
  BY <1>2, UpsertRow, Zenon
<1>5. Failed \in Row /\ Failed.sub = row.sub
  BY <1>3 DEF Row, Status
<1>6. Free("canceled") \in Row /\ Free("canceled").sub = 0 /\ 0 <= Latest
  BY NothingType, EventNat DEF Free, SIInv
<1> HIDE DEF Upserted, Fetched, Failed
<1>7. Effect(events[e], fetched) =
        IF events[e].type = "checkout" THEN Fetched
        ELSE IF events[e].type = "upsert" THEN Upserted
        ELSE IF events[e].type = "deleted" THEN Patch(events[e].sub, Free("canceled"))
        ELSE Patch(events[e].sub, Failed)
  <2> USE DEF Upserted, Fetched, Failed
  <2> QED
    BY <1>2 DEF Effect
<1>8. /\ Patch(events[e].sub, Free("canceled")) = IF row.sub = events[e].sub THEN Free("canceled") ELSE row
      /\ Patch(events[e].sub, Failed) = IF row.sub = events[e].sub THEN Failed ELSE row
  BY DEF Patch
<1> HIDE DEF Row
<1>9. /\ Effect(events[e], fetched) \in Row /\ Effect(events[e], fetched).sub <= Latest
      /\ events[e].type = "upsert" => Effect(events[e], fetched) = Upserted
      /\ events[e].type = "checkout" =>
           Effect(events[e], fetched) = Fetched /\ Effect(events[e], fetched).sub = events[e].sub
      /\ events[e].type = "deleted" /\ row.sub = events[e].sub =>
           Effect(events[e], fetched) = Free("canceled")
      /\ events[e].type = "payment_failed" /\ row.sub = events[e].sub =>
           Effect(events[e], fetched).sub = events[e].sub
  BY <1>2, <1>3, <1>4, <1>5, <1>6, <1>7, <1>8
<1> QED
  BY <1>9 DEF Upserted, Fetched

\* The latest effect before a deletion or a failed payment comes in order is
\* of the event before it, and the row is of the same subscription.
LEMMA RowOfPrevious ==
  ASSUME SIInv, trace.ordered, NEW e \in Event, trace.last <= e, trace.effects[e] = 0,
         \A f \in Event : f < e => trace.effects[f] > 0,
         events[e].type \in {"deleted", "payment_failed"}
  PROVE  row.sub = events[e].sub
<1>1. /\ e \in Nat /\ e - 1 \in Event /\ e - 1 \in Nat /\ e - 1 < e /\ e - 1 > 0
      /\ events[e - 1].sub = events[e].sub /\ events[e - 1].type # "deleted"
      /\ trace.last \in Nat
  BY EventNat DEF SIInv, StripeOK, EventOK, Shape, TraceOK, Trace, Event
<1>2. trace.effects[e - 1] > 0 /\ e - 1 <= trace.last
  BY <1>1 DEF SIInv, InOrder
<1>3. trace.last > 0 /\ LastTook
  BY <1>1, <1>2 DEF SIInv, InOrder
<1>4. trace.last # e
  BY <1>3 DEF LastTook
<1>5. trace.last = e - 1
  BY <1>1, <1>2, <1>4
<1>6. Complete(e - 1)
  <2>1. \A f \in 1 .. e - 1 : f \in Event /\ f < e
    BY <1>1, EventNat DEF SIInv, Event
  <2> QED
    BY <2>1 DEF Complete
<1>7. RowIs(e - 1)
  BY <1>2, <1>3, <1>5, <1>6 DEF LastTook
<1> DEFINE k == e - 1
<1>8. events[k] \in EventRow
  <2>1. k \in 1 .. Len(events) /\ events \in Seq(EventRow)
    BY <1>1 DEF SIInv, Shape, Event
  <2> QED
    BY <2>1, ElementOfSeq
<1>9. /\ events[k].type \in {"upsert", "checkout", "payment_failed"}
      /\ events[k].sub \in Nat /\ events[k].state \in State \union {Nothing}
  BY <1>1, <1>8 DEF EventRow, Type
<1>10. row.sub = events[k].sub
  BY <1>7, <1>9, UpsertRow DEF RowIs
<1> QED
  BY <1>1, <1>10

LEMMA ApplyKeeps ==
  ASSUME SIInv, NEW h \in Handler, Apply(h)
  PROVE  SIInv'
<1> DEFINE e == at[h]
           effects == [trace.effects EXCEPT ![e] = @ + 1]
<1>1. /\ UNCHANGED <<stripe, events, acked, keys, stored, processed, at, held>> /\ pc[h] = "apply"
      /\ row' = Effect(events[e], held[h]) /\ Note(e, effects) /\ Goto(h, "mark")
  BY DEF Apply, Outside
<1>2. /\ e \in Event /\ e \in Nat /\ e > 0 /\ h \in Process /\ LocalsOK
      /\ held[h] \in State \union {Nothing} /\ \A f \in Event : f \in Nat
  BY <1>1, Working, EventNat DEF LocalsOK, SIInv
<1>3. StripeOK' /\ Event' = Event /\ Latest' = Latest /\ Len(events') = Len(events)
  BY <1>1, StripeKept DEF SIInv
<1>4. /\ effects \in Seq(Nat) /\ Len(effects) = Len(events)
      /\ \A f \in Event : effects[f] = IF f = e THEN trace.effects[f] + 1 ELSE trace.effects[f]
  BY <1>2, EffectFacts DEF SIInv, Shape
<1> HIDE DEF effects
<1>5. /\ trace' \in Trace /\ trace'.effects = effects /\ trace'.missed = trace.missed
      /\ trace'.last = e /\ (trace'.ordered <=> (trace.ordered /\ e >= trace.last))
  BY <1>1, <1>2, <1>4, NoteFacts DEF SIInv, Shape, TraceOK
<1>6. TraceOK'
  BY <1>2, <1>3, <1>4, <1>5 DEF TraceOK, SIInv, Shape, Event
<1>7. /\ LocalsOK' /\ (\A g \in Handler : HandlerOK(g)') /\ (\A c \in Caller : CallerOK(c)')
      /\ pc'[h] = "mark" /\ \A g \in Handler : g # h => pc'[g] = pc[g]
  <2>1. "mark" \in HandlerStep \ {"idle"}
    BY DEF HandlerStep
  <2> QED
    BY <1>1, <1>2, <2>1, GotoKeeps DEF LocalsOK
<1>8. row' \in Row /\ row'.sub <= Latest
  BY <1>1, <1>2, EffectRow
<1>9. Shape'
  BY <1>1, <1>3, <1>6, <1>7, <1>8 DEF SIInv, Shape, StoresOK
<1>10. e \in stored /\ trace.effects[e] = 0
  BY <1>1 DEF SIInv, TakenOnce, Taking
<1>11. effects[e] = 1 /\ \A f \in Event : f # e => effects[f] = trace.effects[f]
  BY <1>2, <1>4, <1>10
<1>12. TakenOnce'
  <2>1. \A g \in Handler : Taking(g)' => g # h /\ Taking(g)
    BY <1>7 DEF Taking
  <2>2. \A g \in Handler : Taking(g)' => at[g] \in Event /\ at[g] # e
    <3>1. Taking(h)
      BY <1>1 DEF Taking
    <3>2. \A g \in Handler : Taking(g) => at[g] \in Event
      BY Working DEF Taking
    <3> QED
      BY <2>1, <3>1, <3>2 DEF SIInv, TakenOnce
  <2>3. \A g \in Handler : Taking(g)' => at'[g] \in stored' /\ trace'.effects[at'[g]] = 0
    BY <1>1, <1>5, <1>11, <2>1, <2>2 DEF SIInv, TakenOnce
  <2>4. \A g, k \in Handler : g # k /\ Taking(g)' /\ Taking(k)' => at'[g] # at'[k]
    BY <1>1, <2>1 DEF SIInv, TakenOnce
  <2>5. \A g \in Handler : pc'[g] = "mark" => at'[g] \in stored'
    BY <1>1, <1>7, <1>10 DEF SIInv, TakenOnce
  <2>6. \A f \in Event' : trace'.effects[f] <= 1 /\ (trace'.effects[f] > 0 => f \in stored')
    BY <1>1, <1>3, <1>5, <1>10, <1>11 DEF SIInv, TakenOnce
  <2> QED
    BY <2>3, <2>4, <2>5, <2>6 DEF TakenOnce
<1>13. Accounted'
  <2>1. \A f : (Handled(f) => Handled(f)') /\ (Owned(f) => Owned(f)')
    BY <1>1, <1>7 DEF Handled, Owned
  <2>2. \A g \in Handler : pc'[g] = "release" => pc[g] = "release"
    BY <1>7
  <2> QED
    BY <1>1, <1>5, <2>1, <2>2 DEF SIInv, Accounted
<1>14. InOrder'
  <2>1. \A g \in Handler :
          pc'[g] = "apply" /\ events'[at'[g]].type = "checkout" /\ at'[g] = Len(events')
            => held'[g] = events'[at'[g]].state
    BY <1>1, <1>7 DEF SIInv, InOrder
  <2>2. ASSUME trace'.ordered, NEW f \in Event, trace'.effects[f] > 0 PROVE f <= e
    <3>1. CASE f = e
      BY <1>2, <3>1
    <3>2. CASE f # e
      <4>1. trace.ordered /\ e >= trace.last /\ trace.last \in Nat
        BY <1>5, <2>2 DEF SIInv, Shape, TraceOK, Trace
      <4>2. f <= trace.last
        BY <1>5, <1>11, <2>2, <3>2, <4>1 DEF SIInv, InOrder
      <4> QED
        BY <1>2, <4>1, <4>2
    <3> QED
      BY <3>1, <3>2
  <2>3. ASSUME trace'.ordered, Complete(e)' PROVE RowIs(e)'
    <3>1. trace.ordered /\ trace.last <= e
      BY <1>5, <2>3 DEF SIInv, Shape, TraceOK, Trace
    <3>2. \A f \in Event : f < e => trace.effects[f] > 0
      <4>1. \A f \in Event : f < e => f \in 1 .. e /\ f # e
        BY <1>2 DEF Event
      <4>2. e' = e
        BY <1>1
      <4> QED
        BY <1>5, <1>11, <2>3, <4>1, <4>2 DEF Complete
    <3>3. events[e].type \in {"deleted", "payment_failed"} => row.sub = events[e].sub
      BY <1>2, <1>10, <3>1, <3>2, RowOfPrevious
    <3>4. /\ events[e].type = "upsert" => row' = Upsert(events[e].sub, events[e].state)
          /\ events[e].type = "checkout" =>
               row' = Upsert(events[e].sub, held[h]) /\ row'.sub = events[e].sub
          /\ events[e].type = "deleted" => row' = Free("canceled")
          /\ events[e].type = "payment_failed" => row'.sub = events[e].sub
      BY <1>1, <1>2, <3>3, EffectRow
    <3>5. events[e].type = "checkout" /\ e = Len(events) => held[h] = events[e].state
      BY <1>1 DEF SIInv, InOrder
    <3>6. events' = events /\ e' = e
      BY <1>1
    <3> HIDE DEF e
    <3> QED
      BY <3>4, <3>5, <3>6 DEF RowIs
  <2>4. LastTook' <=> (Complete(e)' => RowIs(e)')
    <3>1. e' = e /\ trace'.last = e' /\ trace'.effects[e] # 0
      BY <1>1, <1>5, <1>11
    <3> HIDE DEF e
    <3> QED
      BY <3>1 DEF LastTook
  <2> QED
    BY <1>3, <1>5, <2>1, <2>2, <2>3, <2>4 DEF InOrder
<1> QED
  BY <1>3, <1>9, <1>12, <1>13, <1>14 DEF SIInv

\* A caller writes what Stripe answered: the state of its own event.
LEMMA WriteKeeps ==
  ASSUME SIInv, NEW c \in Caller, WriteAnswer(c)
  PROVE  SIInv'
<1> DEFINE e == at[c]
           n == events[e].sub
           flagged == [row EXCEPT !.status = held[c].status, !.ending = held[c].ending]
<1>1. /\ UNCHANGED <<stripe, events, acked, keys, stored, processed>>
      /\ pc[c] \in {"write.plan", "write.flag"} /\ Note(e, trace.effects)
      /\ row' = Upsert(n, held[c]) \/ row' = Patch(n, flagged)
      /\ Goto(c, "idle") /\ at' = [at EXCEPT ![c] = 0] /\ held' = [held EXCEPT ![c] = Nothing]
  BY DEF WriteAnswer, Outside
<1>2. /\ c \in Process /\ (\A h \in Handler : h # c /\ h \in Process) /\ LocalsOK
      /\ e \in Event /\ e \in Nat /\ e > 0
      /\ events[e].type = "upsert" /\ events[e].state = held[c]
  BY <1>1, StripeAssumption, EventNat DEF SIInv, Shape, CallerOK, Process, Event
<1>3. events[e] \in EventRow
  <2>1. e \in 1 .. Len(events) /\ events \in Seq(EventRow)
    BY <1>2 DEF SIInv, Shape, Event
  <2> QED
    BY <2>1, ElementOfSeq
<1>4. n \in Nat /\ n <= Latest /\ held[c] \in State
  BY <1>2, <1>3, EventNat DEF EventRow, SIInv, StripeOK, EventOK
<1>5. StripeOK' /\ Event' = Event /\ Latest' = Latest /\ Len(events') = Len(events)
  BY <1>1, StripeKept DEF SIInv
<1>6. /\ trace' \in Trace /\ trace'.effects = trace.effects /\ trace'.missed = trace.missed
      /\ trace'.last = e /\ (trace'.ordered <=> (trace.ordered /\ e >= trace.last))
  BY <1>1, <1>2, NoteFacts DEF SIInv, Shape, TraceOK, Trace
<1>7. TraceOK'
  BY <1>2, <1>5, <1>6 DEF TraceOK, SIInv, Shape, Event
<1>8. row \in Row /\ row.sub \in Nat /\ row.sub <= Latest
  BY DEF SIInv, Shape, StoresOK, Row
<1>9. flagged \in Row /\ flagged.sub = row.sub
  BY <1>4, <1>8 DEF Row, State
<1>10. row' \in Row /\ row'.sub <= Latest
  <2>1. Upsert(n, held[c]) \in Row /\ Upsert(n, held[c]).sub = n
    BY <1>4, UpsertRow
  <2> HIDE DEF flagged, n, Row
  <2> QED
    BY <1>1, <1>4, <1>8, <1>9, <2>1 DEF Patch
<1>11. /\ LocalsOK' /\ pc'[c] = "idle"
       /\ \A p \in Process : p # c => pc'[p] = pc[p] /\ at'[p] = at[p] /\ held'[p] = held[p]
  <2> HIDE DEF Nothing
  <2>1. /\ pc' \in [Process -> Step] /\ pc'[c] = "idle" /\ \A p \in Process : p # c => pc'[p] = pc[p]
        /\ at' \in [Process -> Event \union {0}] /\ \A p \in Process : p # c => at'[p] = at[p]
        /\ held' \in [Process -> State \union {Nothing}] /\ \A p \in Process : p # c => held'[p] = held[p]
    BY <1>1, <1>2 DEF LocalsOK, Goto, Step
  <2> QED
    BY <1>5, <2>1 DEF LocalsOK
<1>12. \A h \in Handler : pc'[h] = pc[h] /\ at'[h] = at[h] /\ held'[h] = held[h]
  BY <1>2, <1>11
<1>13. Shape'
  <2>1. StoresOK'
    BY <1>1, <1>5, <1>10 DEF SIInv, Shape, StoresOK
  <2>2. \A h \in Handler : HandlerOK(h)'
    BY <1>12 DEF SIInv, Shape, HandlerOK
  <2>3. ASSUME NEW d \in Caller PROVE CallerOK(d)'
    <3>1. d # c => pc'[d] = pc[d] /\ at'[d] = at[d] /\ held'[d] = held[d]
      BY <1>11 DEF Process
    <3> QED
      BY <1>1, <1>5, <1>11, <3>1 DEF SIInv, Shape, CallerOK
  <2> QED
    BY <1>1, <1>7, <1>11, <2>1, <2>2, <2>3 DEF SIInv, Shape
<1>14. TakenOnce'
  <2>1. \A g \in Handler : Taking(g)' => Taking(g) /\ at'[g] = at[g]
    BY <1>12 DEF Taking
  <2>2. \A g \in Handler : pc'[g] = "mark" => pc[g] = "mark" /\ at'[g] = at[g]
    BY <1>12
  <2> QED
    BY <1>1, <1>6, <2>1, <2>2, TakenKept
<1>15. Accounted'
  <2>1. \A f : (Handled(f) => Handled(f)') /\ (Owned(f) => Owned(f)')
    BY <1>1, <1>12 DEF Handled, Owned
  <2> QED
    BY <1>1, <1>6, <1>12, <2>1 DEF SIInv, Accounted
<1>16. InOrder'
  <2>1. \A g \in Handler :
          pc'[g] = "apply" /\ events'[at'[g]].type = "checkout" /\ at'[g] = Len(events')
            => held'[g] = events'[at'[g]].state
    BY <1>1, <1>12 DEF SIInv, InOrder
  <2>2. ASSUME trace'.ordered
        PROVE  trace.ordered /\ trace.last \in Nat /\ trace.last <= e
               /\ \A f \in Event : trace.effects[f] > 0 => f <= trace.last
    BY <1>6, <2>2 DEF SIInv, InOrder, Shape, TraceOK, Trace
  <2>3. ASSUME trace'.ordered, NEW f \in Event, trace'.effects[f] > 0 PROVE f <= e
    <3>1. f <= trace.last /\ f \in Nat
      BY <1>6, <2>2, <2>3, EventNat DEF SIInv
    <3> QED
      BY <1>2, <2>2, <2>3, <3>1
  <2>4. ASSUME trace'.ordered, trace.effects[e] # 0, Complete(e) PROVE row' = Upsert(n, events[e].state)
    <3>1. trace.effects[e] \in Nat
      <4>1. e \in 1 .. Len(trace.effects) /\ trace.effects \in Seq(Nat)
        BY <1>2 DEF SIInv, Shape, TraceOK, Trace, Event
      <4> QED
        BY <4>1, ElementOfSeq
    <3>2. trace.last = e
      BY <1>2, <2>2, <2>4, <3>1
    <3>3. LastTook
      BY <1>2, <2>2, <2>4, <3>2 DEF SIInv, InOrder
    <3>4. row = Upsert(n, held[c])
      BY <1>2, <2>4, <3>2, <3>3 DEF LastTook, RowIs
    <3>5. row.sub = n /\ row.status = held[c].status /\ row.ending = held[c].ending
      BY <3>4 DEF Upsert
    <3>6. flagged = row
      BY <1>8, <3>5 DEF Row
    <3> HIDE DEF flagged, n
    <3> QED
      BY <1>1, <1>2, <3>4, <3>6 DEF Patch
  <2>5. ASSUME trace'.ordered PROVE LastTook'
    <3>1. trace'.effects[trace'.last] = trace.effects[e] /\ events'[trace'.last].type = "upsert"
      BY <1>1, <1>2, <1>6
    <3>2. Complete(trace.last)' <=> Complete(e)
      BY <1>6 DEF Complete
    <3>3. trace.effects[e] # 0 /\ Complete(e) => RowIs(trace.last)'
      <4>1. events'[trace'.last] = events[e]
        BY <1>1, <1>6
      <4> QED
        BY <1>2, <2>4, <2>5, <4>1 DEF RowIs
    <3> QED
      BY <3>1, <3>2, <3>3 DEF LastTook
  <2> QED
    BY <1>5, <1>6, <2>1, <2>3, <2>5 DEF InOrder
<1> QED
  BY <1>5, <1>13, <1>14, <1>15, <1>16 DEF SIInv

--------------------------------------------------------------------------
(* The invariant and what follows from it. *)

LEMMA InitHolds ==
  ASSUME Init
  PROVE  SIInv
<1>1. Len(events) = 0 /\ Latest = 0 /\ Event = {} /\ stripe \in Seq(State) /\ events \in Seq(EventRow)
  BY EmptySeq DEF Init, Event, Latest
<1>2. TraceOK
  <2>1. << >> \in Seq(Nat) /\ Len(<< >>) = 0
    BY EmptySeq
  <2> QED
    BY <1>1, <2>1 DEF Init, TraceOK, Trace
<1>3. StoresOK
  <2>1. row \in Row /\ row.sub = 0
    BY NothingType DEF Init, Free
  <2> QED
    BY <1>1, <2>1 DEF Init, StoresOK
<1>4. LocalsOK
  BY NothingType DEF Init, LocalsOK, Step
<1>5. /\ \A p \in Process : pc[p] = "idle" /\ at[p] = 0
      /\ Handler \subseteq Process /\ Caller \subseteq Process
  BY DEF Init, Process
<1>6. Shape
  BY <1>1, <1>2, <1>3, <1>4, <1>5 DEF Shape, HandlerOK, HandlerStep, CallerOK
<1>7. StripeOK
  BY <1>1 DEF StripeOK, LastOK
<1>8. TakenOnce /\ Accounted
  BY <1>1, <1>5 DEF Init, TakenOnce, Accounted, Taking
<1>9. InOrder
  <2>1. trace.last = 0 /\ \A h \in Handler : pc[h] # "apply"
    BY <1>5 DEF Init
  <2> QED
    BY <1>1, <2>1 DEF InOrder
<1> QED
  BY <1>6, <1>7, <1>8, <1>9 DEF SIInv

LEMMA NextKeeps ==
  ASSUME SIInv, [Next]_vars
  PROVE  SIInv'
<1>1. CASE Stripe
  BY <1>1, SubscribeKeeps, ChangeKeeps DEF Stripe
<1>2. CASE \E e \in Event : RejectOld(e) \/ RejectSeen(e) \/ \E h \in Handler : Receive(h, e)
  BY <1>2, RejectKeeps, ReceiveKeeps
<1>3. CASE \E h \in Handler : Proceed(h) \/ Fail(h) \/ Crash(h)
  BY <1>3, InsertKeeps, FetchKeeps, ApplyKeeps, MarkKeeps, ReleaseKeeps, FailKeeps DEF Proceed
<1>4. CASE \E c \in Caller : ChangeSubscription(c) \/ WriteAnswer(c)
  BY <1>4, CallKeeps, WriteKeeps
<1>5. CASE UNCHANGED vars
  <2>1. /\ UNCHANGED <<stripe, events, acked, keys, stored, processed, row, pc, at, held, trace>>
        /\ Event' = Event /\ Latest' = Latest
    BY <1>5 DEF vars, Event, Latest
  <2>2. Shape'
    BY <2>1 DEF SIInv, Shape, StoresOK, TraceOK, LocalsOK, HandlerOK, CallerOK
  <2>3. StripeOK'
    BY <2>1, StripeKept DEF SIInv
  <2>4. TakenOnce' /\ Accounted'
    BY <2>1 DEF SIInv, TakenOnce, Accounted, Taking, Handled, Owned
  <2>5. InOrder'
    BY <2>1, OrderKept
  <2> QED
    BY <2>2, <2>3, <2>4, <2>5 DEF SIInv
<1> QED
  BY <1>1, <1>2, <1>3, <1>4, <1>5 DEF Next

\* The five parts hold together in every state, for any handlers, callers and
\* plans and every combination of faults.
THEOREM StripeInvariant == Spec => []SIInv
<1>1. Init => SIInv
  BY InitHolds
<1>2. SIInv /\ [Next]_vars => SIInv'
  BY NextKeeps
<1> QED
  BY <1>1, <1>2, PTL DEF Spec

\* Every variable keeps its type; a row of billing_events is there before its
\* event is marked processed.
THEOREM TypeCorrect == Spec => []TypeOK
<1>1. SIInv => TypeOK
  <2> SUFFICES ASSUME SIInv PROVE TypeOK
    OBVIOUS
  <2>1. trace \in [effects: Seq(Nat), missed: SUBSET Event, last: Nat, ordered: BOOLEAN]
    <3>1. trace \in Trace /\ trace.missed \in SUBSET Event
      BY DEF SIInv, Shape, TraceOK
    <3> QED
      BY <3>1, Zenon DEF Trace
  <2>2. events \in Seq([type: Type, sub: Nat, state: State])
    BY DEF SIInv, Shape, EventRow
  <2> QED
    BY <2>1, <2>2 DEF TypeOK, SIInv, Shape, StoresOK, LocalsOK
<1> QED
  BY <1>1, StripeInvariant, PTL

\* However often Stripe delivers an event and whatever fails in between, it
\* changes the subscription at most once: the INSERT with ON CONFLICT DO
\* NOTHING lets one handler through.
THEOREM AtMostOnceHolds == Spec => []AtMostOnce
<1>1. SIInv => AtMostOnce
  BY DEF SIInv, TakenOnce, AtMostOnce
<1> QED
  BY <1>1, StripeInvariant, PTL

\* A 200 means that the event is or was being processed, unless an attempt at
\* it failed, crashed or fell outside the replay window.
THEOREM AckedIsHandledHolds == Spec => []AckedIsHandled
<1>1. SIInv => AckedIsHandled
  BY DEF SIInv, Accounted, AckedIsHandled
<1> QED
  BY <1>1, StripeInvariant, PTL

\* When every event took effect and in Stripe's order, the subscription row
\* has Stripe's subscription, price, status and end, and the plan that its
\* metadata names: free if they name none.
THEOREM ConvergesHolds == Spec => []Converges
<1>1. SIInv => Converges
  <2> SUFFICES ASSUME SIInv, trace.ordered, Latest > 0, \A e \in Event : trace.effects[e] = 1
               PROVE  Matches
    BY DEF Converges, CaughtUp
  <2> DEFINE e == Len(events)
             now == stripe[Latest]
  <2>1. e \in Nat /\ e > 0 /\ e \in Event /\ \A f \in 1 .. e : f \in Event
    BY EventNat DEF SIInv, StripeOK, Event
  <2>2. trace.last = e
    <3>1. trace.last \in Nat /\ trace.last <= e
      BY DEF SIInv, Shape, TraceOK, Trace
    <3>2. e <= trace.last
      BY <2>1 DEF SIInv, InOrder
    <3> QED
      BY <2>1, <3>1, <3>2
  <2>3. RowIs(e)
    <3>1. Complete(e)
      BY <2>1 DEF Complete
    <3> QED
      BY <2>1, <2>2, <3>1 DEF SIInv, InOrder, LastTook
  <2>4. /\ events[e].sub = Latest /\ events[e].state = now /\ events[e].type # "payment_failed"
        /\ (events[e].type = "deleted" <=> now.status = "canceled")
    BY <2>1 DEF SIInv, StripeOK, LastOK, EventOK
  <2>5. events[e] \in EventRow
    <3>1. e \in 1 .. Len(events) /\ events \in Seq(EventRow)
      BY <2>1 DEF SIInv, Shape, Event
    <3> QED
      BY <3>1, ElementOfSeq
  <2>6. CASE now.status = "canceled"
    BY <2>3, <2>4, <2>6 DEF RowIs, Matches
  <2>7. CASE now.status # "canceled"
    <3>1. events[e].type \in {"upsert", "checkout"}
      BY <2>4, <2>5, <2>7 DEF EventRow, Type
    <3>2. row = Upsert(Latest, now)
      BY <2>3, <2>4, <3>1 DEF RowIs
    <3>3. PlanOf(now) = IF now.metadata \in Plan THEN now.metadata ELSE "free"
      <4>1. now.metadata \in Plan \union {"none"} /\ "none" \notin Plan
        BY <2>4, <2>5, StripeAssumption DEF EventRow, State
      <4> QED
        BY <4>1 DEF PlanOf
    <3> QED
      BY <2>7, <3>2, <3>3 DEF Upsert, Matches
  <2> QED
    BY <2>6, <2>7
<1> QED
  BY <1>1, StripeInvariant, PTL
============================================================================
