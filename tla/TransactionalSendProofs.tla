---------------------- MODULE TransactionalSendProofs ----------------------
(***************************************************************************)
(* Proofs about TransactionalSend, for every set of requests and bodies,   *)
(* every limit and every combination of faults.  Requests may be infinite  *)
(* in number; only finitely many are ever counted or under way.            *)
(*                                                                         *)
(* The argument, in three parts:                                           *)
(*   SendInv   what a request has done by the await it stands at; a sendId *)
(*             that was answered or stored belongs to a request that ended *)
(*             well, so no rollback removes its row.                       *)
(*   KeyInv    within one life of the key, the record keeps an answer that *)
(*             was stored, and until then the body of whoever sends.       *)
(*   UsageInv  what is counted and checked against a snapshot or a count.  *)
(***************************************************************************)
EXTENDS TransactionalSend, FiniteSetTheorems, TLAPS

\* What request r has done.
DoneBy(r) ==
  /\ pc[r] \in {"publish", "record", "invalidate", "store"} => r \in sends
  /\ pc[r] \in {"record", "invalidate", "store"} => r \in published
  /\ pc[r] \in {"invalidate", "store"} => r \in metered
  /\ pc[r] = "store" => body[r] # None

\* A sendId that may be answered from now on.
Settled(id) == pc[id] = "accepted" /\ id \in sends \intersect metered

AnswersSettled ==
  \A r \in Request : answer[r] # None => Settled(answer[r]) /\ body[answer[r]] = body[r]

RecordSettled ==
  idem.answer # None => Settled(idem.answer) /\ body[idem.answer] = idem.body

SendInv ==
  /\ TypeOK
  /\ IsFiniteSet(metered) /\ IsFiniteSet(Pending)
  /\ \A r \in Request : DoneBy(r)
  /\ AnswersSettled
  /\ RecordSettled

\* What the record still shows of what request r found under the key.
FoundBy(r) ==
  /\ local[r].era <= era
  /\ pc[r] = "lookup" /\ local[r].stored /\ local[r].era = era => idem.answer # None
  /\ Sender(r) => ~ local[r].stored
  /\ Sender(r) /\ local[r].era = era => idem.answer # None \/ idem.body = body[r]

KeyInv == (\A r \in Request : FoundBy(r)) /\ OneBody

LimitCached == Limit # Infinity /\ snapshot.present => snapshot.limit = Limit

UsageInv ==
  /\ LimitCached
  /\ SnapshotFresh
  /\ QuotaBound

--------------------------------------------------------------------------
(* Helpers: moving a request, its local state, the counts. *)

LEMMA NoSnapshotType == NoSnapshot \in Snapshot
BY DEF NoSnapshot, Snapshot

LEMMA GotoType ==
  ASSUME TypeOK, NEW r \in Request, NEW s \in Step, Goto(r, s)
  PROVE  pc' \in [Request -> Step] /\ pc'[r] = s /\ \A q \in Request : q # r => pc'[q] = pc[q]
BY DEF TypeOK, Goto

LEMMA AnswerType ==
  ASSUME TypeOK, NEW r \in Request, NEW s \in Step, NEW id \in Request, Answer(r, s, id)
  PROVE  /\ pc' \in [Request -> Step] /\ pc'[r] = s /\ \A q \in Request : q # r => pc'[q] = pc[q]
         /\ answer' \in [Request -> Request \union {None}]
         /\ answer'[r] = id /\ \A q \in Request : q # r => answer'[q] = answer[q]
BY GotoType DEF TypeOK, Answer

LEMMA NoteType ==
  ASSUME TypeOK, NEW r \in Request, NEW basis \in {"none", "reserved"}, Note(r, basis)
  PROVE  /\ local' \in [Request -> Local]
         /\ local'[r].era = era /\ local'[r].basis = basis
         /\ local'[r].stored <=> idem.answer # None
         /\ \A q \in Request : q # r => local'[q] = local[q]
<1> DEFINE stored == idem.answer # None
           new == [local[r] EXCEPT !.era = era, !.basis = basis, !.stored = stored]
<1>1. local' = [local EXCEPT ![r] = new]
  BY DEF Note
<1>2. local[r] \in Local /\ era \in Nat /\ stored \in BOOLEAN
      /\ basis \in {"none", "reserved", "pending", "expired"}
  BY TransactionalAssumption DEF TypeOK
<1>3. new \in Local /\ new.era = era /\ new.basis = basis /\ (new.stored <=> stored)
  <2> HIDE DEF stored
  <2> QED
    BY <1>2, Zenon DEF Local
<1> HIDE DEF new
<1> QED
  BY <1>1, <1>3 DEF TypeOK

LEMMA MissType ==
  ASSUME TypeOK, NEW r \in Request, NEW basis \in {"expired", "pending"}, Miss(r, basis)
  PROVE  /\ local' \in [Request -> Local]
         /\ local'[r].era = era /\ local'[r].basis = basis
         /\ local'[r].stored <=> (local[r].stored /\ local[r].era = era)
         /\ \A q \in Request : q # r => local'[q] = local[q]
<1> DEFINE same == local[r].era = era
           new == [local[r] EXCEPT !.basis = basis, !.era = era, !.stored = local[r].stored /\ same]
<1>1. local' = [local EXCEPT ![r] = new]
  BY DEF Miss
<1>2. local[r] \in Local /\ era \in Nat /\ same \in BOOLEAN
      /\ basis \in {"none", "reserved", "pending", "expired"}
  BY TransactionalAssumption DEF TypeOK
<1>3. new \in Local /\ new.era = era /\ new.basis = basis /\ (new.stored <=> (local[r].stored /\ same))
  <2> HIDE DEF same
  <2> QED
    BY <1>2, Zenon DEF Local
<1> HIDE DEF new
<1> QED
  BY <1>1, <1>3 DEF TypeOK

\* Counting the usage keeps what was found under the key.
LEMMA CountType ==
  ASSUME TypeOK, IsFiniteSet(metered), NEW r \in Request,
         local' = [local EXCEPT ![r].used = Usage]
  PROVE  /\ local' \in [Request -> Local]
         /\ \A q \in Request : local'[q].era = local[q].era /\ local'[q].basis = local[q].basis
                               /\ local'[q].stored = local[q].stored
<1> DEFINE new == [local[r] EXCEPT !.used = Usage]
<1>1. local' = [local EXCEPT ![r] = new]
  OBVIOUS
<1>2. Usage \in Nat
  BY FS_CardinalityType DEF Usage
<1>3. new \in Local /\ new.era = local[r].era /\ new.basis = local[r].basis
      /\ new.stored = local[r].stored
  <2>1. local[r] \in Local
    BY DEF TypeOK
  <2> HIDE DEF Usage
  <2> QED
    BY <1>2, <2>1, Zenon DEF Local
<1> HIDE DEF new
<1> QED
  BY <1>1, <1>3 DEF TypeOK

\* The requests that are checked and not counted, when one of them moves.
LEMMA PendingMoves ==
  ASSUME TypeOK, IsFiniteSet(Pending), NEW r \in Request, NEW s \in Step, Goto(r, s)
  PROVE  /\ IsFiniteSet(Pending') /\ Cardinality(Pending) \in Nat /\ Cardinality(Pending') \in Nat
         /\ Cardinality(Pending') <= Cardinality(Pending) + 1
         /\ s \notin {"insert", "publish", "record"} => Cardinality(Pending') <= Cardinality(Pending)
         /\ r \in Pending => Cardinality(Pending') <= Cardinality(Pending)
         /\ r \in Pending /\ s \notin {"insert", "publish", "record"}
            => Cardinality(Pending') = Cardinality(Pending) - 1
<1> DEFINE A == Pending
           B == Pending'
<1>1. B \subseteq A \union {r} /\ A \subseteq B \union {r}
  BY GotoType DEF Pending
<1>2. s \notin {"insert", "publish", "record"} => r \notin B
  BY GotoType DEF Pending
<1>3. IsFiniteSet(A)
  OBVIOUS
<1> HIDE DEF A, B
<1>4. IsFiniteSet(A \union {r}) /\ Cardinality(A \union {r}) \in Nat
      /\ Cardinality(A \union {r}) = IF r \in A THEN Cardinality(A) ELSE Cardinality(A) + 1
  BY <1>3, FS_AddElement, FS_CardinalityType
<1>5. IsFiniteSet(B) /\ Cardinality(B) <= Cardinality(A \union {r})
  BY <1>1, <1>4, FS_Subset
<1>6. Cardinality(A) \in Nat /\ Cardinality(B) \in Nat
  BY <1>3, <1>5, FS_CardinalityType
<1>7. Cardinality(B) <= Cardinality(A) + 1 /\ (r \in A => Cardinality(B) <= Cardinality(A))
  BY <1>4, <1>5, <1>6
<1>8. r \notin B => Cardinality(B) <= Cardinality(A) /\ (r \in A => Cardinality(B) = Cardinality(A) - 1)
  <2>1. r \notin B => B = A \ {r}
    BY <1>1
  <2>2. Cardinality(A \ {r}) = IF r \in A THEN Cardinality(A) - 1 ELSE Cardinality(A)
    BY <1>3, FS_RemoveElement
  <2> QED
    BY <1>6, <2>1, <2>2
<1> QED
  BY <1>2, <1>5, <1>6, <1>7, <1>8 DEF A, B

LEMMA UsageGrows ==
  ASSUME IsFiniteSet(metered), NEW r, metered' = metered \union {r}
  PROVE  IsFiniteSet(metered') /\ Usage \in Nat /\ Usage' \in Nat /\ Usage' <= Usage + 1
BY FS_AddElement, FS_CardinalityType DEF Usage

--------------------------------------------------------------------------
(* SendInv *)

\* A sendId stays settled while another request moves.
LEMMA SettledStays ==
  ASSUME SendInv, NEW r \in Request, NEW s \in Step, Goto(r, s), pc[r] # "accepted",
         \A q \in Request : q # r /\ q \in sends => q \in sends',
         metered \subseteq metered', NEW id \in Request, Settled(id)
  PROVE  Settled(id)'
BY GotoType DEF SendInv, Settled

\* A request that moves on has done what its next await says, and neither an
\* answer nor the record loses its send.
LEMMA MoveOK ==
  ASSUME SendInv, NEW r \in Request, NEW s \in Step, Goto(r, s), pc[r] # "accepted",
         UNCHANGED <<body, answer>>,
         idem' = idem \/ idem'.answer = None,
         \A q \in Request : q # r /\ q \in sends => q \in sends',
         published \subseteq published', metered \subseteq metered',
         s \in {"publish", "record", "invalidate", "store"} => r \in sends',
         s \in {"record", "invalidate", "store"} => r \in published',
         s \in {"invalidate", "store"} => r \in metered',
         s = "store" => body[r] # None
  PROVE  /\ IsFiniteSet(Pending')
         /\ \A q \in Request : DoneBy(q)'
         /\ AnswersSettled'
         /\ RecordSettled'
<1>0. IsFiniteSet(Pending')
  BY PendingMoves DEF SendInv
<1>1. \A q \in Request : DoneBy(q)'
  <2> SUFFICES ASSUME NEW q \in Request
               PROVE  DoneBy(q)'
    OBVIOUS
  <2>1. CASE q = r
    BY <2>1, GotoType DEF SendInv, DoneBy
  <2>2. CASE q # r
    BY <2>2, GotoType DEF SendInv, DoneBy
  <2> QED
    BY <2>1, <2>2
<1>2. AnswersSettled'
  BY SettledStays DEF SendInv, AnswersSettled, TypeOK
<1>3. RecordSettled'
  BY SettledStays DEF SendInv, RecordSettled, TypeOK, Record
<1> QED
  BY <1>0, <1>1, <1>2, <1>3

LEMMA ArriveSend ==
  ASSUME SendInv, NEW r \in Request, Reserve(r) \/ NoKey(r)
  PROVE  SendInv'
<1>1. CASE NoKey(r)
  <2>1. Goto(r, "usage") /\ pc[r] # "accepted"
        /\ UNCHANGED <<body, local, answer, idem, era, snapshot, sends, published, metered, history>>
    BY <1>1 DEF NoKey, MayArrive, redis, tables
  <2>2. TypeOK'
    BY <2>1, GotoType DEF SendInv, TypeOK, Step
  <2> QED
    BY <2>1, <2>2, MoveOK DEF SendInv, Step
<1>2. ASSUME NEW basis \in {"none", "reserved"}, NEW s \in {"usage", "lookup"},
             Note(r, basis), Goto(r, s), pc[r] # "accepted",
             idem' = idem \/ idem' = [body |-> body[r], answer |-> None],
             UNCHANGED <<body, answer, era, snapshot, sends, published, metered, history>>
      PROVE  SendInv'
  <2>1. body[r] \in Body \union {None}
    BY DEF SendInv, TypeOK
  <2>2. idem' \in Record /\ (idem'.body = None => idem'.answer = None)
    BY <1>2, <2>1 DEF SendInv, TypeOK, Record
  <2>3. TypeOK'
    BY <1>2, <2>2, GotoType, NoteType DEF SendInv, TypeOK, Step
  <2> QED
    BY <1>2, <2>3, MoveOK DEF SendInv, Step
<1> QED
  BY <1>1, <1>2 DEF Reserve, MayArrive, redis, tables

LEMMA LookupSend ==
  ASSUME SendInv, NEW r \in Request, Lookup(r)
  PROVE  SendInv'
<1>1. pc[r] = "lookup" /\ UNCHANGED <<body, idem, era, snapshot, sends, published, metered, history>>
  BY DEF Lookup, redis, tables
<1>2. ASSUME NEW basis \in {"expired", "pending"}, Miss(r, basis)
      PROVE  SendInv'
  <2>1. Goto(r, "usage") /\ answer' = answer
    BY <1>2 DEF Miss
  <2>2. TypeOK'
    BY <1>1, <1>2, <2>1, GotoType, MissType DEF SendInv, TypeOK, Step
  <2> QED
    BY <1>1, <2>1, <2>2, MoveOK DEF SendInv, Step
<1>3. CASE Goto(r, "conflict") /\ UNCHANGED <<local, answer>>
  <2>1. TypeOK'
    BY <1>1, <1>3, GotoType DEF SendInv, TypeOK, Step
  <2> QED
    BY <1>1, <1>3, <2>1, MoveOK DEF SendInv, Step
<1>4. CASE idem.body = body[r] /\ idem.answer # None /\ Answer(r, "replayed", idem.answer) /\ UNCHANGED local
  <2>1. idem.answer \in Request /\ Goto(r, "replayed")
    BY <1>4 DEF SendInv, TypeOK, Record, Answer
  <2>2. /\ pc' \in [Request -> Step] /\ pc'[r] = "replayed" /\ \A q \in Request : q # r => pc'[q] = pc[q]
        /\ answer' \in [Request -> Request \union {None}]
        /\ answer'[r] = idem.answer /\ \A q \in Request : q # r => answer'[q] = answer[q]
    BY <1>4, <2>1, AnswerType DEF SendInv, Step
  <2>3. TypeOK'
    BY <1>1, <1>4, <2>2 DEF SendInv, TypeOK
  <2>4. \A q \in Request : DoneBy(q)'
    BY <1>1, <2>2 DEF SendInv, DoneBy
  <2>5. \A id \in Request : Settled(id) => Settled(id)'
    BY <1>1, <2>2 DEF Settled
  <2>6. RecordSettled'
    BY <1>1, <2>1, <2>5 DEF SendInv, RecordSettled
  <2>7. AnswersSettled'
    <3> SUFFICES ASSUME NEW q \in Request, answer'[q] # None
                 PROVE  Settled(answer[q])' /\ body[answer'[q]] = body[q]
      BY <1>1 DEF AnswersSettled
    <3> DEFINE id == answer'[q]
    <3>1. id \in Request /\ Settled(id) /\ body[id] = body[q]
      <4>1. CASE q = r
        BY <1>4, <2>1, <2>2, <4>1 DEF SendInv, RecordSettled
      <4>2. CASE q # r
        BY <2>2, <4>2 DEF SendInv, AnswersSettled, TypeOK
      <4> QED
        BY <4>1, <4>2
    <3> QED
      BY <1>1, <2>2, <3>1 DEF Settled
  <2>8. IsFiniteSet(Pending')
    BY <2>1, PendingMoves DEF SendInv, Step
  <2> QED
    BY <1>1, <2>3, <2>4, <2>6, <2>7, <2>8 DEF SendInv
<1> QED
  BY <1>2, <1>3, <1>4 DEF Lookup

\* A granted check is noted in the history if it was behind further than any
\* before.
LEMMA DecideFacts ==
  ASSUME SendInv, NEW r \in Request, NEW used \in Nat, NEW limit, Decide(r, used, limit)
  PROVE  /\ history' \in [slack: Nat, lost: BOOLEAN]
         /\ history'.lost = history.lost
         /\ history'.slack >= history.slack
         /\ \/ /\ Goto(r, "insert") /\ Fits(used, limit)
               /\ history'.slack >= Usage + Cardinality(Pending) - used
            \/ Goto(r, "quota")
<1> DEFINE behind == Usage + Cardinality(Pending) - used
           slack == IF behind > history.slack THEN behind ELSE history.slack
<1>1. history \in [slack: Nat, lost: BOOLEAN] /\ history.slack \in Nat
  BY DEF SendInv, TypeOK
<1>2. behind \in Int
  BY FS_CardinalityType DEF SendInv, Usage
<1>3. CASE Goto(r, "quota") /\ UNCHANGED history
  BY <1>1, <1>3
<1>4. CASE Goto(r, "insert") /\ Fits(used, limit) /\ history' = [history EXCEPT !.slack = slack]
  <2>1. slack \in Nat /\ slack >= behind /\ slack >= history.slack
    <3> HIDE DEF behind
    <3> QED
      BY <1>1, <1>2
  <2>2. history' \in [slack: Nat, lost: BOOLEAN] /\ history'.lost = history.lost /\ history'.slack = slack
    <3> HIDE DEF slack
    <3> QED
      BY <1>1, <1>4, <2>1, Zenon
  <2> QED
    BY <1>4, <2>1, <2>2
<1> QED
  BY <1>3, <1>4 DEF Decide

LEMMA UsageSend ==
  ASSUME SendInv, NEW r \in Request,
         ReadSnapshot(r) \/ CountUsage(r) \/ FillSnapshot(r) \/ Reject(r)
  PROVE  SendInv'
<1>1. ASSUME NEW s \in {"count", "fill", "insert", "quota", "error"}, Goto(r, s), pc[r] # "accepted",
             snapshot' \in Snapshot, local' \in [Request -> Local],
             history' \in [slack: Nat, lost: BOOLEAN],
             UNCHANGED <<body, answer, idem, era, sends, published, metered>>
      PROVE  SendInv'
  <2>1. TypeOK'
    BY <1>1, GotoType DEF SendInv, TypeOK, Step
  <2> QED
    BY <1>1, <2>1, MoveOK DEF SendInv, Step
<1>2. CASE ReadSnapshot(r)
  <2>1. pc[r] # "accepted" /\ UNCHANGED <<body, local, answer, idem, era, snapshot, sends, published, metered>>
    BY <1>2 DEF ReadSnapshot, redis, tables
  <2>2. snapshot \in Snapshot /\ snapshot.used \in Nat
    BY DEF SendInv, TypeOK, Snapshot
  <2>3. CASE Decide(r, snapshot.used, snapshot.limit)
    BY <1>1, <2>1, <2>2, <2>3, DecideFacts DEF SendInv, TypeOK
  <2>4. CASE Goto(r, "count") /\ UNCHANGED history
    BY <1>1, <2>1, <2>2, <2>4 DEF SendInv, TypeOK
  <2> QED
    BY <1>2, <2>3, <2>4 DEF ReadSnapshot
<1>3. CASE CountUsage(r)
  <2>1. pc[r] # "accepted" /\ Goto(r, "fill")
        /\ UNCHANGED <<body, answer, idem, era, snapshot, sends, published, metered, history>>
    BY <1>3 DEF CountUsage, redis, tables
  <2>2. local' \in [Request -> Local]
    BY <1>3, CountType DEF CountUsage, SendInv
  <2> QED
    BY <1>1, <2>1, <2>2 DEF SendInv, TypeOK
<1>4. CASE FillSnapshot(r)
  <2> DEFINE used == local[r].used
  <2>1. pc[r] # "accepted" /\ UNCHANGED <<body, local, answer, idem, era, sends, published, metered>>
        /\ Decide(r, used, Limit)
    BY <1>4 DEF FillSnapshot, tables
  <2>2. used \in Nat
    BY DEF SendInv, TypeOK, Local
  <2>3. snapshot' \in Snapshot
    <3>1. Serialized(Limit) \in Nat
      BY TransactionalAssumption DEF Serialized
    <3> DEFINE late == used # Usage
               limit == Serialized(Limit)
               filled == [present |-> TRUE, used |-> used, limit |-> limit, late |-> late]
    <3>3. snapshot' = snapshot \/ snapshot' = filled
      BY <1>4 DEF FillSnapshot
    <3>4. late \in BOOLEAN
      OBVIOUS
    <3>5. filled \in Snapshot
      <4> HIDE DEF late, used, limit
      <4> QED
        BY <2>2, <3>1, <3>4 DEF Snapshot, limit
    <3> HIDE DEF filled
    <3> QED
      BY <3>3, <3>5 DEF SendInv, TypeOK
  <2> QED
    BY <1>1, <2>1, <2>2, <2>3, DecideFacts DEF SendInv, TypeOK
<1>5. CASE Reject(r)
  <2>1. pc[r] # "accepted" /\ Goto(r, "error")
        /\ UNCHANGED <<body, local, answer, idem, era, snapshot, sends, published, metered, history>>
    BY <1>5 DEF Reject, redis, tables
  <2> QED
    BY <1>1, <2>1 DEF SendInv, TypeOK
<1> QED
  BY <1>2, <1>3, <1>4, <1>5

LEMMA QueueSend ==
  ASSUME SendInv, NEW r \in Request, InsertSend(r) \/ Publish(r) \/ Rollback(r)
  PROVE  SendInv'
<1>1. pc[r] # "accepted" /\ UNCHANGED <<body, local, answer, idem, era, snapshot, metered, history>>
  BY DEF InsertSend, Publish, Rollback, redis
<1>2. PICK s \in {"publish", "record", "rollback", "error"} : Goto(r, s)
  BY DEF InsertSend, Publish, Rollback
<1>3. /\ sends' \subseteq Request /\ published' \subseteq Request /\ published \subseteq published'
      /\ \A q \in Request : q # r /\ q \in sends => q \in sends'
  BY DEF InsertSend, Publish, Rollback, SendInv, TypeOK
<1>4. pc'[r] = s
  BY <1>2, GotoType DEF SendInv, Step
<1>5. (s \in {"publish", "record"} => r \in sends') /\ (s = "record" => r \in published')
  BY <1>4 DEF InsertSend, Publish, Rollback, SendInv, DoneBy, Goto, TypeOK
<1>6. TypeOK'
  BY <1>1, <1>2, <1>3, GotoType DEF SendInv, TypeOK, Step
<1> QED
  BY <1>1, <1>2, <1>3, <1>5, <1>6, MoveOK DEF SendInv, Step

\* What only says that something was lost.
LEMMA LostType ==
  ASSUME history \in [slack: Nat, lost: BOOLEAN], NEW lost \in BOOLEAN,
         history' = [history EXCEPT !.lost = @ \/ lost]
  PROVE  /\ history' \in [slack: Nat, lost: BOOLEAN]
         /\ history'.slack = history.slack
         /\ history'.lost <=> (history.lost \/ lost)
BY Zenon

LEMMA MeterSend ==
  ASSUME SendInv, NEW r \in Request, RecordUsage(r)
  PROVE  SendInv'
<1>1. pc[r] = "record" /\ UNCHANGED <<body, local, answer, idem, era, snapshot, sends, published>>
  BY DEF RecordUsage, redis
<1>2. metered' = metered \/ metered' = metered \union {r}
  BY DEF RecordUsage
<1>3. PICK s \in {"invalidate", "error"} : Goto(r, s) /\ (s = "invalidate" => r \in metered')
  BY DEF RecordUsage
<1>4. r \in published /\ r \in sends
  BY <1>1 DEF SendInv, DoneBy
<1>5. history' \in [slack: Nat, lost: BOOLEAN]
  BY Zenon DEF RecordUsage, SendInv, TypeOK
<1>6. TypeOK' /\ IsFiniteSet(metered')
  BY <1>1, <1>2, <1>3, <1>4, <1>5, GotoType, UsageGrows DEF SendInv, TypeOK, Step
<1> QED
  BY <1>1, <1>2, <1>3, <1>4, <1>6, MoveOK DEF SendInv, Step

\* A request that is accepted has been queued and metered.
LEMMA AcceptOK ==
  ASSUME SendInv, NEW r \in Request, pc[r] \in {"invalidate", "store"}, Answer(r, "accepted", r),
         UNCHANGED <<body, sends, published, metered>>,
         idem' = idem \/ (idem'.answer = r /\ idem'.body = body[r])
  PROVE  /\ pc' \in [Request -> Step] /\ answer' \in [Request -> Request \union {None}]
         /\ IsFiniteSet(Pending')
         /\ \A q \in Request : DoneBy(q)'
         /\ AnswersSettled'
         /\ RecordSettled'
<1>1. /\ pc' \in [Request -> Step] /\ pc'[r] = "accepted" /\ \A q \in Request : q # r => pc'[q] = pc[q]
      /\ answer' \in [Request -> Request \union {None}]
      /\ answer'[r] = r /\ \A q \in Request : q # r => answer'[q] = answer[q]
  BY AnswerType DEF SendInv, Step
<1>2. IsFiniteSet(Pending')
  BY PendingMoves DEF SendInv, Step, Answer
<1>3. \A q \in Request : DoneBy(q)'
  BY <1>1 DEF SendInv, DoneBy
<1>4. \A id \in Request : Settled(id) => Settled(id)'
  BY <1>1 DEF Settled
<1>5. Settled(r)'
  BY <1>1 DEF SendInv, DoneBy, Settled
<1>6. RecordSettled'
  BY <1>4, <1>5 DEF SendInv, RecordSettled, TypeOK, Record
<1>7. AnswersSettled'
  <2> SUFFICES ASSUME NEW q \in Request, answer'[q] # None
               PROVE  Settled(answer[q])' /\ body[answer'[q]] = body[q]
    BY DEF AnswersSettled
  <2>1. CASE q = r
    BY <1>1, <1>5, <2>1
  <2>2. CASE q # r
    BY <1>1, <1>4, <2>2 DEF SendInv, AnswersSettled, TypeOK
  <2> QED
    BY <2>1, <2>2
<1> QED
  BY <1>1, <1>2, <1>3, <1>6, <1>7

LEMMA InvalidateSend ==
  ASSUME SendInv, NEW r \in Request, Invalidate(r)
  PROVE  SendInv'
<1>1. pc[r] = "invalidate" /\ UNCHANGED <<body, local, idem, era, sends, published, metered>>
  BY DEF Invalidate, tables
<1>2. r \in sends /\ r \in published /\ r \in metered
  BY <1>1 DEF SendInv, DoneBy
<1>3. history' \in [slack: Nat, lost: BOOLEAN]
  BY Zenon DEF Invalidate, SendInv, TypeOK
<1>4. snapshot' \in Snapshot
  <2>1. snapshot' = snapshot \/ snapshot' = NoSnapshot
    BY DEF Invalidate
  <2> QED
    BY <2>1, NoSnapshotType DEF SendInv, TypeOK
<1>5. CASE Goto(r, "store") /\ answer' = answer /\ body[r] # None
  <2>1. TypeOK'
    BY <1>1, <1>3, <1>4, <1>5, GotoType DEF SendInv, TypeOK, Step
  <2> QED
    BY <1>1, <1>2, <1>5, <2>1, MoveOK DEF SendInv, Step
<1>6. CASE Answer(r, "accepted", r)
  <2>1. TypeOK'
    BY <1>1, <1>3, <1>4, <1>6, AcceptOK DEF SendInv, TypeOK
  <2> QED
    BY <1>1, <1>6, <2>1, AcceptOK DEF SendInv
<1> QED
  BY <1>5, <1>6 DEF Invalidate, AfterRecord

LEMMA StoreSend ==
  ASSUME SendInv, NEW r \in Request, StoreResponse(r)
  PROVE  SendInv'
<1>1. pc[r] = "store" /\ UNCHANGED <<body, local, era, snapshot, sends, published, metered, history>>
      /\ Answer(r, "accepted", r)
      /\ (idem' = idem \/ idem' = [body |-> body[r], answer |-> r])
  BY DEF StoreResponse, tables
<1>2. body[r] \in Body /\ body[r] # None
  BY <1>1 DEF SendInv, DoneBy, TypeOK
<1>3. idem' \in Record /\ (idem'.body = None => idem'.answer = None)
  BY <1>1, <1>2 DEF SendInv, TypeOK, Record
<1>4. TypeOK'
  BY <1>1, <1>3, AcceptOK DEF SendInv, TypeOK
<1> QED
  BY <1>1, <1>4, AcceptOK DEF SendInv

LEMMA CrashSend ==
  ASSUME SendInv, NEW r \in Request, Crash(r)
  PROVE  SendInv'
<1>1. pc[r] # "accepted" /\ Goto(r, "crashed")
      /\ UNCHANGED <<body, local, answer, idem, era, snapshot, sends, published, metered>>
  BY DEF Crash, Over, redis, tables
<1>2. history' \in [slack: Nat, lost: BOOLEAN]
  <2>1. (pc[r] = "invalidate") \in BOOLEAN
    OBVIOUS
  <2> QED
    BY <2>1, LostType DEF Crash, SendInv, TypeOK
<1>3. TypeOK'
  BY <1>1, <1>2, GotoType DEF SendInv, TypeOK, Step
<1> QED
  BY <1>1, <1>3, MoveOK DEF SendInv, Step

LEMMA ExpirySend ==
  ASSUME SendInv, KeyExpires \/ SnapshotExpires
  PROVE  SendInv'
<1>1. UNCHANGED <<body, pc, local, answer, sends, published, metered, history>>
      /\ (idem' = idem \/ idem' = NoRecord)
  BY DEF KeyExpires, SnapshotExpires, tables
<1>2. TypeOK'
  <2>1. snapshot' = snapshot \/ snapshot' = NoSnapshot
    BY DEF KeyExpires, SnapshotExpires
  <2>2. era' \in 0 .. MaxExpiries
    BY TransactionalAssumption DEF KeyExpires, SnapshotExpires, SendInv, TypeOK
  <2>3. snapshot' \in Snapshot
    BY <2>1, NoSnapshotType DEF SendInv, TypeOK
  <2>4. idem' \in Record /\ (idem'.body = None => idem'.answer = None)
    BY <1>1 DEF SendInv, TypeOK, Record, NoRecord
  <2> QED
    BY <1>1, <2>2, <2>3, <2>4 DEF SendInv, TypeOK
<1>3. Pending' = Pending /\ \A r \in Request : DoneBy(r)'
  BY <1>1 DEF Pending, SendInv, DoneBy
<1>4. AnswersSettled' /\ RecordSettled'
  BY <1>1 DEF SendInv, AnswersSettled, RecordSettled, Settled, NoRecord
<1> QED
  BY <1>1, <1>2, <1>3, <1>4 DEF SendInv

LEMMA SendInvInit == Init => SendInv
<1> SUFFICES ASSUME Init PROVE SendInv
  OBVIOUS
<1>1. TypeOK
  BY TransactionalAssumption DEF Init, TypeOK, Step, Local, Record, NoRecord, Snapshot, NoSnapshot
<1>2. IsFiniteSet(metered) /\ IsFiniteSet(Pending)
  BY FS_EmptySet DEF Init, Pending
<1> QED
  BY <1>1, <1>2 DEF Init, SendInv, DoneBy, AnswersSettled, RecordSettled, NoRecord

LEMMA SendInvStep == SendInv /\ [Next]_vars => SendInv'
<1> SUFFICES ASSUME SendInv, [Next]_vars
             PROVE  SendInv'
  OBVIOUS
<1>1. CASE UNCHANGED vars
  <2>1. TypeOK' /\ Pending' = Pending /\ metered' = metered
    BY <1>1 DEF vars, SendInv, TypeOK, Pending
  <2>2. (\A r \in Request : DoneBy(r)') /\ AnswersSettled' /\ RecordSettled'
    BY <1>1 DEF vars, SendInv, DoneBy, AnswersSettled, RecordSettled, Settled
  <2> QED
    BY <2>1, <2>2 DEF SendInv
<1>2. ASSUME NEW r \in Request, Handle(r)
      PROVE  SendInv'
  BY <1>2, ArriveSend, LookupSend, UsageSend, QueueSend, MeterSend, InvalidateSend, StoreSend DEF Handle
<1>3. ASSUME NEW r \in Request, Crash(r)
      PROVE  SendInv'
  BY <1>3, CrashSend
<1> QED
  BY <1>1, <1>2, <1>3, ExpirySend DEF Next

\* The first part of the inductive invariant holds in every state.
THEOREM SendInvariant == Spec => []SendInv
<1> QED
  BY SendInvInit, SendInvStep, PTL DEF Spec

\* The requests, the records in Redis, the tables and the stream keep their
\* shape; only sends whose job is in the stream are metered.
THEOREM TypeCorrect == Spec => []TypeOK
<1>1. SendInv => TypeOK
  BY DEF SendInv
<1> QED
  BY <1>1, SendInvariant, PTL

\* Whoever is answered 202, directly or by replay, gets the id of a send with
\* the body of the request whose row is there, whose job is queued and which
\* is metered, whatever fails before and after.
THEOREM AcceptedIsRealHolds == Spec => []AcceptedIsReal
<1>1. SendInv => AcceptedIsReal
  BY TransactionalAssumption DEF SendInv, AcceptedIsReal, AnswersSettled, RecordSettled, Settled
<1> QED
  BY <1>1, SendInvariant, PTL

--------------------------------------------------------------------------
(* KeyInv *)

\* Steps that look nothing up, and leave the record or store an answer in it.
LEMMA KeyFrame ==
  ASSUME KeyInv, UNCHANGED <<body, era>>, idem' = idem \/ idem'.answer # None,
         \A q \in Request : local'[q].era = local[q].era /\ local'[q].basis = local[q].basis
                            /\ local'[q].stored = local[q].stored,
         \A q \in Request : pc'[q] = "lookup" => pc[q] = "lookup"
  PROVE  KeyInv'
<1>1. \A q \in Request : Sender(q)' <=> Sender(q)
  BY DEF Sender
<1>2. \A q \in Request : FoundBy(q)'
  BY <1>1 DEF KeyInv, FoundBy
<1>3. OneBody'
  BY <1>1 DEF KeyInv, OneBody
<1> QED
  BY <1>2, <1>3 DEF KeyInv

\* A request that begins to send finds the record free, or with its own body
\* and no answer: so it agrees with whoever sends in this life of the key.
LEMMA SenderOK ==
  ASSUME SendInv, KeyInv, NEW r \in Request, UNCHANGED <<body, era>>,
         local'[r].era = era, \A q \in Request : q # r => local'[q] = local[q],
         \A q \in Request : q # r => pc'[q] = pc[q],
         pc'[r] = "lookup" /\ local'[r].stored => idem'.answer # None,
         idem' # idem => idem.answer = None /\ idem.body = None,
         Sender(r)' => /\ ~ local'[r].stored
                       /\ idem.answer = None /\ idem'.answer = None
                       /\ idem'.body = body[r]
                       /\ idem.body \in {None, body[r]}
  PROVE  KeyInv'
<1>1. \A q \in Request : q # r => (Sender(q)' <=> Sender(q))
  BY DEF Sender
<1>2. \A q \in Request : q # r /\ Sender(q) /\ idem' # idem => local[q].era # era
  BY DEF KeyInv, FoundBy, Sender
<1>3. era \in Nat
  BY TransactionalAssumption DEF SendInv, TypeOK
<1>4. ASSUME NEW q \in Request
      PROVE  FoundBy(q)'
  <2>1. CASE q = r
    BY <1>3, <2>1 DEF FoundBy
  <2>2. CASE q # r
    BY <1>1, <1>2, <2>2 DEF KeyInv, FoundBy
  <2> QED
    BY <2>1, <2>2
<1>5. ASSUME NEW q \in Request, q # r, Sender(q), Sender(r)', local[q].era = era
      PROVE  body[q] = body[r]
  BY <1>5 DEF KeyInv, FoundBy, Sender
<1>6. OneBody'
  <2> SUFFICES ASSUME NEW p \in Request, NEW q \in Request,
                      Sender(p)', Sender(q)', local'[p].era = local'[q].era
               PROVE  body[p] = body[q]
    BY DEF OneBody
  <2> QED
    BY <1>1, <1>5 DEF KeyInv, OneBody
<1> QED
  BY <1>4, <1>6 DEF KeyInv

LEMMA ReserveKey ==
  ASSUME SendInv, KeyInv, NEW r \in Request, Reserve(r)
  PROVE  KeyInv'
<1>1. UNCHANGED <<body, era>>
  BY DEF Reserve
<1>2. CASE idem = NoRecord /\ idem' = [body |-> body[r], answer |-> None] /\ Note(r, "reserved") /\ Goto(r, "usage")
  BY <1>1, <1>2, SenderOK, NoteType, GotoType DEF SendInv, NoRecord, Step
<1>3. CASE Note(r, "none") /\ Goto(r, "lookup") /\ UNCHANGED idem
  <2>1. ~ Sender(r)'
    BY <1>3, NoteType DEF SendInv, Sender
  <2> QED
    BY <1>1, <1>3, <2>1, SenderOK, NoteType, GotoType DEF SendInv, Step
<1> QED
  BY <1>2, <1>3 DEF Reserve

LEMMA LookupKey ==
  ASSUME SendInv, KeyInv, NEW r \in Request, Lookup(r)
  PROVE  KeyInv'
<1>1. pc[r] = "lookup" /\ UNCHANGED <<body, idem, era>>
  BY DEF Lookup, redis
<1>2. CASE Miss(r, "expired")
  <2>1. Goto(r, "usage") /\ ~ Sender(r)'
    BY <1>2, MissType DEF Miss, SendInv, Sender
  <2> QED
    BY <1>1, <1>2, <2>1, SenderOK, MissType, GotoType DEF SendInv, Step
<1>3. CASE idem.body = body[r] /\ idem.answer = None /\ Miss(r, "pending")
  <2>1. Goto(r, "usage")
    BY <1>3 DEF Miss
  <2>2. ~ local'[r].stored
    BY <1>1, <1>3, MissType DEF SendInv, KeyInv, FoundBy
  <2> QED
    BY <1>1, <1>3, <2>1, <2>2, SenderOK, MissType, GotoType DEF SendInv, Step
<1>4. CASE UNCHANGED local /\ \E s \in {"conflict", "replayed"} : Goto(r, s)
  BY <1>1, <1>4, KeyFrame, GotoType DEF SendInv, Step
<1> QED
  BY <1>2, <1>3, <1>4 DEF Lookup, Answer

LEMMA ExpiryKey ==
  ASSUME SendInv, KeyInv, KeyExpires
  PROVE  KeyInv'
<1>1. UNCHANGED <<body, pc, local>> /\ era' = era + 1 /\ era \in Nat
  BY TransactionalAssumption DEF KeyExpires, SendInv, TypeOK
<1>2. \A q \in Request : Sender(q)' <=> Sender(q)
  BY <1>1 DEF Sender
<1>3. ASSUME NEW q \in Request
      PROVE  FoundBy(q)'
  <2>1. local[q].era \in Nat /\ local[q].era <= era
    BY DEF SendInv, TypeOK, Local, KeyInv, FoundBy
  <2> QED
    BY <1>1, <1>2, <2>1 DEF KeyInv, FoundBy
<1> QED
  BY <1>1, <1>2, <1>3 DEF KeyInv, OneBody

LEMMA KeyInvStep == SendInv /\ KeyInv /\ [Next]_vars => KeyInv'
<1> SUFFICES ASSUME SendInv, KeyInv, [Next]_vars
             PROVE  KeyInv'
  OBVIOUS
<1>1. ASSUME NEW r \in Request, NEW s \in Step \ {"lookup"}, Goto(r, s),
             UNCHANGED <<body, era>>, idem' = idem \/ idem'.answer # None,
             local' = local \/ local' = [local EXCEPT ![r].used = Usage]
      PROVE  KeyInv'
  BY <1>1, KeyFrame, GotoType, CountType DEF SendInv
<1>2. ASSUME NEW r \in Request, Handle(r)
      PROVE  KeyInv'
  <2>1. CASE Reserve(r) \/ Lookup(r)
    BY <2>1, ReserveKey, LookupKey
  <2>2. CASE NoKey(r)
    BY <1>1, <2>2 DEF NoKey, redis, Step
  <2>3. CASE ReadSnapshot(r)
    BY <1>1, <2>3 DEF ReadSnapshot, Decide, redis, Step
  <2>4. CASE CountUsage(r)
    BY <1>1, <2>4 DEF CountUsage, redis, Step
  <2>5. CASE FillSnapshot(r)
    BY <1>1, <2>5 DEF FillSnapshot, Decide, Step
  <2>6. CASE Reject(r) \/ InsertSend(r)
    BY <1>1, <2>6 DEF Reject, InsertSend, redis, Step
  <2>7. CASE Publish(r) \/ Rollback(r)
    BY <1>1, <2>7 DEF Publish, Rollback, redis, Step
  <2>8. CASE RecordUsage(r)
    BY <1>1, <2>8 DEF RecordUsage, redis, Step
  <2>9. CASE Invalidate(r)
    BY <1>1, <2>9 DEF Invalidate, AfterRecord, Answer, Step
  <2>10. CASE StoreResponse(r)
    BY <1>1, <2>10, TransactionalAssumption DEF StoreResponse, Answer, Step
  <2> QED
    BY <1>2, <2>1, <2>2, <2>3, <2>4, <2>5, <2>6, <2>7, <2>8, <2>9, <2>10 DEF Handle
<1>3. ASSUME NEW r \in Request, Crash(r)
      PROVE  KeyInv'
  BY <1>1, <1>3 DEF Crash, redis, Step
<1>4. CASE SnapshotExpires \/ UNCHANGED vars
  BY <1>4, KeyFrame DEF SnapshotExpires, vars
<1> QED
  BY <1>2, <1>3, <1>4, ExpiryKey DEF Next

\* The second part of the inductive invariant holds in every state.
THEOREM KeyInvariant == Spec => []KeyInv
<1>1. Init => KeyInv
  BY TransactionalAssumption DEF Init, KeyInv, FoundBy, OneBody, Sender
<1> QED
  BY <1>1, KeyInvStep, SendInvariant, PTL DEF Spec

\* A retry that arrives when the answer is stored is never queued again.
THEOREM NoRequeueHolds == Spec => []NoRequeue
<1>1. KeyInv => NoRequeue
  BY DEF KeyInv, FoundBy, NoRequeue
<1> QED
  BY <1>1, KeyInvariant, PTL

\* During one life of the key, everything sent under it has one body, also
\* when an answer of an earlier life is stored in it.
THEOREM OneBodyHolds == Spec => []OneBody
<1>1. KeyInv => OneBody
  BY DEF KeyInv
<1> QED
  BY <1>1, KeyInvariant, PTL

--------------------------------------------------------------------------
(* UsageInv *)

LEMMA UsageType ==
  ASSUME SendInv
  PROVE  Usage \in Nat /\ Cardinality(Pending) \in Nat /\ history.slack \in Nat
BY FS_CardinalityType DEF SendInv, TypeOK, Usage

\* The bound holds if the counts did not grow.
LEMMA BoundFrame ==
  ASSUME SendInv, QuotaBound, SendInv',
         Usage' + Cardinality(Pending') <= Usage + Cardinality(Pending),
         history'.slack >= history.slack
  PROVE  QuotaBound'
<1>1. /\ Usage \in Nat /\ Cardinality(Pending) \in Nat /\ history.slack \in Nat
      /\ Usage' \in Nat /\ Cardinality(Pending') \in Nat /\ history'.slack \in Nat
  BY UsageType, FS_CardinalityType DEF SendInv, TypeOK, Usage
<1>2. Limit # Infinity => Limit \in Nat
  BY TransactionalAssumption
<1> QED
  BY <1>1, <1>2 DEF QuotaBound

\* A granted check raises the count by one, and what it was behind is noted.
LEMMA BoundGrant ==
  ASSUME SendInv, QuotaBound, SendInv', NEW r \in Request, NEW used \in Nat, NEW limit,
         Decide(r, used, limit), metered' = metered, Limit # Infinity => limit = Limit
  PROVE  QuotaBound' /\ history'.lost = history.lost
<1>1. history'.lost = history.lost /\ history'.slack >= history.slack
  BY DecideFacts
<1>2. /\ Usage \in Nat /\ Cardinality(Pending) \in Nat
      /\ Cardinality(Pending') \in Nat /\ history'.slack \in Nat
      /\ Usage' = Usage
  BY UsageType, FS_CardinalityType DEF SendInv, TypeOK, Usage
<1>3. CASE Goto(r, "quota")
  BY <1>1, <1>2, <1>3, PendingMoves, BoundFrame DEF SendInv, Step
<1>4. CASE /\ Goto(r, "insert") /\ Fits(used, limit)
           /\ history'.slack >= Usage + Cardinality(Pending) - used
  <2>1. Cardinality(Pending') <= Cardinality(Pending) + 1
    BY <1>4, PendingMoves DEF SendInv, Step
  <2>2. Limit # Infinity => Limit \in Nat /\ used + 1 <= Limit
    BY <1>4, TransactionalAssumption DEF Fits
  <2>3. Limit # Infinity => Usage' + Cardinality(Pending') <= Limit + history'.slack
    BY <1>2, <1>4, <2>1, <2>2
  <2> QED
    BY <1>1, <2>3 DEF QuotaBound
<1> QED
  BY <1>1, <1>3, <1>4, DecideFacts

\* A request that moves on without being counted.
LEMMA BoundMove ==
  ASSUME SendInv, QuotaBound, SendInv', NEW r \in Request, NEW s \in Step, Goto(r, s),
         r \in Pending \/ s \notin {"insert", "publish", "record"},
         metered' = metered, history'.slack = history.slack
  PROVE  QuotaBound'
<1>1. Cardinality(Pending') <= Cardinality(Pending) /\ Usage' = Usage
  BY PendingMoves DEF SendInv, Usage
<1>2. Usage \in Nat /\ Cardinality(Pending) \in Nat /\ Cardinality(Pending') \in Nat /\ history.slack \in Nat
  BY UsageType, FS_CardinalityType DEF SendInv
<1> QED
  BY <1>1, <1>2, BoundFrame

\* A snapshot that did not change stays as fresh as it was.
LEMMA FreshFrame ==
  ASSUME SnapshotFresh, snapshot' = snapshot \/ snapshot' = NoSnapshot, metered' = metered,
         history.lost => history'.lost,
         \A q \in Request : pc[q] = "invalidate" =>
           pc'[q] = "invalidate" \/ snapshot' = NoSnapshot \/ history'.lost
  PROVE  SnapshotFresh'
<1>1. CASE snapshot' = NoSnapshot
  BY <1>1 DEF SnapshotFresh, NoSnapshot
<1>2. CASE snapshot' = snapshot
  BY <1>2 DEF SnapshotFresh, Usage, NoSnapshot
<1> QED
  BY <1>1, <1>2

LEMMA LimitFrame ==
  ASSUME LimitCached, snapshot' = snapshot \/ snapshot' = NoSnapshot
  PROVE  LimitCached'
BY DEF LimitCached, NoSnapshot

LEMMA ReadUsage ==
  ASSUME SendInv, UsageInv, SendInv', NEW r \in Request, ReadSnapshot(r)
  PROVE  UsageInv'
<1>1. pc[r] = "usage" /\ snapshot' = snapshot /\ metered' = metered
  BY DEF ReadSnapshot, redis, tables
<1>2. LimitCached'
  BY <1>1, LimitFrame DEF UsageInv
<1>3. CASE snapshot.present /\ Decide(r, snapshot.used, snapshot.limit)
  <2>1. snapshot.used \in Nat /\ (Limit # Infinity => snapshot.limit = Limit)
    BY <1>3 DEF SendInv, TypeOK, Snapshot, UsageInv, LimitCached
  <2>2. QuotaBound' /\ history'.lost = history.lost
    BY <1>1, <1>3, <2>1, BoundGrant DEF UsageInv
  <2>3. \A q \in Request : q # r => pc'[q] = pc[q]
    BY <1>3, GotoType DEF Decide, SendInv, Step
  <2> QED
    BY <1>1, <1>2, <2>2, <2>3, FreshFrame DEF UsageInv
<1>4. CASE Goto(r, "count") /\ UNCHANGED history
  <2>1. QuotaBound'
    BY <1>1, <1>4, BoundMove DEF UsageInv, Step
  <2>2. \A q \in Request : q # r => pc'[q] = pc[q]
    BY <1>4, GotoType DEF SendInv, Step
  <2> QED
    BY <1>1, <1>2, <1>4, <2>1, <2>2, FreshFrame DEF UsageInv
<1> QED
  BY <1>3, <1>4 DEF ReadSnapshot

LEMMA FillUsage ==
  ASSUME SendInv, UsageInv, SendInv', NEW r \in Request, FillSnapshot(r)
  PROVE  UsageInv'
<1> DEFINE used == local[r].used
           filled == [present |-> TRUE, used |-> used, limit |-> Serialized(Limit), late |-> used # Usage]
<1>1. pc[r] = "fill" /\ metered' = metered /\ Decide(r, used, Limit) /\ used \in Nat
      /\ (snapshot' = snapshot \/ snapshot' = filled)
  BY DEF FillSnapshot, tables, SendInv, TypeOK, Local
<1>2. QuotaBound' /\ history'.lost = history.lost
  BY <1>1, BoundGrant DEF UsageInv
<1>3. \A q \in Request : q # r => pc'[q] = pc[q]
  BY <1>1, GotoType DEF Decide, SendInv, Step
<1>4. CASE snapshot' = snapshot
  BY <1>1, <1>2, <1>3, <1>4, FreshFrame, LimitFrame DEF UsageInv
<1>5. CASE snapshot' = filled
  <2>1. LimitCached'
    BY <1>5 DEF LimitCached, Serialized
  <2>2. SnapshotFresh'
    BY <1>1, <1>5 DEF SnapshotFresh, Usage
  <2> QED
    BY <1>2, <2>1, <2>2 DEF UsageInv
<1> QED
  BY <1>1, <1>4, <1>5

\* Counting takes the request out of those that are still to be counted; the
\* snapshot is deleted next, or its deletion is lost.
LEMMA RecordUsageStep ==
  ASSUME SendInv, UsageInv, SendInv', NEW r \in Request, RecordUsage(r)
  PROVE  UsageInv'
<1>1. pc[r] = "record" /\ snapshot' = snapshot
      /\ (metered' = metered \/ metered' = metered \union {r})
  BY DEF RecordUsage, redis
<1>2. PICK s \in {"invalidate", "error"} : Goto(r, s)
  BY DEF RecordUsage
<1>3. r \in Pending
  BY <1>1 DEF Pending
<1>4. history'.slack = history.slack /\ (history.lost => history'.lost)
      /\ (metered' # metered => s = "invalidate" \/ history'.lost)
  <2>1. history \in [slack: Nat, lost: BOOLEAN]
    BY DEF SendInv, TypeOK
  <2>2. CASE Goto(r, "invalidate") /\ UNCHANGED history
    BY <1>2, <2>2, GotoType DEF SendInv, Step
  <2>3. CASE UNCHANGED <<metered, history>>
    BY <2>3
  <2>4. CASE history' = [history EXCEPT !.lost = TRUE]
    BY <2>1, <2>4
  <2> QED
    BY <2>2, <2>3, <2>4 DEF RecordUsage
<1>5. QuotaBound'
  <2>1. Usage \in Nat /\ Usage' \in Nat /\ Usage' <= Usage + 1
    BY <1>1, UsageType, UsageGrows DEF SendInv, Usage
  <2>2. Cardinality(Pending') = Cardinality(Pending) - 1 /\ Cardinality(Pending) \in Nat
    BY <1>2, <1>3, PendingMoves DEF SendInv, Step
  <2>3. history.slack \in Nat
    BY UsageType
  <2>4. Usage' + Cardinality(Pending') <= Usage + Cardinality(Pending)
    BY <2>1, <2>2
  <2> QED
    BY <1>4, <2>3, <2>4, BoundFrame DEF UsageInv
<1>6. pc'[r] = s /\ \A q \in Request : q # r => pc'[q] = pc[q]
  BY <1>2, GotoType DEF SendInv, Step
<1>7. SnapshotFresh'
  BY <1>1, <1>4, <1>6 DEF SnapshotFresh, UsageInv, Usage
<1> QED
  BY <1>1, <1>5, <1>7, LimitFrame DEF UsageInv

\* The steps that neither count nor check.
LEMMA MoveUsage ==
  ASSUME SendInv, UsageInv, SendInv', NEW r \in Request, NEW s \in Step, Goto(r, s),
         r \in Pending \/ s \notin {"insert", "publish", "record"},
         UNCHANGED metered, snapshot' = snapshot \/ snapshot' = NoSnapshot,
         history'.slack = history.slack, history.lost => history'.lost,
         pc[r] = "invalidate" => snapshot' = NoSnapshot \/ history'.lost
  PROVE  UsageInv'
<1>1. QuotaBound'
  BY BoundMove DEF UsageInv
<1>2. \A q \in Request : q # r => pc'[q] = pc[q]
  BY GotoType DEF SendInv
<1>3. SnapshotFresh'
  BY <1>2, FreshFrame DEF UsageInv
<1> QED
  BY <1>1, <1>3, LimitFrame DEF UsageInv

LEMMA InvalidateUsage ==
  ASSUME SendInv, UsageInv, SendInv', NEW r \in Request, Invalidate(r)
  PROVE  UsageInv'
<1>1. metered' = metered
  BY DEF Invalidate, tables
<1>2. PICK s \in {"accepted", "store"} : Goto(r, s)
  BY DEF Invalidate, AfterRecord, Answer
<1>3. CASE snapshot' = NoSnapshot /\ UNCHANGED history
  BY <1>1, <1>2, <1>3, MoveUsage DEF Step
<1>4. CASE history' = [history EXCEPT !.lost = TRUE] /\ UNCHANGED snapshot
  <2>1. history'.lost /\ history'.slack = history.slack
    BY <1>4 DEF SendInv, TypeOK
  <2> QED
    BY <1>1, <1>2, <1>4, <2>1, MoveUsage DEF Step
<1> QED
  BY <1>3, <1>4 DEF Invalidate

LEMMA CrashUsage ==
  ASSUME SendInv, UsageInv, SendInv', NEW r \in Request, Crash(r)
  PROVE  UsageInv'
<1> DEFINE lost == pc[r] = "invalidate"
<1>1. Goto(r, "crashed") /\ UNCHANGED <<metered, snapshot>>
      /\ history' = [history EXCEPT !.lost = @ \/ lost]
  BY DEF Crash, redis, tables
<1>2. lost \in BOOLEAN
  OBVIOUS
<1>3. history'.slack = history.slack /\ (history'.lost <=> (history.lost \/ lost))
  <2> HIDE DEF lost
  <2> QED
    BY <1>1, <1>2, LostType DEF SendInv, TypeOK
<1> QED
  BY <1>1, <1>3, MoveUsage DEF Step

LEMMA UsageInvStep == SendInv /\ UsageInv /\ SendInv' /\ [Next]_vars => UsageInv'
<1> SUFFICES ASSUME SendInv, UsageInv, SendInv', [Next]_vars
             PROVE  UsageInv'
  OBVIOUS
<1>1. ASSUME NEW r \in Request, Handle(r)
      PROVE  UsageInv'
  <2>1. CASE Reserve(r) \/ NoKey(r) \/ Lookup(r)
    <3>1. /\ pc[r] \in {"new", "lookup"} /\ UNCHANGED <<snapshot, metered, history>>
          /\ \E s \in {"usage", "lookup", "conflict", "replayed"} : Goto(r, s)
      BY <2>1 DEF Reserve, NoKey, Lookup, MayArrive, Miss, Answer, redis, tables
    <3> QED
      BY <3>1, MoveUsage DEF Step
  <2>2. CASE CountUsage(r) \/ Reject(r) \/ StoreResponse(r)
    <3>1. /\ pc[r] # "invalidate" /\ UNCHANGED <<snapshot, metered, history>>
          /\ \E s \in {"fill", "error", "accepted"} : Goto(r, s)
      BY <2>2 DEF CountUsage, Reject, StoreResponse, Answer, redis, tables
    <3> QED
      BY <3>1, MoveUsage DEF Step
  <2>3. CASE InsertSend(r) \/ Publish(r)
    <3>1. /\ pc[r] \in {"insert", "publish"} /\ UNCHANGED <<snapshot, metered, history>>
          /\ \E s \in {"publish", "record", "rollback"} : Goto(r, s)
      BY <2>3 DEF InsertSend, Publish, redis
    <3>2. r \in Pending
      BY <3>1 DEF Pending
    <3> QED
      BY <3>1, <3>2, MoveUsage DEF Step
  <2>4. CASE Rollback(r)
    BY <2>4, MoveUsage DEF Rollback, redis, Step
  <2> QED
    BY <1>1, <2>1, <2>2, <2>3, <2>4, ReadUsage, FillUsage, RecordUsageStep, InvalidateUsage DEF Handle
<1>2. ASSUME NEW r \in Request, Crash(r)
      PROVE  UsageInv'
  BY <1>2, CrashUsage
<1>3. CASE KeyExpires \/ SnapshotExpires \/ UNCHANGED vars
  <2>1. UNCHANGED <<pc, metered, history>> /\ (snapshot' = snapshot \/ snapshot' = NoSnapshot)
    BY <1>3 DEF KeyExpires, SnapshotExpires, tables, vars
  <2>2. QuotaBound'
    BY <2>1 DEF UsageInv, QuotaBound, Usage, Pending
  <2> QED
    BY <2>1, <2>2, LimitFrame, FreshFrame DEF UsageInv
<1> QED
  BY <1>1, <1>2, <1>3 DEF Next

LEMMA UsageInvInit == Init => UsageInv
<1> SUFFICES ASSUME Init PROVE UsageInv
  OBVIOUS
<1>1. Cardinality(metered) = 0 /\ Cardinality(Pending) = 0
  <2>1. metered = {} /\ Pending = {}
    BY DEF Init, Pending
  <2> QED
    BY <2>1, FS_EmptySet
<1>2. Limit # Infinity => Limit \in Nat
  BY TransactionalAssumption
<1> QED
  BY <1>1, <1>2 DEF Init, UsageInv, LimitCached, SnapshotFresh, QuotaBound, Usage, NoSnapshot

\* The third part of the inductive invariant holds in every state.
THEOREM UsageInvariant == Spec => []UsageInv
<1> QED
  BY UsageInvInit, UsageInvStep, SendInvariant, PTL DEF Spec

\* The cached usage is the counter, unless its deletion is on the way or was
\* lost, or the reader that wrote it had counted before an increment.
THEOREM SnapshotFreshHolds == Spec => []SnapshotFresh
<1>1. UsageInv => SnapshotFresh
  BY DEF UsageInv
<1> QED
  BY <1>1, UsageInvariant, PTL

\* However many requests check the quota at once, usage outgrows the limit by
\* no more than a granted check was behind.
THEOREM QuotaBoundHolds == Spec => []QuotaBound
<1>1. UsageInv => QuotaBound
  BY DEF UsageInv
<1> QED
  BY <1>1, UsageInvariant, PTL
============================================================================
