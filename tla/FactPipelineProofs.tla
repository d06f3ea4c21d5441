---------------------------- MODULE FactPipelineProofs ----------------------
(***************************************************************************)
(* The Fact pipeline is correct for every number of Turns, every log       *)
(* length and every number of faults and crashes.                          *)
(*                                                                         *)
(* The proof is about two logs.  The Store holds one; the process believes *)
(* in another, View: the first durableSeq stored Facts followed by its     *)
(* pending suffix.  Both are good logs, they agree up to durableSeq, and   *)
(* what the process keeps of a Turn is what its View says of the Turn.     *)
(* Beyond durableSeq the Store may know more than the process: a committed *)
(* batch whose acknowledgement was lost, or a Turn or a next Step that was *)
(* never installed.  The compare-and-append keeps the two from diverging,  *)
(* and a Session that is loaded again starts from what the Store knows.    *)
(***************************************************************************)
EXTENDS FactPipeline, QueueProofs

-----------------------------------------------------------------------------
(* Logs.                                                                    *)

(* The durable prefix of the Store with the pending suffix.                  *)
View ==
  [n \in 1..(durableSeq + Len(pending)) |->
     IF n <= durableSeq THEN stored[n] ELSE pending[n - durableSeq]]

Opens(L, i, t) == L[i].turn = t /\ L[i].body = "Accepted"

Numbered(L) == \A i \in DOMAIN L : L[i].seq = i
Opened(L)   == \A i \in DOMAIN L : \E j \in 1..i : Opens(L, j, L[i].turn)

WellEnded(L) ==
  \A i, j \in DOMAIN L : (i < j /\ L[i].turn = L[j].turn) =>
    /\ ~IsTerminal(L[i])
    /\ L[j].body # "Accepted"
    /\ L[i].body = "CancelRequested" => L[j].body # "CancelRequested"

WellCancelled(L) ==
  \A i \in DOMAIN L : IsTerminal(L[i]) =>
    (L[i].body = "Cancelled" <=>
       \E j \in 1..(i - 1) : L[j].turn = L[i].turn /\ L[j].body = "CancelRequested")

(* Executor Facts and terminals of a Turn follow the end of every Turn       *)
(* accepted before it.                                                       *)
InTurn(L) ==
  \A i \in DOMAIN L : L[i].body \notin {"Accepted", "CancelRequested"} =>
    \A j, a \in DOMAIN L : (j < a /\ Opens(L, a, L[i].turn) /\ L[j].body = "Accepted") =>
      \E k \in 1..(i - 1) : L[k].turn = L[j].turn /\ IsTerminal(L[k])

(* A started effect has its intent before it.                                *)
Fenced(L) ==
  \A i \in DOMAIN L : L[i].body = "Started" =>
    \E j \in 1..(i - 1) : L[j].turn = L[i].turn /\ L[j].body = "Intent"

GoodLog(L) ==
  Numbered(L) /\ Opened(L) /\ WellEnded(L) /\ WellCancelled(L) /\ InTurn(L) /\ Fenced(L)

(* Every Turn accepted before t has ended.                                   *)
RunsNow(L, t) ==
  \A j, a \in DOMAIN L : (j < a /\ Opens(L, a, t) /\ L[j].body = "Accepted") =>
    Ended(L, L[j].turn)

(* A Fact that may be added to a good log.                                   *)
Fit(L, f) ==
  /\ f \in Facts /\ f.seq = Len(L) + 1
  /\ f.body = "Accepted" => ~Has(L, f.turn, "Accepted")
  /\ f.body # "Accepted" => Has(L, f.turn, "Accepted") /\ ~Ended(L, f.turn)
  /\ f.body = "CancelRequested" => ~Has(L, f.turn, "CancelRequested")
  /\ f.body \notin {"Accepted", "CancelRequested"} => RunsNow(L, f.turn)
  /\ IsTerminal(f) => (f.body = "Cancelled" <=> Has(L, f.turn, "CancelRequested"))
  /\ f.body = "Started" => Has(L, f.turn, "Intent")

(* M is L with one more Fact.                                                *)
Grows(L, M, f) ==
  /\ M \in Seq(Facts) /\ Len(M) = Len(L) + 1 /\ M[Len(L) + 1] = f
  /\ \A i \in 1..Len(L) : M[i] = L[i]

(* P is a first part of L.                                                   *)
Prefix(P, L) ==
  /\ P \in Seq(Facts) /\ Len(P) <= Len(L)
  /\ \A i \in 1..Len(P) : P[i] = L[i]

-----------------------------------------------------------------------------
(* What adding a Fact to a log, or cutting it short, does.                  *)

LEMMA GrowthTells ==
    ASSUME NEW L \in Seq(Facts), NEW M, NEW f, Grows(L, M, f)
    PROVE  /\ \A t, b : Has(M, t, b) <=> Has(L, t, b) \/ (f.turn = t /\ f.body = b)
           /\ \A t : Ended(M, t) <=> Ended(L, t) \/ (f.turn = t /\ IsTerminal(f))
  <1>1. /\ DOMAIN L = 1..Len(L) /\ DOMAIN M = 1..(Len(L) + 1) /\ Len(L) \in Nat
        /\ M[Len(L) + 1] = f /\ \A i \in 1..Len(L) : M[i] = L[i]
    BY DEF Grows
  <1>2. \A i \in DOMAIN M : i \in DOMAIN L \/ i = Len(L) + 1
    BY <1>1
  <1>3. \A i \in DOMAIN L : i \in DOMAIN M
    BY <1>1
  <1>4. Len(L) + 1 \in DOMAIN M
    BY <1>1
  <1> QED
    BY <1>1, <1>2, <1>3, <1>4 DEF Has, Ended

(* A Turn that may run stays so: a later acceptance comes behind it.         *)
LEMMA GrowthRuns ==
    ASSUME NEW L \in Seq(Facts), NEW M, NEW f, Grows(L, M, f),
           NEW t, RunsNow(L, t), f.body = "Accepted" => f.turn # t
    PROVE  RunsNow(M, t)
  <1>1. /\ DOMAIN L = 1..Len(L) /\ DOMAIN M = 1..(Len(L) + 1) /\ Len(L) \in Nat
        /\ M[Len(L) + 1] = f /\ \A i \in 1..Len(L) : M[i] = L[i]
    BY DEF Grows
  <1> SUFFICES ASSUME NEW j \in DOMAIN M, NEW a \in DOMAIN M,
                      j < a, Opens(M, a, t), M[j].body = "Accepted"
               PROVE  Ended(M, M[j].turn)
    BY DEF RunsNow
  <1>2. a # Len(L) + 1
    BY <1>1 DEF Opens
  <1>3. a \in DOMAIN L /\ j \in DOMAIN L
    BY <1>1, <1>2
  <1>4. M[j] = L[j] /\ M[a] = L[a]
    BY <1>1, <1>3
  <1>5. Ended(L, L[j].turn)
    BY <1>3, <1>4 DEF RunsNow, Opens
  <1> QED
    BY <1>4, <1>5, GrowthTells

(* A good log stays good when a Fact that fits is added.                     *)
LEMMA GrowthIsGood ==
    ASSUME NEW L \in Seq(Facts), NEW M, NEW f, Grows(L, M, f), GoodLog(L), Fit(L, f)
    PROVE  GoodLog(M)
  <1> DEFINE n == Len(L) + 1
  <1>1. /\ DOMAIN L = 1..Len(L) /\ DOMAIN M = 1..n /\ Len(L) \in Nat
        /\ M[n] = f /\ \A i \in 1..Len(L) : M[i] = L[i]
    BY DEF Grows
  <1>2. \A i \in DOMAIN M : i \in DOMAIN L \/ i = n
    BY <1>1
  <1>3. /\ \A i \in DOMAIN L : i \in DOMAIN M /\ M[i] = L[i] /\ i \in Nat /\ i < n
        /\ n \in DOMAIN M /\ n \in Nat
    BY <1>1
  <1>4. \A t, b : Has(L, t, b) <=> \E i \in 1..(n - 1) : M[i].turn = t /\ M[i].body = b
    BY <1>1 DEF Has
  <1>5. \A t : Ended(L, t) <=> \E i \in 1..(n - 1) : M[i].turn = t /\ IsTerminal(M[i])
    BY <1>1 DEF Ended
  <1>6. \A i \in DOMAIN L : 1..(i - 1) \subseteq DOMAIN L /\ 1..i \subseteq DOMAIN L
    BY <1>1
  <1>7. Numbered(M)
    BY <1>1, <1>2, <1>3 DEF Numbered, GoodLog, Fit
  <1>8. Opened(M)
    <2>1. ASSUME NEW i \in DOMAIN L
          PROVE  \E j \in 1..i : Opens(M, j, M[i].turn)
      BY <1>3, <1>6 DEF Opened, Opens, GoodLog
    <2>2. \E j \in 1..n : Opens(M, j, f.turn)
      <3>1. CASE f.body = "Accepted"
        BY <1>1, <1>3, <3>1 DEF Opens
      <3>2. CASE f.body # "Accepted"
        BY <1>1, <1>4, <3>2 DEF Opens, Fit
      <3> QED
        BY <3>1, <3>2
    <2> QED
      BY <1>1, <1>2, <2>1, <2>2 DEF Opened
  <1>9. WellEnded(M)
    <2> SUFFICES ASSUME NEW i \in DOMAIN M, NEW j \in DOMAIN M, i < j, M[i].turn = M[j].turn
                 PROVE  /\ ~IsTerminal(M[i])
                        /\ M[j].body # "Accepted"
                        /\ M[i].body = "CancelRequested" => M[j].body # "CancelRequested"
      BY DEF WellEnded
    <2>1. i \in DOMAIN L /\ M[i] = L[i]
      BY <1>1
    <2>2. CASE j \in DOMAIN L
      BY <1>3, <2>1, <2>2 DEF GoodLog, WellEnded
    <2>3. CASE j = n
      <3>1. f.turn = L[i].turn
        BY <1>1, <2>1, <2>3
      <3>2. Has(L, f.turn, "Accepted")
        BY <1>6, <2>1, <3>1 DEF GoodLog, Opened, Opens, Has
      <3>3. f.body # "Accepted" /\ ~Ended(L, f.turn)
        BY <3>2 DEF Fit
      <3>4. ~IsTerminal(L[i])
        BY <2>1, <3>1, <3>3 DEF Ended
      <3>5. L[i].body = "CancelRequested" => f.body # "CancelRequested"
        BY <2>1, <3>1 DEF Fit, Has
      <3> QED
        BY <1>1, <2>1, <2>3, <3>3, <3>4, <3>5
    <2> QED
      BY <1>2, <2>2, <2>3
  <1>10. WellCancelled(M)
    <2>1. ASSUME NEW i \in DOMAIN L, IsTerminal(M[i])
          PROVE  M[i].body = "Cancelled" <=>
                   \E j \in 1..(i - 1) : M[j].turn = M[i].turn /\ M[j].body = "CancelRequested"
      BY <1>3, <1>6, <2>1 DEF GoodLog, WellCancelled
    <2>2. ASSUME IsTerminal(M[n])
          PROVE  M[n].body = "Cancelled" <=>
                   \E j \in 1..(n - 1) : M[j].turn = M[n].turn /\ M[j].body = "CancelRequested"
      BY <1>1, <1>4, <2>2 DEF Fit
    <2> QED
      BY <1>2, <2>1, <2>2 DEF WellCancelled
  <1>11. InTurn(M)
    <2> SUFFICES ASSUME NEW i \in DOMAIN M, M[i].body \notin {"Accepted", "CancelRequested"},
                        NEW j \in DOMAIN M, NEW a \in DOMAIN M,
                        j < a, Opens(M, a, M[i].turn), M[j].body = "Accepted"
                 PROVE  \E k \in 1..(i - 1) : M[k].turn = M[j].turn /\ IsTerminal(M[k])
      BY DEF InTurn
    <2>1. a # n
      <3> SUFFICES ASSUME a = n PROVE FALSE
        OBVIOUS
      <3>1. f.body = "Accepted" /\ f.turn = M[i].turn
        BY <1>1 DEF Opens
      <3>2. i # n
        BY <1>1, <3>1
      <3>3. i \in DOMAIN L /\ M[i] = L[i]
        BY <1>2, <1>3, <3>2
      <3>4. Has(L, f.turn, "Accepted")
        BY <1>6, <3>1, <3>3 DEF GoodLog, Opened, Opens, Has
      <3> QED
        BY <3>1, <3>4 DEF Fit
    <2>2. a \in DOMAIN L /\ j \in DOMAIN L /\ M[a] = L[a] /\ M[j] = L[j]
      BY <1>1, <2>1
    <2>3. CASE i \in DOMAIN L
      <3>1. \E k \in 1..(i - 1) : L[k].turn = L[j].turn /\ IsTerminal(L[k])
        BY <1>3, <2>2, <2>3 DEF GoodLog, InTurn, Opens
      <3> QED
        BY <1>3, <1>6, <2>2, <2>3, <3>1
    <2>4. CASE i = n
      <3>1. RunsNow(L, f.turn)
        BY <1>1, <2>4 DEF Fit
      <3>2. Ended(L, L[j].turn)
        BY <1>1, <2>2, <2>4, <3>1 DEF RunsNow, Opens
      <3> QED
        BY <1>5, <2>2, <2>4, <3>2
    <2> QED
      BY <1>2, <2>3, <2>4
  <1>12. Fenced(M)
    <2>1. ASSUME NEW i \in DOMAIN L, M[i].body = "Started"
          PROVE  \E j \in 1..(i - 1) : M[j].turn = M[i].turn /\ M[j].body = "Intent"
      BY <1>3, <1>6, <2>1 DEF GoodLog, Fenced
    <2>2. ASSUME M[n].body = "Started"
          PROVE  \E j \in 1..(n - 1) : M[j].turn = M[n].turn /\ M[j].body = "Intent"
      BY <1>1, <1>4, <2>2 DEF Fit
    <2> QED
      BY <1>2, <2>1, <2>2 DEF Fenced
  <1> QED
    BY <1>7, <1>8, <1>9, <1>10, <1>11, <1>12 DEF GoodLog

(* Every first part of a good log is good: a batch may be cut anywhere.      *)
LEMMA PrefixIsGood ==
    ASSUME NEW L \in Seq(Facts), NEW P, Prefix(P, L), GoodLog(L)
    PROVE  GoodLog(P)
  <1>1. /\ DOMAIN L = 1..Len(L) /\ DOMAIN P = 1..Len(P) /\ Len(L) \in Nat /\ Len(P) \in Nat
        /\ \A i \in DOMAIN P : i \in DOMAIN L /\ P[i] = L[i]
    BY DEF Prefix
  <1>2. \A i \in DOMAIN P : 1..(i - 1) \subseteq DOMAIN P /\ 1..i \subseteq DOMAIN P
    BY <1>1
  <1>3. Numbered(P)
    BY <1>1 DEF GoodLog, Numbered
  <1>4. Opened(P)
    BY <1>1, <1>2 DEF GoodLog, Opened, Opens
  <1>5. WellEnded(P)
    BY <1>1 DEF GoodLog, WellEnded
  <1>6. WellCancelled(P)
    <2> SUFFICES ASSUME NEW i \in DOMAIN P, IsTerminal(P[i])
                 PROVE  P[i].body = "Cancelled" <=>
                   \E j \in 1..(i - 1) : P[j].turn = P[i].turn /\ P[j].body = "CancelRequested"
      BY DEF WellCancelled
    <2>1. i \in DOMAIN L /\ P[i] = L[i] /\ \A j \in 1..(i - 1) : P[j] = L[j]
      BY <1>1, <1>2
    <2> QED
      BY <2>1 DEF GoodLog, WellCancelled
  <1>7. InTurn(P)
    <2> SUFFICES ASSUME NEW i \in DOMAIN P, P[i].body \notin {"Accepted", "CancelRequested"},
                        NEW j \in DOMAIN P, NEW a \in DOMAIN P,
                        j < a, Opens(P, a, P[i].turn), P[j].body = "Accepted"
                 PROVE  \E k \in 1..(i - 1) : P[k].turn = P[j].turn /\ IsTerminal(P[k])
      BY DEF InTurn
    <2>1. \E k \in 1..(i - 1) : L[k].turn = L[j].turn /\ IsTerminal(L[k])
      BY <1>1 DEF GoodLog, InTurn, Opens
    <2> QED
      BY <1>1, <1>2, <2>1
  <1>8. Fenced(P)
    BY <1>1, <1>2 DEF GoodLog, Fenced
  <1> QED
    BY <1>3, <1>4, <1>5, <1>6, <1>7, <1>8 DEF GoodLog

(* Whatever is in a good log of a Turn follows its acceptance.               *)
LEMMA GoodLogOpens ==
    ASSUME NEW L \in Seq(Facts), GoodLog(L), NEW i \in DOMAIN L
    PROVE  Has(L, L[i].turn, "Accepted")
  <1>1. 1..i \subseteq DOMAIN L
    OBVIOUS
  <1> QED
    BY <1>1 DEF GoodLog, Opened, Opens, Has

-----------------------------------------------------------------------------
(* The inductive invariant, in groups.                                      *)

Watermark == durableSeq <= Len(stored)

LogsAgree == Watermark /\ GoodLog(stored) /\ GoodLog(View)

(* Only the Store survives a crash, an evicted Session keeps nothing, and a  *)
(* reservation keeps the Session.                                            *)
Resides ==
  /\ ~up => ~resident
  /\ ~resident => pending = <<>> /\ order = <<>>
  /\ guard \/ op.kind = "accept" => resident

(* What the control of a live Turn says is what the log says.                *)
LiveAt(L, c, t) ==
  /\ Has(L, t, "Accepted")
  /\ c.cancelRequested <=> Has(L, t, "CancelRequested")
  /\ c.terminalSeq = 0 <=> ~Ended(L, t)
  /\ c.terminalSeq # 0 =>
       /\ c.terminalSeq \in DOMAIN L
       /\ L[c.terminalSeq].turn = t
       /\ IsTerminal(L[c.terminalSeq])
  /\ c.effect = "intent" => Has(L, t, "Intent")

GoneAt(L, t) == Has(L, t, "Accepted") => Ended(L, t)

ControlAgrees ==
  \A t \in Turns :
    IF control[t].live
    THEN LiveAt(View, control[t], t)
    ELSE GoneAt(View, t) /\ \A i \in DOMAIN pending : pending[i].turn # t

(* The live Turns, each once, in the order of their acceptance.              *)
Ordered(ord, L) ==
  \A i, j \in DOMAIN ord : \A p, q \in DOMAIN L :
    (i < j /\ Opens(L, p, ord[i]) /\ Opens(L, q, ord[j])) => p < q

OrderAgrees ==
  /\ \A t \in Turns : control[t].live <=> \E i \in DOMAIN order : order[i] = t
  /\ Ordered(order, View)

TurnsAgree == ControlAgrees /\ OrderAgrees

(* A claimed Turn is live, and nothing accepted before it is open.           *)
ClaimedAgree == \A t \in claimed : control[t].live /\ RunsNow(View, t)

(* The batch in flight is the head of the suffix; once acknowledged it is    *)
(* the tail of the Store.                                                    *)
FlightAgrees ==
  flight # NoFlight =>
    /\ resident /\ flight.expected = durableSeq
    /\ Len(flight.facts) \in 1..Len(pending)
    /\ \A k \in 1..Len(flight.facts) : flight.facts[k] = pending[k]
    /\ flight.phase = "done" /\ flight.result = "ok" =>
         /\ Len(stored) = durableSeq + Len(flight.facts)
         /\ \A k \in 1..Len(flight.facts) : stored[durableSeq + k] = flight.facts[k]

(* The commit under admission: nothing is added meanwhile, the Turn it ends  *)
(* or continues stays claimed and open, the Turn it starts is not known, and *)
(* what it stages may be stored at the live tail.                            *)
OpHolds ==
  op # NoOp =>
    /\ op.kind # "none" /\ op.phase # "none" /\ op.turn \in Turns
    /\ op.kind = "finish" => op.proposed \in Proposals
    /\ op.kind # "accept" => op.turn \in claimed /\ control[op.turn].terminalSeq = 0
    /\ op.expected = LiveSeq

Staged ==
  /\ Len(op.facts) = 1 /\ op.facts[1].seq = op.expected + 1 /\ op.facts[1].turn = op.turn
  /\ op.kind = "step" => op.facts[1].body = "StepClaimed"
  /\ op.kind = "accept" =>
       op.facts[1].body = "Accepted" /\ order = <<>> /\ ~Has(View, op.turn, "Accepted")
  /\ op.kind = "finish" =>
       /\ op.facts[1].body \in Outcomes
       /\ op.facts[1].body = "Cancelled" <=> control[op.turn].cancelRequested

Committed ==
  Len(stored) = op.expected + 1 /\ stored[op.expected + 1] = op.facts[1]

(* The start of a Turn, or its next Step: what the process may miss.         *)
Missable == {"Accepted", "StepClaimed"}

(* The Store may already be past the base of the commit: with a Turn or a    *)
(* next Step that the process missed, or with this very commit.              *)
OpStages ==
  op.phase \in {"sent", "done"} =>
    /\ pending = <<>> /\ Staged
    /\ op.phase = "done" /\ op.result = "ok" => Committed
    /\ op.expected < Len(stored) =>
         \/ stored[op.expected + 1].body \in Missable
         \/ op.kind # "finish" /\ permanentError
         \/ op.phase = "done" /\ op.result \in {"ok", "io"} /\ Committed

(* A resident Session that fell behind the Store with nothing pending has    *)
(* missed the commit of a Turn or a next Step, or is quarantined.            *)
Behind ==
  (/\ resident /\ op.phase \in {"none", "flush"} /\ ~permanentError
   /\ pending = <<>> /\ durableSeq < Len(stored))
  => stored[durableSeq + 1].body \in Missable

OpAgrees == OpHolds /\ OpStages /\ Behind

(* What callers and executors rely on.                                       *)
WaitsAgree == \A f \in waits : f.seq \in DOMAIN View /\ View[f.seq] = f

PendingFence ==
  \A i \in DOMAIN pending : pending[i].body = "Started" =>
    \E j \in 1..durableSeq : stored[j].turn = pending[i].turn /\ stored[j].body = "Intent"

Promises == WaitsAgree /\ PendingFence /\ AckedIsStored /\ TokenIsDurable

Queued(q, t) == \E i \in DOMAIN q : q[i] = t

Wakes == /\ \A t \in queued : Queued(queue, t)
         /\ ClaimableIsQueued

Inv ==
  /\ TypeOK
  /\ LogsAgree
  /\ Resides
  /\ TurnsAgree
  /\ ClaimedAgree
  /\ FlightAgrees
  /\ OpAgrees
  /\ Promises
  /\ Wakes

-----------------------------------------------------------------------------
(* Facts of one state.                                                      *)

LEMMA FactTyped ==
    ASSUME NEW s \in Nat \ {0}, NEW t \in Turns, NEW b \in Bodies
    PROVE  /\ Fact(s, t, b) \in Facts
           /\ Fact(s, t, b).seq = s /\ Fact(s, t, b).turn = t /\ Fact(s, t, b).body = b
  BY DEF Fact, Facts

LEMMA FactFields ==
    ASSUME NEW f \in Facts
    PROVE  f.seq \in Nat \ {0} /\ f.turn \in Turns /\ f.body \in Bodies
  BY DEF Facts

LEMMA ControlFields ==
    ASSUME TypeOK, NEW t \in Turns
    PROVE  /\ control[t] \in Controls
           /\ control[t].live \in BOOLEAN /\ control[t].cancelRequested \in BOOLEAN
           /\ control[t].terminalSeq \in Nat
           /\ control[t].effect \in {"none", "intent", "started", "settled"}
  <1>1. control[t] \in Controls
    BY DEF TypeOK
  <1> QED
    BY <1>1 DEF Controls

LEMMA NoCallFields ==
  /\ NoFlight \in Flights /\ NoFlight.phase = "none"
  /\ NoOp \in Commits /\ NoOp.kind = "none" /\ NoOp.phase = "none" /\ NoOp.turn = NoTurn
  /\ NoControl \in Controls /\ NoControl.live = FALSE /\ NoControl.terminalSeq = 0
  /\ AcceptedControl \in Controls /\ AcceptedControl.live = TRUE
  /\ AcceptedControl.terminalSeq = 0 /\ AcceptedControl.cancelRequested = FALSE
  /\ AcceptedControl.effect = "none"
  <1>1. <<>> \in Seq(Facts)
    OBVIOUS
  <1>2. NoFlight \in Flights /\ NoFlight.phase = "none"
    BY <1>1 DEF NoFlight, Flights, Answers
  <1>3. NoOp \in Commits /\ NoOp.kind = "none" /\ NoOp.phase = "none" /\ NoOp.turn = NoTurn
    BY <1>1 DEF NoOp, Commits, Answers, Proposals
  <1>4. NoControl \in Controls /\ NoControl.live = FALSE /\ NoControl.terminalSeq = 0
    BY DEF NoControl, Controls
  <1>5. /\ AcceptedControl \in Controls /\ AcceptedControl.live = TRUE
        /\ AcceptedControl.terminalSeq = 0 /\ AcceptedControl.cancelRequested = FALSE
        /\ AcceptedControl.effect = "none"
    BY DEF NoControl, AcceptedControl, Controls
  <1> QED
    BY <1>2, <1>3, <1>4, <1>5

LEMMA FlightFields ==
    ASSUME TypeOK
    PROVE  /\ flight.phase \in {"none", "sent", "done"} /\ flight.expected \in Nat
           /\ flight.facts \in Seq(Facts) /\ flight.result \in Answers \cup {"none"}
  BY DEF TypeOK, Flights

LEMMA OpFields ==
    ASSUME TypeOK
    PROVE  /\ op.kind \in {"none", "finish", "step", "accept"} /\ op.turn \in Turns \cup {NoTurn}
           /\ op.phase \in {"none", "flush", "sent", "done"} /\ op.expected \in Nat
           /\ op.proposed \in Proposals \cup {"none"} /\ op.facts \in Seq(Facts)
           /\ op.result \in Answers \cup {"none"}
  BY DEF TypeOK, Commits

LEMMA ViewIs ==
    ASSUME TypeOK, Watermark
    PROVE  /\ View \in Seq(Facts) /\ Len(View) = LiveSeq /\ LiveSeq \in Nat
           /\ Len(pending) \in Nat /\ DOMAIN View = 1..LiveSeq
           /\ durableSeq <= LiveSeq
           /\ \A i \in 1..durableSeq : i \in DOMAIN stored /\ i \in DOMAIN View /\ View[i] = stored[i]
           /\ \A i \in DOMAIN pending :
                durableSeq + i \in DOMAIN View /\ View[durableSeq + i] = pending[i]
           /\ \A i \in DOMAIN View : i > durableSeq =>
                i - durableSeq \in DOMAIN pending /\ View[i] = pending[i - durableSeq]
  <1>1. /\ durableSeq \in Nat /\ Len(pending) \in Nat /\ Len(stored) \in Nat
        /\ DOMAIN pending = 1..Len(pending) /\ DOMAIN stored = 1..Len(stored)
        /\ durableSeq <= Len(stored)
    BY DEF TypeOK, Watermark
  <1>2. \A i \in DOMAIN pending : pending[i] \in Facts
    BY DEF TypeOK
  <1>3. \A i \in DOMAIN stored : stored[i] \in Facts
    BY DEF TypeOK
  <1> DEFINE n == durableSeq + Len(pending)
  <1>4. \A i \in 1..n : (IF i <= durableSeq THEN stored[i] ELSE pending[i - durableSeq]) \in Facts
    <2> TAKE i \in 1..n
    <2>1. CASE i <= durableSeq
      BY <1>1, <1>3, <2>1
    <2>2. CASE i > durableSeq
      <3>1. i - durableSeq \in DOMAIN pending
        BY <1>1, <2>2
      <3> QED
        BY <1>1, <1>2, <2>2, <3>1
    <2> QED
      BY <1>1, <2>1, <2>2
  <1>5. n \in Nat
    BY <1>1
  <1> HIDE DEF n
  <1>6. View = [i \in 1..n |-> IF i <= durableSeq THEN stored[i] ELSE pending[i - durableSeq]]
    BY DEF View, n
  <1>7. View \in Seq(Facts) /\ Len(View) = n /\ DOMAIN View = 1..n
    BY <1>4, <1>5, <1>6
  <1>8. \A i \in 1..n : View[i] = IF i <= durableSeq THEN stored[i] ELSE pending[i - durableSeq]
    BY <1>6
  <1> HIDE DEF View
  <1>9. n = durableSeq + Len(pending) /\ LiveSeq = n
    BY DEF n, LiveSeq
  <1>10. \A i \in 1..durableSeq : i \in DOMAIN stored /\ i \in DOMAIN View /\ View[i] = stored[i]
    BY <1>1, <1>5, <1>7, <1>8, <1>9
  <1>11. \A i \in DOMAIN pending :
                durableSeq + i \in DOMAIN View /\ View[durableSeq + i] = pending[i]
    <2> TAKE i \in DOMAIN pending
    <2> DEFINE k == durableSeq + i
    <2>1. k \in 1..n /\ ~(k <= durableSeq) /\ k - durableSeq = i
      BY <1>1, <1>9
    <2> HIDE DEF k
    <2>2. k \in DOMAIN View /\ View[k] = pending[i]
      BY <1>7, <1>8, <2>1
    <2> QED
      BY <2>2 DEF k
  <1>12. \A i \in DOMAIN View : i > durableSeq =>
                i - durableSeq \in DOMAIN pending /\ View[i] = pending[i - durableSeq]
    BY <1>1, <1>7, <1>8, <1>9
  <1> QED
    BY <1>1, <1>5, <1>7, <1>9, <1>10, <1>11, <1>12

(* The Turn that may run next is the first one without a terminal, and every *)
(* Turn in front of it has a durable one.                                    *)
IsFirst(ord, ctl, d, i) ==
  /\ ctl[ord[i]].terminalSeq = 0
  /\ \A j \in 1..(i - 1) : ctl[ord[j]].terminalSeq \in 1..d

LEMMA OldestIs ==
    ASSUME NEW ord \in Seq(Turns), NEW ctl, NEW d \in Nat
    PROVE  LET t == OldestClaimable(ord, ctl, d)
           IN  /\ t = NoTurn \/ \E i \in DOMAIN ord : ord[i] = t /\ IsFirst(ord, ctl, d, i)
               /\ \A i \in DOMAIN ord : IsFirst(ord, ctl, d, i) => ord[i] = t
               /\ t \in Turns \cup {NoTurn}
  <1> DEFINE first == {i \in DOMAIN ord : IsFirst(ord, ctl, d, i)}
             t == OldestClaimable(ord, ctl, d)
  <1>1. t = IF first = {} THEN NoTurn ELSE ord[CHOOSE i \in first : TRUE]
    BY DEF OldestClaimable, IsFirst
  <1>2. ASSUME NEW i \in first, NEW j \in first
        PROVE  i = j
    <2>1. i \in Nat /\ j \in Nat /\ i >= 1 /\ j >= 1
      OBVIOUS
    <2>2. \A a, b \in first : ~(a \in 1..(b - 1))
      <3> SUFFICES ASSUME NEW a \in first, NEW b \in first, a \in 1..(b - 1) PROVE FALSE
        OBVIOUS
      <3>1. ctl[ord[a]].terminalSeq = 0 /\ ctl[ord[a]].terminalSeq \in 1..d
        BY DEF IsFirst
      <3> QED
        BY <3>1
    <2>3. ~(i \in 1..(j - 1)) /\ ~(j \in 1..(i - 1))
      BY <2>2
    <2> QED
      BY <2>1, <2>3
  <1>3. \A i \in DOMAIN ord : ord[i] \in Turns
    OBVIOUS
  <1>4. \A i \in first : i \in DOMAIN ord /\ IsFirst(ord, ctl, d, i)
    OBVIOUS
  <1>5. \A i \in DOMAIN ord : IsFirst(ord, ctl, d, i) => i \in first
    OBVIOUS
  <1> HIDE DEF first, t
  <1>6. CASE first = {}
    BY <1>1, <1>5, <1>6 DEF t
  <1>7. CASE first # {}
    <2> DEFINE c == CHOOSE i \in first : TRUE
    <2>1. c \in first
      BY <1>7
    <2>2. t = ord[c]
      BY <1>1, <1>7
    <2> HIDE DEF c
    <2> QED
      BY <1>2, <1>3, <1>4, <1>5, <2>1, <2>2 DEF t
  <1> QED
    BY <1>6, <1>7

(* It depends on the terminals only.                                         *)
LEMMA OldestSame ==
    ASSUME NEW ord \in Seq(Turns), NEW c1, NEW c2, NEW d1, NEW d2,
           \A i \in DOMAIN ord : /\ c1[ord[i]].terminalSeq = 0 <=> c2[ord[i]].terminalSeq = 0
                                 /\ c1[ord[i]].terminalSeq \in 1..d1 <=> c2[ord[i]].terminalSeq \in 1..d2
    PROVE  OldestClaimable(ord, c1, d1) = OldestClaimable(ord, c2, d2)
  <1>1. \A i \in DOMAIN ord : 1..(i - 1) \subseteq DOMAIN ord
    OBVIOUS
  <1>2. \A i \in DOMAIN ord :
           /\ c1[ord[i]].terminalSeq = 0
           /\ \A j \in 1..(i - 1) : c1[ord[j]].terminalSeq \in 1..d1
          <=>
           /\ c2[ord[i]].terminalSeq = 0
           /\ \A j \in 1..(i - 1) : c2[ord[j]].terminalSeq \in 1..d2
    BY <1>1
  <1> DEFINE F(c, d) == {i \in DOMAIN ord :
                           /\ c[ord[i]].terminalSeq = 0
                           /\ \A j \in 1..(i - 1) : c[ord[j]].terminalSeq \in 1..d}
             F1 == F(c1, d1)
             F2 == F(c2, d2)
  <1>3. F1 = F2
    BY <1>2
  <1>4. OldestClaimable(ord, c1, d1) = IF F1 = {} THEN NoTurn ELSE ord[CHOOSE i \in F1 : TRUE]
    BY DEF OldestClaimable
  <1>5. OldestClaimable(ord, c2, d2) = IF F2 = {} THEN NoTurn ELSE ord[CHOOSE i \in F2 : TRUE]
    BY DEF OldestClaimable
  <1> HIDE DEF F1, F2
  <1> QED
    BY <1>3, <1>4, <1>5

-----------------------------------------------------------------------------
(* A group of the invariant stays when its variables do.                    *)

LEMMA KeepLogs ==
    ASSUME LogsAgree, UNCHANGED <<stored, durableSeq, pending>>
    PROVE  View' = View /\ LogsAgree'
  <1>1. View' = View
    BY DEF View
  <1> QED
    BY <1>1 DEF LogsAgree, Watermark

LEMMA KeepResides ==
    ASSUME Resides, UNCHANGED <<up, resident, pending, order, guard>>,
           op'.kind = "accept" => op.kind = "accept"
    PROVE  Resides'
  BY DEF Resides

LEMMA KeepTurns ==
    ASSUME TurnsAgree, UNCHANGED <<stored, durableSeq, pending, control, order>>
    PROVE  TurnsAgree'
  <1>1. View' = View
    BY DEF View
  <1>2. ControlAgrees'
    BY <1>1 DEF TurnsAgree, ControlAgrees
  <1>3. OrderAgrees'
    BY <1>1 DEF TurnsAgree, OrderAgrees
  <1> QED
    BY <1>2, <1>3 DEF TurnsAgree

LEMMA KeepClaimed ==
    ASSUME ClaimedAgree, UNCHANGED <<stored, durableSeq, pending, control>>,
           claimed' \subseteq claimed
    PROVE  ClaimedAgree'
  <1>1. View' = View
    BY DEF View
  <1> QED
    BY <1>1 DEF ClaimedAgree

LEMMA KeepFlight ==
    ASSUME FlightAgrees, UNCHANGED <<stored, durableSeq, pending, flight, resident>>
    PROVE  FlightAgrees'
  BY DEF FlightAgrees

LEMMA KeepOp ==
    ASSUME OpAgrees, UNCHANGED <<stored, durableSeq, pending, control, order, op>>,
           resident' => resident, permanentError => permanentError',
           op.kind # "accept" /\ op.turn \in claimed => op.turn \in claimed'
    PROVE  OpAgrees'
  <1>1. OpHolds'
    BY DEF OpAgrees, OpHolds, LiveSeq
  <1>0. View' = View
    BY DEF View
  <1>2. OpStages'
    BY <1>0 DEF OpAgrees, OpStages, Staged, Committed
  <1>3. Behind'
    BY DEF OpAgrees, Behind
  <1> QED
    BY <1>1, <1>2, <1>3 DEF OpAgrees

LEMMA KeepPromises ==
    ASSUME Promises, UNCHANGED <<stored, durableSeq, pending, waits, acked, token>>
    PROVE  Promises'
  <1>1. View' = View
    BY DEF View
  <1>2. WaitsAgree'
    BY <1>1 DEF Promises, WaitsAgree
  <1>3. PendingFence'
    BY DEF Promises, PendingFence
  <1>4. AckedIsStored' /\ TokenIsDurable'
    BY DEF Promises, AckedIsStored, TokenIsDurable
  <1> QED
    BY <1>2, <1>3, <1>4 DEF Promises

LEMMA KeepWakes ==
    ASSUME Wakes, UNCHANGED <<up, order, control, durableSeq, queue, queued>>,
           resident' => resident, claimed \subseteq claimed', permanentError => permanentError'
    PROVE  Wakes'
  BY DEF Wakes, ClaimableIsQueued, Claimable

-----------------------------------------------------------------------------
LEMMA InitHolds == Init => Inv
  <1> SUFFICES ASSUME Init PROVE Inv
    OBVIOUS
  <1>0. NoFlight \in Flights /\ NoOp \in Commits /\ NoControl \in Controls
        /\ NoControl.live = FALSE /\ NoOp.phase = "none" /\ NoOp.kind = "none"
    BY NoCallFields
  <1>1. TypeOK
    <2>1. control \in [Turns -> Controls]
      BY <1>0 DEF Init
    <2>2. stored \in Seq(Facts) /\ pending \in Seq(Facts) /\ order \in Seq(Turns) /\ queue \in Seq(Turns)
      BY DEF Init
    <2> QED
      BY <1>0, <2>1, <2>2 DEF Init, TypeOK
  <1>2. View = <<>>
    BY DEF Init, View
  <1>3. LogsAgree
    BY <1>2 DEF Init, LogsAgree, Watermark, GoodLog, Numbered, Opened, WellEnded, WellCancelled,
                InTurn, Fenced
  <1>4. Resides
    BY <1>0 DEF Init, Resides
  <1>5. TurnsAgree
    BY <1>0, <1>2 DEF Init, TurnsAgree, ControlAgrees, OrderAgrees, GoneAt, Ordered, Has
  <1>6. ClaimedAgree /\ FlightAgrees
    BY DEF Init, ClaimedAgree, FlightAgrees
  <1>7. OpAgrees
    BY <1>0 DEF Init, OpAgrees, OpHolds, OpStages, Behind
  <1>8. Promises
    BY DEF Init, Promises, WaitsAgree, PendingFence, AckedIsStored, TokenIsDurable
  <1>9. Wakes
    BY DEF Init, Wakes, ClaimableIsQueued, Claimable
  <1> QED
    BY <1>1, <1>3, <1>4, <1>5, <1>6, <1>7, <1>8, <1>9 DEF Inv

-----------------------------------------------------------------------------
(* Durability waits.                                                        *)

LEMMA WaitReturnsKeeps ==
    ASSUME Inv, NEW f, WaitReturns(f)
    PROVE  Inv'
  <1> USE DEF Inv
  <1>0. UNCHANGED <<stored, up, resVars, claimed, qVars, flight, op, guard>>
    BY DEF WaitReturns
  <1>1. TypeOK'
    <2>1. f \in Facts
      BY DEF WaitReturns, TypeOK
    <2>2. f.turn \in Turns
      BY <2>1, FactFields
    <2>3. acked' \subseteq Facts /\ waits' \subseteq Facts /\ token' \subseteq Turns
      BY <2>1, <2>2 DEF WaitReturns, TypeOK
    <2> QED
      BY <1>0, <2>3 DEF WaitReturns, TypeOK, resVars, qVars
  <1>2. stored[f.seq] = f /\ f.seq \in DOMAIN stored
    <2>1. f.seq \in DOMAIN View /\ View[f.seq] = f
      BY DEF WaitReturns, Promises, WaitsAgree
    <2>2. f.seq \in 1..durableSeq
      BY <2>1, ViewIs DEF WaitReturns, ReachedDurability, TypeOK, LogsAgree
    <2> QED
      BY <2>1, <2>2, ViewIs DEF LogsAgree
  <1>3. AckedIsStored' /\ TokenIsDurable'
    <2>1. AckedIsStored'
      BY <1>0, <1>2 DEF WaitReturns, Promises, AckedIsStored, TypeOK
    <2>2. TokenIsDurable'
      BY <1>0, <1>2 DEF WaitReturns, Promises, TokenIsDurable, Has
    <2> QED
      BY <2>1, <2>2
  <1>4. WaitsAgree' /\ PendingFence'
    <2>1. View' = View
      BY <1>0, KeepLogs DEF resVars
    <2>2. WaitsAgree'
      BY <2>1 DEF WaitReturns, Promises, WaitsAgree
    <2>3. PendingFence'
      BY <1>0 DEF resVars, Promises, PendingFence
    <2> QED
      BY <2>2, <2>3
  <1> QED
    BY <1>0, <1>1, <1>3, <1>4, KeepLogs, KeepResides, KeepTurns, KeepClaimed, KeepFlight,
       KeepOp, KeepWakes DEF resVars, qVars, Promises

LEMMA WaitFailsKeeps ==
    ASSUME Inv, NEW f, WaitFails(f)
    PROVE  Inv'
  <1> USE DEF Inv
  <1>0. UNCHANGED <<stored, up, resVars, claimed, token, qVars, flight, op, guard, acked>>
        /\ waits' \subseteq waits
    BY DEF WaitFails
  <1>1. TypeOK'
    BY <1>0, PipelineAssumption DEF WaitFails, TypeOK, resVars, qVars
  <1>2. View' = View
    BY <1>0, KeepLogs DEF resVars
  <1>3. Promises'
    <2>1. WaitsAgree'
      BY <1>0, <1>2 DEF Promises, WaitsAgree
    <2>2. PendingFence' /\ AckedIsStored' /\ TokenIsDurable'
      BY <1>0 DEF resVars, Promises, PendingFence, AckedIsStored, TokenIsDurable
    <2> QED
      BY <2>1, <2>2 DEF Promises
  <1> QED
    BY <1>0, <1>1, <1>3, KeepLogs, KeepResides, KeepTurns, KeepClaimed, KeepFlight,
       KeepOp, KeepWakes DEF resVars, qVars

-----------------------------------------------------------------------------
(* The claim queue.                                                         *)

LEMMA WakesWhen ==
    ASSUME \A t \in queued' : Queued(queue', t),
           \A t : (/\ t = OldestClaimable(order', control', durableSeq') /\ t # NoTurn
                   /\ up' /\ resident' /\ ~permanentError' /\ t \notin claimed')
                  => Queued(queue', t)
    PROVE  Wakes'
  BY DEF Wakes, ClaimableIsQueued, Claimable, Queued

LEMMA WakesGive ==
    ASSUME Wakes
    PROVE  /\ \A t \in queued : Queued(queue, t)
           /\ \A t : (/\ t = OldestClaimable(order, control, durableSeq) /\ t # NoTurn
                      /\ up /\ resident /\ ~permanentError /\ t \notin claimed)
                     => Queued(queue, t)
  BY DEF Wakes, ClaimableIsQueued, Claimable, Queued

LEMMA EnqueueIs ==
    ASSUME NEW q \in Seq(Turns), NEW qs \in SUBSET Turns, NEW t \in Turns \cup {NoTurn},
           \A u \in qs : Queued(q, u)
    PROVE  /\ EnqueueIn(q, qs, t) \in Seq(Turns) /\ QueuedWith(qs, t) \in SUBSET Turns
           /\ \A u \in QueuedWith(qs, t) : Queued(EnqueueIn(q, qs, t), u)
           /\ t # NoTurn => Queued(EnqueueIn(q, qs, t), t)
           /\ \A u : Queued(q, u) => Queued(EnqueueIn(q, qs, t), u)
  <1>1. CASE t = NoTurn \/ t \in qs
    <2>1. EnqueueIn(q, qs, t) = q
      BY <1>1 DEF EnqueueIn
    <2>2. QueuedWith(qs, t) = qs
      BY <1>1 DEF QueuedWith
    <2> QED
      BY <1>1, <2>1, <2>2
  <1>2. CASE t # NoTurn /\ t \notin qs
    <2> DEFINE r == Append(q, t)
    <2>1. EnqueueIn(q, qs, t) = r
      BY <1>2 DEF EnqueueIn
    <2>2. QueuedWith(qs, t) = qs \cup {t}
      BY <1>2 DEF QueuedWith
    <2>3. t \in Turns
      BY <1>2
    <2>4. /\ r \in Seq(Turns) /\ Len(r) = Len(q) + 1 /\ r[Len(q) + 1] = t
          /\ \A i \in DOMAIN q : i \in DOMAIN r /\ r[i] = q[i]
          /\ Len(q) + 1 \in DOMAIN r
      BY <2>3
    <2> HIDE DEF r
    <2>5. Queued(r, t) /\ \A u : Queued(q, u) => Queued(r, u)
      BY <2>4 DEF Queued
    <2> QED
      BY <2>1, <2>2, <2>3, <2>4, <2>5
  <1> QED
    BY <1>1, <1>2

(* The Turn that may be claimed is live, open and next.                      *)
LEMMA ClaimableRuns ==
    ASSUME Inv, NEW t \in Turns, Claimable(t)
    PROVE  control[t].live /\ control[t].terminalSeq = 0 /\ RunsNow(View, t)
  <1> USE DEF Inv
  <1>1. PICK i \in DOMAIN order : order[i] = t /\ IsFirst(order, control, durableSeq, i)
    <2>1. order \in Seq(Turns) /\ durableSeq \in Nat
      BY DEF TypeOK
    <2> QED
      BY <2>1, OldestIs, PipelineAssumption DEF Claimable
  <1>2. control[t].live
    BY <1>1 DEF TurnsAgree, OrderAgrees
  <1>3. control[t].terminalSeq = 0
    BY <1>1 DEF IsFirst
  <1>4. RunsNow(View, t)
    <2> SUFFICES ASSUME NEW j \in DOMAIN View, NEW a \in DOMAIN View,
                        j < a, Opens(View, a, t), View[j].body = "Accepted"
                 PROVE  Ended(View, View[j].turn)
      BY DEF RunsNow
    <2> DEFINE u == View[j].turn
    <2>1. View \in Seq(Facts) /\ View[j] \in Facts
      BY ViewIs DEF LogsAgree
    <2>2. u \in Turns /\ Has(View, u, "Accepted")
      BY <2>1, FactFields DEF Has
    <2>3. CASE ~control[u].live
      BY <2>2, <2>3 DEF TurnsAgree, ControlAgrees, GoneAt
    <2>4. CASE control[u].live
      <3>1. PICK k \in DOMAIN order : order[k] = u
        BY <2>2, <2>4 DEF TurnsAgree, OrderAgrees
      <3>2. k \in Nat /\ i \in Nat /\ j \in Nat /\ a \in Nat /\ k >= 1
        BY <2>1 DEF TypeOK
      <3>3. ~(i < k)
        <4> SUFFICES ASSUME i < k PROVE FALSE
          OBVIOUS
        <4>1. Opens(View, j, u)
          BY DEF Opens
        <4>2. a < j
          BY <1>1, <3>1, <4>1 DEF TurnsAgree, OrderAgrees, Ordered
        <4> QED
          BY <3>2, <4>2
      <3>4. i # k
        <4> SUFFICES ASSUME i = k PROVE FALSE
          OBVIOUS
        <4>1. View[j].turn = View[a].turn /\ View[a].body = "Accepted"
          BY <1>1, <3>1 DEF Opens
        <4> QED
          BY <4>1 DEF LogsAgree, GoodLog, WellEnded
      <3>5. k \in 1..(i - 1)
        BY <3>2, <3>3, <3>4
      <3>6. control[u].terminalSeq \in 1..durableSeq
        BY <1>1, <3>1, <3>5 DEF IsFirst
      <3>7. control[u].terminalSeq # 0
        BY <3>6
      <3> QED
        BY <2>2, <2>4, <3>7 DEF TurnsAgree, ControlAgrees, LiveAt
    <2> QED
      BY <2>3, <2>4
  <1> QED
    BY <1>2, <1>3, <1>4

LEMMA ClaimKeeps ==
    ASSUME Inv, Claim
    PROVE  Inv'
  <1> USE DEF Inv
  <1>0. UNCHANGED <<stored, up, resVars, token, flight, op, guard, waits, history>>
    BY DEF Claim
  <1>t. queue \in Seq(Turns) /\ order \in Seq(Turns) /\ durableSeq \in Nat
    BY DEF TypeOK
  <1>v. View' = View
    BY <1>0, KeepLogs DEF resVars
  <1>1. ASSUME NEW k \in DOMAIN queue, Claimable(queue[k]),
               claimed' = claimed \cup {queue[k]},
               queue' = SubSeq(queue, k + 1, Len(queue)),
               queued' = queued \ {queue[j] : j \in 1..k}
        PROVE  TypeOK' /\ ClaimedAgree' /\ Wakes' /\ claimed \subseteq claimed'
    <2>1. queue[k] \in Turns /\ Len(queue) \in Nat /\ k \in 1..Len(queue)
      BY <1>t
    <2>2. /\ queue' \in Seq(Turns) /\ Len(queue') = Len(queue) - k
          /\ \A i \in 1..(Len(queue) - k) : queue'[i] = queue[k + i]
      BY <1>t, <1>1, <2>1
    <2>3. TypeOK'
      BY <1>0, <1>1, <2>1, <2>2 DEF TypeOK, resVars, history
    <2>4. ClaimedAgree'
      <3>1. control[queue[k]].live /\ RunsNow(View, queue[k])
        BY <1>1, <2>1, ClaimableRuns
      <3> QED
        BY <1>0, <1>1, <1>v, <3>1 DEF ClaimedAgree, resVars
    <2>5. \A t \in queued' : Queued(queue', t)
      <3> SUFFICES ASSUME NEW t \in queued' PROVE Queued(queue', t)
        OBVIOUS
      <3>1. PICK i \in DOMAIN queue : queue[i] = t
        BY <1>1, WakesGive DEF Queued
      <3>2. i \notin 1..k
        BY <1>1, <3>1
      <3> DEFINE m == i - k
      <3>3. m \in 1..(Len(queue) - k) /\ k + m = i
        BY <2>1, <3>2
      <3> HIDE DEF m
      <3>4. queue'[m] = t /\ m \in DOMAIN queue'
        BY <2>1, <2>2, <3>1, <3>3
      <3> QED
        BY <3>4 DEF Queued
    <2>6. OldestClaimable(order', control', durableSeq') \in claimed'
      BY <1>0, <1>1 DEF resVars, Claimable
    <2>7. Wakes'
      BY <2>5, <2>6, WakesWhen
    <2> QED
      BY <1>1, <2>3, <2>4, <2>7
  <1>2. ASSUME queue' = Only(queue, {t \in Turns : Claimable(t)}),
               queued' = {t \in queued : Claimable(t)}, UNCHANGED claimed
        PROVE  TypeOK' /\ ClaimedAgree' /\ Wakes' /\ claimed \subseteq claimed'
    <2> DEFINE S == {t \in Turns : Claimable(t)}
               g == Only(queue, S)
    <2>1. queue' = g
      BY <1>2
    <2>2. /\ g \in Seq(Turns)
          /\ \A i \in DOMAIN queue : queue[i] \in S => \E n \in DOMAIN g : g[n] = queue[i]
      <3>1. g = Only(queue, S)
        OBVIOUS
      <3> HIDE DEF S, g
      <3> QED
        BY <1>t, <3>1, OnlyIs
    <2> HIDE DEF g
    <2>3. \A t \in S : Queued(queue, t) => Queued(g, t)
      <3> HIDE DEF S
      <3> QED
        BY <2>2 DEF Queued
    <2>4. TypeOK'
      <3>1. queue' \in Seq(Turns) /\ queued' \subseteq Turns
        BY <1>2, <2>1, <2>2 DEF TypeOK
      <3> QED
        BY <1>0, <1>2, <3>1 DEF TypeOK, resVars, history
    <2>5. \A t \in queued' : Queued(queue', t)
      <3> SUFFICES ASSUME NEW t \in queued' PROVE Queued(queue', t)
        OBVIOUS
      <3>1. t \in queued /\ t \in S
        BY <1>2 DEF TypeOK
      <3> QED
        BY <2>1, <2>3, <3>1, WakesGive
    <2>6. ASSUME NEW t, t = OldestClaimable(order', control', durableSeq'), t # NoTurn,
                 up', resident', ~permanentError', t \notin claimed'
          PROVE  Queued(queue', t)
      <3>1. t = OldestClaimable(order, control, durableSeq) /\ up /\ resident /\ ~permanentError
            /\ t \notin claimed
        BY <1>0, <1>2, <2>6 DEF resVars
      <3>2. t \in Turns
        BY <1>t, <2>6, <3>1, OldestIs
      <3>3. t \in S
        BY <3>1, <3>2 DEF Claimable
      <3> QED
        BY <2>1, <2>3, <2>6, <3>1, <3>3, WakesGive
    <2>7. Wakes'
      BY <2>5, <2>6, WakesWhen
    <2>8. ClaimedAgree'
      BY <1>0, <1>2, KeepClaimed DEF resVars
    <2> QED
      BY <1>2, <2>4, <2>7, <2>8
  <1>3. TypeOK' /\ ClaimedAgree' /\ Wakes' /\ claimed \subseteq claimed'
    BY <1>1, <1>2 DEF Claim
  <1> QED
    BY <1>0, <1>3, KeepLogs, KeepResides, KeepTurns, KeepFlight, KeepOp, KeepPromises
       DEF resVars, history

LEMMA ClaimQuarantinesKeeps ==
    ASSUME Inv, ClaimQuarantines
    PROVE  Inv'
  <1> USE DEF Inv
  <1>0. /\ UNCHANGED <<stored, up, resident, durableSeq, pending, control, order, claimed, token,
                       retryFailures, flight, op, guard, waits, acked, crashes>>
        /\ permanentError' = TRUE /\ queue' = <<>> /\ queued' = {}
        /\ faults' = faults + 1
    BY DEF ClaimQuarantines
  <1>1. TypeOK'
    BY <1>0 DEF TypeOK
  <1>2. Wakes'
    BY <1>0, WakesWhen
  <1> QED
    BY <1>0, <1>1, <1>2, KeepLogs, KeepResides, KeepTurns, KeepClaimed, KeepFlight, KeepOp,
       KeepPromises

LEMMA ReleaseKeeps ==
    ASSUME Inv, NEW t \in Turns, Release(t)
    PROVE  Inv'
  <1> USE DEF Inv
  <1> DEFINE again == IF control[t].terminalSeq = 0 THEN t ELSE NoTurn
  <1>0. /\ UNCHANGED <<stored, up, resVars, token, flight, op, guard, waits, history>>
        /\ t \in claimed /\ (op.turn = t => op.kind = "accept") /\ claimed' = claimed \ {t}
        /\ queue' = EnqueueIn(queue, queued, again)
        /\ queued' = QueuedWith(queued, again)
    BY DEF Release
  <1>1. again \in Turns \cup {NoTurn}
    OBVIOUS
  <1>2. control[t].terminalSeq = 0 => again = t
    OBVIOUS
  <1> HIDE DEF again
  <1>3. /\ queue' \in Seq(Turns) /\ queued' \in SUBSET Turns
        /\ \A u \in queued' : Queued(queue', u)
        /\ again # NoTurn => Queued(queue', again)
        /\ \A u : Queued(queue, u) => Queued(queue', u)
    <2>1. queue \in Seq(Turns) /\ queued \in SUBSET Turns /\ \A u \in queued : Queued(queue, u)
      BY WakesGive DEF TypeOK
    <2> QED
      BY <1>0, <1>1, <2>1, EnqueueIs
  <1>4. TypeOK'
    BY <1>0, <1>3 DEF TypeOK, resVars, history
  <1>5. ASSUME NEW u, u = OldestClaimable(order', control', durableSeq'), u # NoTurn,
               up', resident', ~permanentError', u \notin claimed'
        PROVE  Queued(queue', u)
    <2>1. u = OldestClaimable(order, control, durableSeq) /\ up /\ resident /\ ~permanentError
      BY <1>0, <1>5 DEF resVars
    <2>2. CASE u = t
      <3>1. PICK i \in DOMAIN order : order[i] = u /\ IsFirst(order, control, durableSeq, i)
        BY <1>5, <2>1, OldestIs DEF TypeOK
      <3>2. again = t
        BY <1>2, <2>2, <3>1 DEF IsFirst
      <3> QED
        BY <1>3, <1>5, <2>2, <3>2
    <2>3. CASE u # t
      BY <1>0, <1>3, <1>5, <2>1, <2>3, WakesGive
    <2> QED
      BY <2>2, <2>3
  <1>6. Wakes'
    BY <1>3, <1>5, WakesWhen
  <1> QED
    BY <1>0, <1>4, <1>6, KeepLogs, KeepResides, KeepTurns, KeepClaimed, KeepFlight, KeepOp,
       KeepPromises DEF resVars, history

-----------------------------------------------------------------------------
(* A Fact joins the pending suffix.                                         *)

(* The process's log grows by the Fact; the Store and the calls in flight    *)
(* do not notice.                                                            *)
LEMMA SuffixGrows ==
    ASSUME Inv, NEW f \in Facts, Fit(View, f), resident, resident', op = NoOp,
           UNCHANGED <<stored, durableSeq, flight, op>>, pending' = Append(pending, f)
    PROVE  /\ pending' \in Seq(Facts) /\ Grows(View, View', f)
           /\ LogsAgree' /\ FlightAgrees' /\ OpAgrees'
           /\ \A i \in DOMAIN pending' : pending'[i] = f \/ \E k \in DOMAIN pending : pending'[i] = pending[k]
  <1> USE DEF Inv
  <1>1. /\ pending \in Seq(Facts) /\ Len(pending) \in Nat /\ durableSeq \in Nat
        /\ stored \in Seq(Facts)
    BY DEF TypeOK
  <1>2. /\ pending' \in Seq(Facts) /\ Len(pending') = Len(pending) + 1
        /\ pending'[Len(pending) + 1] = f
        /\ \A i \in 1..Len(pending) : pending'[i] = pending[i]
        /\ DOMAIN pending = 1..Len(pending) /\ DOMAIN pending' = 1..(Len(pending) + 1)
    BY <1>1
  <1>3. \A i \in DOMAIN pending' : pending'[i] = f \/ \E k \in DOMAIN pending : pending'[i] = pending[k]
    BY <1>1, <1>2
  <1>4. Watermark'
    BY DEF LogsAgree, Watermark
  <1>5. Grows(View, View', f)
    <2> DEFINE n == durableSeq + Len(pending)
    <2>1. n \in Nat /\ View = [i \in 1..n |-> IF i <= durableSeq THEN stored[i] ELSE pending[i - durableSeq]]
      BY <1>1 DEF View
    <2>2. View' = [i \in 1..(n + 1) |-> IF i <= durableSeq THEN stored[i] ELSE pending'[i - durableSeq]]
      <3>1. durableSeq' + Len(pending') = n + 1
        BY <1>1, <1>2
      <3> QED
        BY <3>1 DEF View
    <2>3. View \in Seq(Facts) /\ Len(View) = n
      BY ViewIs DEF LogsAgree, LiveSeq
    <2> HIDE DEF n
    <2>4. \A i \in 1..n : View'[i] = View[i]
      <3> TAKE i \in 1..n
      <3>1. CASE i <= durableSeq
        BY <2>1, <2>2, <3>1
      <3>2. CASE i > durableSeq
        <4>1. i - durableSeq \in 1..Len(pending)
          BY <1>1, <2>1, <3>2 DEF n
        <4> QED
          BY <1>1, <1>2, <2>1, <2>2, <3>2, <4>1
      <3> QED
        BY <1>1, <2>1, <3>1, <3>2
    <2>5. View'[n + 1] = f
      <3> DEFINE k == n + 1
      <3>1. k \in 1..(n + 1) /\ ~(k <= durableSeq) /\ k - durableSeq = Len(pending) + 1
        BY <1>1 DEF n
      <3> HIDE DEF k
      <3>2. View'[k] = pending'[Len(pending) + 1]
        BY <2>2, <3>1
      <3> QED
        BY <1>2, <3>2 DEF k
    <2>6. View' \in Seq(Facts) /\ Len(View') = n + 1
      <3>1. \A i \in 1..n : View[i] \in Facts
        BY <2>1, <2>3
      <3>2. \A i \in 1..(n + 1) : i \in 1..n \/ i = n + 1
        BY <2>1
      <3>3. \A i \in 1..(n + 1) : View'[i] \in Facts
        BY <2>4, <2>5, <3>1, <3>2
      <3>4. View' = [i \in 1..(n + 1) |-> View'[i]]
        BY <2>2
      <3>5. n + 1 \in Nat
        BY <2>1
      <3> QED
        BY <3>3, <3>4, <3>5
    <2> QED
      BY <2>3, <2>4, <2>5, <2>6 DEF Grows
  <1>6. GoodLog(View')
    BY <1>5, ViewIs, GrowthIsGood DEF LogsAgree
  <1>7. LogsAgree'
    BY <1>4, <1>6 DEF LogsAgree
  <1>8. FlightAgrees'
    <2> SUFFICES ASSUME flight # NoFlight
                 PROVE  /\ Len(flight.facts) \in 1..Len(pending')
                        /\ \A k \in 1..Len(flight.facts) : flight.facts[k] = pending'[k]
      BY DEF FlightAgrees
    <2>1. /\ Len(flight.facts) \in 1..Len(pending)
          /\ \A k \in 1..Len(flight.facts) : flight.facts[k] = pending[k]
      BY DEF FlightAgrees
    <2> QED
      BY <1>1, <1>2, <2>1
  <1>9. OpAgrees'
    <2>1. op'.phase = "none" /\ op' = NoOp
      BY NoCallFields
    <2>2. pending' # <<>>
      BY <1>1, <1>2
    <2> QED
      BY <2>1, <2>2 DEF OpAgrees, OpHolds, OpStages, Behind
  <1> QED
    BY <1>2, <1>3, <1>5, <1>7, <1>8, <1>9

(* What a log says of the other Turns does not change.                       *)
LEMMA OthersGrow ==
    ASSUME NEW L \in Seq(Facts), NEW M, NEW f, Grows(L, M, f), NEW t, f.turn # t
    PROVE  /\ \A c : LiveAt(L, c, t) => LiveAt(M, c, t)
           /\ GoneAt(L, t) => GoneAt(M, t)
  <1>1. /\ \A b : Has(M, t, b) <=> Has(L, t, b)
        /\ Ended(M, t) <=> Ended(L, t)
    BY GrowthTells
  <1>2. \A i \in DOMAIN L : i \in DOMAIN M /\ M[i] = L[i]
    BY DEF Grows
  <1>3. ASSUME NEW c, LiveAt(L, c, t)
        PROVE  LiveAt(M, c, t)
    BY <1>1, <1>2, <1>3 DEF LiveAt
  <1> QED
    BY <1>1, <1>3 DEF GoneAt

LEMMA OrderGrows ==
    ASSUME NEW L \in Seq(Facts), NEW M, NEW f, Grows(L, M, f), f.body # "Accepted",
           NEW ord, Ordered(ord, L)
    PROVE  Ordered(ord, M)
  <1> SUFFICES ASSUME NEW i \in DOMAIN ord, NEW j \in DOMAIN ord,
                      NEW p \in DOMAIN M, NEW q \in DOMAIN M,
                      i < j, Opens(M, p, ord[i]), Opens(M, q, ord[j])
               PROVE  p < q
    BY DEF Ordered
  <1>1. /\ DOMAIN L = 1..Len(L) /\ DOMAIN M = 1..(Len(L) + 1) /\ Len(L) \in Nat
        /\ M[Len(L) + 1] = f /\ \A k \in 1..Len(L) : M[k] = L[k]
    BY DEF Grows
  <1>2. p # Len(L) + 1 /\ q # Len(L) + 1
    BY <1>1 DEF Opens
  <1>3. p \in DOMAIN L /\ q \in DOMAIN L
    BY <1>1, <1>2
  <1> QED
    BY <1>1, <1>3 DEF Ordered, Opens

(* The Turns of the Session when one of them, or a new one, gets a Fact.     *)
LEMMA ControlGrows ==
    ASSUME Inv, NEW f \in Facts, Grows(View, View', f),
           \A t \in Turns : t # f.turn => control'[t] = control[t],
           control'[f.turn].live, LiveAt(View', control'[f.turn], f.turn),
           \A i \in DOMAIN pending' : pending'[i] = f \/ \E k \in DOMAIN pending : pending'[i] = pending[k]
    PROVE  ControlAgrees'
  <1> USE DEF Inv
  <1> SUFFICES ASSUME NEW t \in Turns
               PROVE  IF control'[t].live
                      THEN LiveAt(View', control'[t], t)
                      ELSE GoneAt(View', t) /\ \A i \in DOMAIN pending' : pending'[i].turn # t
    BY DEF ControlAgrees
  <1>1. CASE t = f.turn
    BY <1>1
  <1>2. CASE t # f.turn
    <2>1. View \in Seq(Facts)
      BY ViewIs DEF LogsAgree
    <2>2. control'[t] = control[t]
      BY <1>2
    <2>3. /\ \A c : LiveAt(View, c, t) => LiveAt(View', c, t)
          /\ GoneAt(View, t) => GoneAt(View', t)
      BY <1>2, <2>1, OthersGrow
    <2>4. CASE control[t].live
      BY <2>2, <2>3, <2>4 DEF TurnsAgree, ControlAgrees
    <2>5. CASE ~control[t].live
      <3>1. GoneAt(View, t) /\ \A i \in DOMAIN pending : pending[i].turn # t
        BY <2>5 DEF TurnsAgree, ControlAgrees
      <3> QED
        BY <1>2, <2>2, <2>3, <2>5, <3>1
    <2> QED
      BY <2>4, <2>5
  <1> QED
    BY <1>1, <1>2

LEMMA ClaimedGrows ==
    ASSUME Inv, NEW f, Grows(View, View', f), claimed' \subseteq claimed,
           \A t \in claimed' : control'[t].live,
           f.body = "Accepted" => f.turn \notin claimed
    PROVE  ClaimedAgree'
  <1> SUFFICES ASSUME NEW t \in claimed' PROVE RunsNow(View', t)
    BY DEF ClaimedAgree
  <1>1. View \in Seq(Facts) /\ RunsNow(View, t)
    BY ViewIs DEF Inv, LogsAgree, ClaimedAgree
  <1> QED
    BY <1>1, GrowthRuns

LEMMA WaitsGrow ==
    ASSUME Inv, NEW f, Grows(View, View', f), Fit(View, f), waits' \subseteq waits \cup {f}
    PROVE  WaitsAgree'
  <1> SUFFICES ASSUME NEW w \in waits' PROVE w.seq \in DOMAIN View' /\ View'[w.seq] = w
    BY DEF WaitsAgree
  <1>1. /\ View \in Seq(Facts) /\ DOMAIN View = 1..Len(View) /\ Len(View) \in Nat
        /\ DOMAIN View' = 1..(Len(View) + 1)
    BY ViewIs DEF Inv, LogsAgree, Grows
  <1>2. CASE w = f
    BY <1>1, <1>2 DEF Grows, Fit
  <1>3. CASE w \in waits
    <2>1. w.seq \in DOMAIN View /\ View[w.seq] = w
      BY <1>3 DEF Inv, Promises, WaitsAgree
    <2> QED
      BY <1>1, <2>1 DEF Grows
  <1> QED
    BY <1>2, <1>3

(* The process may add, and the Store may commit, a Fact of a claimed Turn   *)
(* that has no terminal.                                                     *)
LEMMA ClaimedFits ==
    ASSUME Inv, NEW f \in Facts, f.seq = LiveSeq + 1,
           f.turn \in claimed, control[f.turn].terminalSeq = 0,
           f.body \notin {"Accepted", "CancelRequested"},
           f.body = "Started" => Has(View, f.turn, "Intent"),
           f.body \in Outcomes => (f.body = "Cancelled" <=> control[f.turn].cancelRequested)
    PROVE  Fit(View, f)
  <1> USE DEF Inv
  <1>1. f.turn \in Turns
    BY FactFields
  <1>2. control[f.turn].live /\ RunsNow(View, f.turn)
    BY DEF ClaimedAgree
  <1>3. LiveAt(View, control[f.turn], f.turn)
    BY <1>1, <1>2 DEF TurnsAgree, ControlAgrees
  <1>4. Len(View) = LiveSeq
    BY ViewIs DEF LogsAgree
  <1>5. /\ Has(View, f.turn, "Accepted") /\ ~Ended(View, f.turn)
        /\ control[f.turn].cancelRequested <=> Has(View, f.turn, "CancelRequested")
    BY <1>3 DEF LiveAt
  <1>6. IsTerminal(f) => (f.body = "Cancelled" <=> Has(View, f.turn, "CancelRequested"))
    BY <1>5 DEF IsTerminal
  <1> QED
    BY <1>2, <1>4, <1>5, <1>6 DEF Fit

(* A Session with a live Turn is resident.                                   *)
LEMMA LiveResides ==
    ASSUME Inv, NEW t \in Turns, control[t].live
    PROVE  resident /\ up
  <1>1. \E i \in DOMAIN order : order[i] = t
    BY DEF Inv, TurnsAgree, OrderAgrees
  <1>2. order # <<>>
    BY <1>1
  <1> QED
    BY <1>2 DEF Inv, Resides, TypeOK

LEMMA CancelKeeps ==
    ASSUME Inv, NEW t \in Turns, Cancel(t)
    PROVE  Inv'
  <1> USE DEF Inv
  <1> DEFINE f == Fact(LiveSeq + 1, t, "CancelRequested")
  <1>0. /\ up /\ op = NoOp /\ resident /\ control[t].live /\ control[t].terminalSeq = 0
        /\ ~control[t].cancelRequested
        /\ pending' = Append(pending, f) /\ waits' = waits \cup {f}
        /\ control' = [control EXCEPT ![t].cancelRequested = TRUE]
        /\ UNCHANGED <<stored, up, resident, durableSeq, order, claimed, token, retryFailures,
                       permanentError, qVars, flight, op, guard, history>>
    BY DEF Cancel
  <1>1. f \in Facts /\ f.seq = LiveSeq + 1 /\ f.turn = t /\ f.body = "CancelRequested"
    <2>1. LiveSeq + 1 \in Nat \ {0} /\ "CancelRequested" \in Bodies
      BY ViewIs DEF LogsAgree, Bodies
    <2> QED
      BY <2>1, FactTyped
  <1> HIDE DEF f
  <1>2. control \in [Turns -> Controls]
    BY DEF TypeOK
  <1>3. /\ control' \in [Turns -> Controls]
        /\ \A u \in Turns : u # t => control'[u] = control[u]
        /\ control'[t].live = control[t].live /\ control'[t].cancelRequested = TRUE
        /\ control'[t].terminalSeq = control[t].terminalSeq
        /\ control'[t].effect = control[t].effect
    BY <1>0, <1>2 DEF Controls
  <1>4. LiveAt(View, control[t], t)
    BY <1>0 DEF TurnsAgree, ControlAgrees
  <1>5. Fit(View, f)
    <2>1. Len(View) = LiveSeq
      BY ViewIs DEF LogsAgree
    <2>2. ~IsTerminal(f)
      BY <1>1 DEF IsTerminal, Outcomes
    <2> QED
      BY <1>0, <1>1, <1>4, <2>1, <2>2 DEF Fit, LiveAt
  <1>6. /\ pending' \in Seq(Facts) /\ Grows(View, View', f)
        /\ LogsAgree' /\ FlightAgrees' /\ OpAgrees'
        /\ \A i \in DOMAIN pending' : pending'[i] = f \/ \E k \in DOMAIN pending : pending'[i] = pending[k]
    BY <1>0, <1>1, <1>5, SuffixGrows
  <1>7. TypeOK'
    BY <1>0, <1>1, <1>3, <1>6 DEF TypeOK, qVars, history
  <1>8. Resides'
    BY <1>0 DEF Resides
  <1>9. TurnsAgree'
    <2>1. LiveAt(View', control'[t], t)
      <3>0. View \in Seq(Facts)
        BY ViewIs DEF LogsAgree
      <3>1. /\ \A b : Has(View', t, b) <=> Has(View, t, b) \/ b = "CancelRequested"
            /\ Ended(View', t) <=> Ended(View, t)
        <4>1. ~IsTerminal(f)
          BY <1>1 DEF IsTerminal, Outcomes
        <4> QED
          BY <1>1, <1>6, <3>0, <4>1, GrowthTells
      <3> QED
        BY <1>0, <1>3, <1>4, <3>1 DEF LiveAt
    <2>2. ControlAgrees'
      BY <1>0, <1>1, <1>3, <1>6, <2>1, ControlGrows
    <2>3. Ordered(order, View')
      BY <1>1, <1>6, ViewIs, OrderGrows DEF LogsAgree, TurnsAgree, OrderAgrees
    <2>4. \A u \in Turns : control'[u].live = control[u].live
      BY <1>3
    <2>5. OrderAgrees'
      BY <1>0, <2>3, <2>4 DEF TurnsAgree, OrderAgrees
    <2> QED
      BY <2>2, <2>5 DEF TurnsAgree
  <1>10. ClaimedAgree'
    <2>1. \A u \in claimed' : control'[u].live
      BY <1>0, <1>3 DEF ClaimedAgree, TypeOK
    <2> QED
      BY <1>0, <1>1, <1>6, <2>1, ClaimedGrows
  <1>11. Promises'
    <2>1. WaitsAgree'
      BY <1>0, <1>5, <1>6, WaitsGrow
    <2>2. PendingFence'
      BY <1>0, <1>1, <1>6 DEF Promises, PendingFence
    <2>3. AckedIsStored' /\ TokenIsDurable'
      BY <1>0 DEF Promises, AckedIsStored, TokenIsDurable, history
    <2> QED
      BY <2>1, <2>2, <2>3 DEF Promises
  <1>12. Wakes'
    <2>1. order \in Seq(Turns) /\ \A i \in DOMAIN order : order[i] \in Turns
      BY DEF TypeOK
    <2>2. \A u \in Turns : control'[u].terminalSeq = control[u].terminalSeq
      BY <1>3
    <2>3. OldestClaimable(order, control', durableSeq) = OldestClaimable(order, control, durableSeq)
      BY <2>1, <2>2, OldestSame
    <2> QED
      BY <1>0, <2>3, WakesGive, WakesWhen DEF qVars
  <1> QED
    BY <1>6, <1>7, <1>8, <1>9, <1>10, <1>11, <1>12

(* A Fact of a claimed Turn whose control is changed to match it.            *)
LEMMA PublicationKeeps ==
    ASSUME Inv, NEW t \in Turns, MayPublish(t), NEW f \in Facts,
           f.turn = t, f.body \notin {"Accepted", "CancelRequested"}, Fit(View, f),
           f.body = "Started" => IntentIsDurable(t),
           pending' = Append(pending, f),
           control' \in [Turns -> Controls],
           \A u \in Turns : u # t => control'[u] = control[u],
           control'[t].live, control'[t].cancelRequested = control[t].cancelRequested,
           ~IsTerminal(f) => control'[t].terminalSeq = control[t].terminalSeq,
           IsTerminal(f) => control'[t].terminalSeq = f.seq,
           control'[t].effect = "intent" => f.body = "Intent",
           UNCHANGED <<stored, up, resident, durableSeq, order, claimed, token, retryFailures,
                       permanentError, qVars, flight, op, guard, waits, history>>
    PROVE  TypeOK' /\ LogsAgree' /\ Resides' /\ TurnsAgree' /\ ClaimedAgree' /\ FlightAgrees'
           /\ OpAgrees' /\ Promises'
  <1> USE DEF Inv
  <1>0. /\ up /\ op = NoOp /\ resident /\ ~permanentError
        /\ t \in claimed /\ control[t].live /\ control[t].terminalSeq = 0
    BY DEF MayPublish
  <1>4. LiveAt(View, control[t], t)
    BY <1>0 DEF TurnsAgree, ControlAgrees
  <1>6. /\ pending' \in Seq(Facts) /\ Grows(View, View', f)
        /\ LogsAgree' /\ FlightAgrees' /\ OpAgrees'
        /\ \A i \in DOMAIN pending' : pending'[i] = f \/ \E k \in DOMAIN pending : pending'[i] = pending[k]
    BY <1>0, SuffixGrows
  <1>7. TypeOK'
    BY <1>6 DEF TypeOK, qVars, history
  <1>8. Resides'
    BY <1>0 DEF Resides
  <1>9. TurnsAgree'
    <2>1. LiveAt(View', control'[t], t)
      <3>0. View \in Seq(Facts)
        BY ViewIs DEF LogsAgree
      <3>1. /\ \A b : Has(View', t, b) <=> Has(View, t, b) \/ f.body = b
            /\ Ended(View', t) <=> Ended(View, t) \/ IsTerminal(f)
        BY <1>6, <3>0, GrowthTells
      <3>2. f.seq = Len(View) + 1 /\ f.seq \in DOMAIN View' /\ View'[f.seq] = f /\ f.seq # 0
        <4>1. Len(View) \in Nat /\ DOMAIN View' = 1..(Len(View) + 1)
          BY <1>6, <3>0 DEF Grows
        <4> QED
          BY <1>6, <4>1 DEF Grows, Fit
      <3>3. CASE IsTerminal(f)
        BY <1>0, <1>4, <3>1, <3>2, <3>3 DEF LiveAt
      <3>4. CASE ~IsTerminal(f)
        BY <1>0, <1>4, <3>1, <3>4 DEF LiveAt
      <3> QED
        BY <3>3, <3>4
    <2>2. ControlAgrees'
      BY <1>6, <2>1, ControlGrows
    <2>3. Ordered(order, View')
      BY <1>6, ViewIs, OrderGrows DEF LogsAgree, TurnsAgree, OrderAgrees
    <2>4. \A u \in Turns : control'[u].live <=> control[u].live
      BY <1>0
    <2>5. OrderAgrees'
      BY <2>3, <2>4 DEF TurnsAgree, OrderAgrees
    <2> QED
      BY <2>2, <2>5 DEF TurnsAgree
  <1>10. ClaimedAgree'
    <2>1. \A u \in claimed' : control'[u].live
      BY DEF ClaimedAgree, TypeOK
    <2> QED
      BY <1>6, <2>1, ClaimedGrows
  <1>11. Promises'
    <2>1. WaitsAgree'
      BY <1>6, WaitsGrow
    <2>2. PendingFence'
      <3>1. ASSUME f.body = "Started"
            PROVE  \E j \in 1..durableSeq : stored[j].turn = t /\ stored[j].body = "Intent"
        <4>1. Has(View, t, "Intent")
          BY <3>1 DEF Fit
        <4>2. PICK j \in DOMAIN View : View[j].turn = t /\ View[j].body = "Intent"
          BY <4>1 DEF Has
        <4>3. ~(j > durableSeq)
          BY <3>1, <4>2, ViewIs DEF LogsAgree, IntentIsDurable
        <4>4. j \in 1..durableSeq
          BY <4>2, <4>3, ViewIs DEF LogsAgree, TypeOK
        <4> QED
          BY <4>2, <4>4, ViewIs DEF LogsAgree
      <3> QED
        BY <1>6, <3>1 DEF Promises, PendingFence
    <2>3. AckedIsStored' /\ TokenIsDurable'
      BY DEF Promises, AckedIsStored, TokenIsDurable, history
    <2> QED
      BY <2>1, <2>2, <2>3 DEF Promises
  <1> QED
    BY <1>6, <1>7, <1>8, <1>9, <1>10, <1>11

LEMMA PublishKeeps ==
    ASSUME Inv, NEW t \in Turns, NEW b \in EffectBodies, Publish(t, b)
    PROVE  Inv'
  <1> USE DEF Inv
  <1> DEFINE f == Fact(LiveSeq + 1, t, b)
             e == AfterEffect(b)
  <1>0. /\ MayPublish(t) /\ EffectAdmits(t, b)
        /\ pending' = Append(pending, f)
        /\ control' = [control EXCEPT ![t].effect = e]
        /\ UNCHANGED <<stored, up, resident, durableSeq, order, claimed, token, retryFailures,
                       permanentError, qVars, flight, op, guard, waits, history>>
    BY DEF Publish
  <1>1. /\ f \in Facts /\ f.seq = LiveSeq + 1 /\ f.turn = t /\ f.body = b
        /\ b \notin {"Accepted", "CancelRequested"} /\ b \notin Outcomes
    <2>1. LiveSeq + 1 \in Nat \ {0} /\ b \in Bodies
      BY ViewIs DEF LogsAgree, Bodies
    <2>2. b \notin {"Accepted", "CancelRequested"} /\ b \notin Outcomes
      BY DEF EffectBodies, Outcomes
    <2> QED
      BY <2>1, <2>2, FactTyped
  <1>2. e \in {"intent", "started", "settled"} /\ (e = "intent" => b = "Intent")
    BY DEF AfterEffect, EffectBodies
  <1> HIDE DEF f, e
  <1>3. control \in [Turns -> Controls]
    BY DEF TypeOK
  <1>4. /\ control' \in [Turns -> Controls]
        /\ \A u \in Turns : u # t => control'[u] = control[u]
        /\ control'[t].live = control[t].live
        /\ control'[t].cancelRequested = control[t].cancelRequested
        /\ control'[t].terminalSeq = control[t].terminalSeq
        /\ control'[t].effect = e
    BY <1>0, <1>2, <1>3 DEF Controls
  <1>5. t \in claimed /\ control[t].live /\ control[t].terminalSeq = 0
    BY <1>0 DEF MayPublish
  <1>6. ASSUME b = "Started"
        PROVE  IntentIsDurable(t) /\ Has(View, t, "Intent")
    <2>1. control[t].effect = "intent" /\ IntentIsDurable(t)
      BY <1>0, <1>6 DEF EffectAdmits
    <2>2. LiveAt(View, control[t], t)
      BY <1>5 DEF TurnsAgree, ControlAgrees
    <2> QED
      BY <2>1, <2>2 DEF LiveAt
  <1>7. Fit(View, f)
    BY <1>1, <1>5, <1>6, ClaimedFits
  <1>8. ~IsTerminal(f)
    BY <1>1 DEF IsTerminal
  <1>9. TypeOK' /\ LogsAgree' /\ Resides' /\ TurnsAgree' /\ ClaimedAgree' /\ FlightAgrees'
        /\ OpAgrees' /\ Promises'
    BY <1>0, <1>1, <1>2, <1>4, <1>5, <1>6, <1>7, <1>8, PublicationKeeps
  <1>10. Wakes'
    <2>1. order \in Seq(Turns) /\ \A i \in DOMAIN order : order[i] \in Turns
      BY DEF TypeOK
    <2>2. \A u \in Turns : control'[u].terminalSeq = control[u].terminalSeq
      BY <1>4
    <2>3. OldestClaimable(order, control', durableSeq) = OldestClaimable(order, control, durableSeq)
      BY <2>1, <2>2, OldestSame
    <2> QED
      BY <1>0, <2>3, WakesGive, WakesWhen DEF qVars
  <1> QED
    BY <1>9, <1>10

LEMMA CanonicalIs ==
    ASSUME NEW p \in Proposals, NEW c \in BOOLEAN
    PROVE  /\ CanonicalOutcome(p, c) \in Outcomes
           /\ CanonicalOutcome(p, c) = "Cancelled" <=> c
  BY DEF CanonicalOutcome, Proposals, Outcomes

LEMMA PublishTerminalKeeps ==
    ASSUME Inv, NEW t \in Turns, NEW p \in Proposals, PublishTerminal(t, p)
    PROVE  Inv'
  <1> USE DEF Inv
  <1> DEFINE o == CanonicalOutcome(p, control[t].cancelRequested)
             f == Fact(LiveSeq + 1, t, o)
  <1>0. /\ MayPublish(t)
        /\ pending' = Append(pending, f)
        /\ control' = [control EXCEPT ![t].terminalSeq = LiveSeq + 1, ![t].effect = "none"]
        /\ UNCHANGED <<stored, up, resident, durableSeq, order, claimed, token, retryFailures,
                       permanentError, qVars, flight, op, guard, waits, history>>
    BY DEF PublishTerminal
  <1>a. o \in Outcomes /\ (o = "Cancelled" <=> control[t].cancelRequested)
    <2>1. control[t].cancelRequested \in BOOLEAN
      BY ControlFields
    <2> QED
      BY <2>1, CanonicalIs
  <1> HIDE DEF o
  <1>1. /\ f \in Facts /\ f.seq = LiveSeq + 1 /\ f.turn = t /\ f.body = o
        /\ o \notin {"Accepted", "CancelRequested", "Started"} /\ o # "Intent"
    <2>1. LiveSeq + 1 \in Nat \ {0} /\ o \in Bodies
      BY <1>a, ViewIs DEF LogsAgree, Bodies
    <2>2. o \notin {"Accepted", "CancelRequested", "Started"} /\ o # "Intent"
      BY <1>a DEF Outcomes
    <2> QED
      BY <2>1, <2>2, FactTyped
  <1> HIDE DEF f
  <1>3. control \in [Turns -> Controls] /\ LiveSeq + 1 \in Nat
    BY ViewIs DEF LogsAgree, TypeOK
  <1>4. /\ control' \in [Turns -> Controls]
        /\ \A u \in Turns : u # t => control'[u] = control[u]
        /\ control'[t].live = control[t].live
        /\ control'[t].cancelRequested = control[t].cancelRequested
        /\ control'[t].terminalSeq = LiveSeq + 1
        /\ control'[t].effect = "none"
    BY <1>0, <1>3 DEF Controls
  <1>5. t \in claimed /\ control[t].live /\ control[t].terminalSeq = 0
    BY <1>0 DEF MayPublish
  <1>7. Fit(View, f)
    BY <1>1, <1>5, <1>a, ClaimedFits
  <1>8. IsTerminal(f)
    BY <1>1, <1>a DEF IsTerminal
  <1>9. TypeOK' /\ LogsAgree' /\ Resides' /\ TurnsAgree' /\ ClaimedAgree' /\ FlightAgrees'
        /\ OpAgrees' /\ Promises'
    BY <1>0, <1>1, <1>4, <1>5, <1>7, <1>8, PublicationKeeps
  <1>10. OldestClaimable(order, control', durableSeq) = NoTurn
    <2> DEFINE u == OldestClaimable(order, control', durableSeq)
    <2> SUFFICES ASSUME u # NoTurn PROVE FALSE
      OBVIOUS
    <2>0. order \in Seq(Turns) /\ durableSeq \in Nat /\ LiveSeq \in Nat /\ durableSeq <= LiveSeq
      BY ViewIs DEF LogsAgree, TypeOK
    <2>1. PICK i \in DOMAIN order : order[i] = u /\ IsFirst(order, control', durableSeq, i)
      BY <2>0, OldestIs
    <2> HIDE DEF u
    <2>2. control'[u].terminalSeq = 0 /\ u \in Turns /\ u # t
      BY <1>3, <1>4, <2>0, <2>1 DEF IsFirst
    <2>3. control[u].terminalSeq = 0 /\ control[u].live
      BY <1>4, <2>1, <2>2 DEF TurnsAgree, OrderAgrees
    <2>4. PICK k \in DOMAIN order : order[k] = t
      BY <1>5 DEF TurnsAgree, OrderAgrees
    <2>5. k \notin 1..(i - 1)
      <3>1. control'[order[k]].terminalSeq \notin 1..durableSeq
        BY <1>4, <2>0, <2>4
      <3> QED
        BY <2>1, <3>1 DEF IsFirst
    <2>6. i < k
      <3>1. k \in Nat /\ i \in Nat /\ k >= 1 /\ i # k
        BY <2>0, <2>1, <2>2, <2>4
      <3> QED
        BY <2>5, <3>1
    <2>7. LiveAt(View, control[u], u) /\ LiveAt(View, control[t], t)
      BY <1>5, <2>2, <2>3 DEF TurnsAgree, ControlAgrees
    <2>8. PICK a \in DOMAIN View : Opens(View, a, u)
      BY <2>7 DEF LiveAt, Has, Opens
    <2>9. PICK b \in DOMAIN View : Opens(View, b, t)
      BY <2>7 DEF LiveAt, Has, Opens
    <2>10. a < b
      BY <2>1, <2>4, <2>6, <2>8, <2>9 DEF TurnsAgree, OrderAgrees, Ordered
    <2>11. Ended(View, u)
      BY <1>5, <2>8, <2>9, <2>10 DEF ClaimedAgree, RunsNow, Opens
    <2> QED
      BY <2>3, <2>7, <2>11 DEF LiveAt
  <1>11. Wakes'
    BY <1>0, <1>10, WakesGive, WakesWhen DEF qVars
  <1> QED
    BY <1>9, <1>11

-----------------------------------------------------------------------------
(* Submission.                                                              *)

(* A queue with one more entry at its end.                                    *)
LEMMA OneMoreIs ==
    ASSUME NEW S, NEW q \in Seq(S), NEW x \in S, NEW r, r = Append(q, x)
    PROVE  /\ r \in Seq(S) /\ Len(r) = Len(q) + 1 /\ r[Len(q) + 1] = x
           /\ \A i \in DOMAIN q : i \in DOMAIN r /\ r[i] = q[i]
           /\ \A i \in DOMAIN r : i \in DOMAIN q \/ i = Len(q) + 1
           /\ Len(q) + 1 \in DOMAIN r /\ Len(q) \in Nat
           /\ DOMAIN q = 1..Len(q)
  <1>1. r \in Seq(S) /\ Len(r) = Len(q) + 1 /\ r[Len(q) + 1] = x
    OBVIOUS
  <1>2. Len(q) \in Nat /\ DOMAIN q = 1..Len(q) /\ DOMAIN r = 1..(Len(q) + 1)
    BY <1>1
  <1>3. \A i \in DOMAIN q : r[i] = q[i]
    BY <1>2
  <1> QED
    BY <1>1, <1>2, <1>3

(* A new Turn joins the Session: a Fact of the suffix when it is submitted,   *)
(* a committed Fact when a mailbox message starts it.                         *)
LEMMA AcceptanceOpens ==
    ASSUME Inv, NEW t \in Turns, NEW f \in Facts, Grows(View, View', f),
           f.turn = t, f.body = "Accepted", ~Has(View, t, "Accepted"), ~control[t].live,
           \A i \in DOMAIN pending' : pending'[i] = f \/ \E k \in DOMAIN pending : pending'[i] = pending[k],
           durableSeq' \in Nat, durableSeq' = durableSeq \/ order = <<>>, resident,
           control' = [control EXCEPT ![t] = AcceptedControl],
           order' = Append(order, t),
           queue' = EnqueueIn(queue, queued, t), queued' = QueuedWith(queued, t),
           UNCHANGED <<up, resident, claimed, permanentError>>
    PROVE  /\ control' \in [Turns -> Controls] /\ order' \in Seq(Turns)
           /\ queue' \in Seq(Turns) /\ queued' \in SUBSET Turns
           /\ TurnsAgree' /\ ClaimedAgree' /\ Wakes'
  <1> USE DEF Inv
  <1>1. View \in Seq(Facts) /\ GoodLog(View) /\ order \in Seq(Turns)
    BY ViewIs DEF LogsAgree, TypeOK
  <1>2. ~IsTerminal(f)
    BY DEF IsTerminal, Outcomes
  <1>3. /\ control' \in [Turns -> Controls]
        /\ \A u \in Turns : u # t => control'[u] = control[u]
        /\ control'[t] = AcceptedControl
    <2>1. control \in [Turns -> Controls] /\ AcceptedControl \in Controls
      BY NoCallFields DEF TypeOK
    <2> QED
      BY <2>1
  <1>4. /\ queue' \in Seq(Turns) /\ queued' \in SUBSET Turns
        /\ \A u \in queued' : Queued(queue', u)
        /\ Queued(queue', t)
        /\ \A u : Queued(queue, u) => Queued(queue', u)
    <2>1. queue \in Seq(Turns) /\ queued \in SUBSET Turns /\ \A u \in queued : Queued(queue, u)
      BY WakesGive DEF TypeOK
    <2>2. t # NoTurn
      BY PipelineAssumption
    <2> QED
      BY <2>1, <2>2, EnqueueIs
  <1>5. /\ order' \in Seq(Turns) /\ Len(order') = Len(order) + 1 /\ order'[Len(order) + 1] = t
        /\ \A i \in DOMAIN order : i \in DOMAIN order' /\ order'[i] = order[i]
        /\ \A i \in DOMAIN order' : i \in DOMAIN order \/ i = Len(order) + 1
        /\ Len(order) + 1 \in DOMAIN order' /\ Len(order) \in Nat
        /\ DOMAIN order = 1..Len(order)
    BY <1>1, OneMoreIs
  <1>6. ControlAgrees'
    <2>1. /\ \A b : Has(View', t, b) <=> Has(View, t, b) \/ b = "Accepted"
          /\ Ended(View', t) <=> Ended(View, t)
      BY <1>1, <1>2, GrowthTells
    <2>2. \A i \in DOMAIN View : View[i].turn # t
      BY <1>1, GoodLogOpens
    <2>3. ~Ended(View, t) /\ ~Has(View, t, "CancelRequested")
      BY <2>2 DEF Ended, Has
    <2>4. LiveAt(View', control'[t], t) /\ control'[t].live
      BY <1>3, <2>1, <2>3, NoCallFields DEF LiveAt
    <2> QED
      BY <1>3, <2>4, ControlGrows
  <1>7. OrderAgrees'
    <2>1. \A u \in Turns : control'[u].live <=> \E i \in DOMAIN order' : order'[i] = u
      <3> SUFFICES ASSUME NEW u \in Turns
                   PROVE  control'[u].live <=> \E i \in DOMAIN order' : order'[i] = u
        OBVIOUS
      <3>1. CASE u = t
        BY <1>3, <1>5, <3>1, NoCallFields
      <3>2. CASE u # t
        <4>1. control[u].live <=> \E i \in DOMAIN order : order[i] = u
          BY DEF TurnsAgree, OrderAgrees
        <4> QED
          BY <1>3, <1>5, <3>2, <4>1
      <3> QED
        BY <3>1, <3>2
    <2>2. Ordered(order', View')
      <3> SUFFICES ASSUME NEW i \in DOMAIN order', NEW j \in DOMAIN order',
                          NEW p \in DOMAIN View', NEW q \in DOMAIN View',
                          i < j, Opens(View', p, order'[i]), Opens(View', q, order'[j])
                   PROVE  p < q
        BY DEF Ordered
      <3>1. /\ DOMAIN View = 1..Len(View) /\ DOMAIN View' = 1..(Len(View) + 1) /\ Len(View) \in Nat
            /\ View'[Len(View) + 1] = f /\ \A k \in 1..Len(View) : View'[k] = View[k]
        BY <1>1 DEF Grows
      <3>2. i \in DOMAIN order /\ order'[i] = order[i]
        BY <1>5
      <3>3. order[i] # t
        BY <3>2 DEF TurnsAgree, OrderAgrees
      <3>4. p \in DOMAIN View /\ Opens(View, p, order[i])
        BY <3>1, <3>2, <3>3 DEF Opens
      <3>5. CASE j \in DOMAIN order
        <4>1. order[j] # t /\ order'[j] = order[j]
          BY <1>5, <3>5 DEF TurnsAgree, OrderAgrees
        <4>2. q \in DOMAIN View /\ Opens(View, q, order[j])
          BY <3>1, <4>1 DEF Opens
        <4> QED
          BY <3>2, <3>4, <3>5, <4>2 DEF TurnsAgree, OrderAgrees, Ordered
      <3>6. CASE j = Len(order) + 1
        <4>1. q = Len(View) + 1
          <5> SUFFICES ASSUME q \in DOMAIN View PROVE FALSE
            BY <3>1
          <5>1. Opens(View, q, t)
            BY <1>5, <3>1, <3>6 DEF Opens
          <5> QED
            BY <5>1 DEF Opens, Has
        <4> QED
          BY <3>1, <3>4, <4>1
      <3> QED
        BY <1>5, <3>5, <3>6
    <2> QED
      BY <2>1, <2>2 DEF OrderAgrees
  <1>8. ClaimedAgree'
    <2>1. t \notin claimed /\ \A u \in claimed' : control'[u].live
      BY <1>3 DEF ClaimedAgree, TypeOK
    <2> QED
      BY <2>1, ClaimedGrows
  <1>9. Wakes'
    <2>1. ASSUME NEW u, u = OldestClaimable(order', control', durableSeq'), u # NoTurn,
                 up', resident', ~permanentError', u \notin claimed'
          PROVE  Queued(queue', u)
      <3>1. CASE u = t
        BY <1>4, <3>1
      <3>2. CASE u # t
        <4>1. PICK i \in DOMAIN order' : order'[i] = u /\ IsFirst(order', control', durableSeq', i)
          BY <1>5, <2>1, OldestIs
        <4>2. i \in DOMAIN order /\ order[i] = u
          BY <1>5, <3>2, <4>1
        <4>3. \A j \in DOMAIN order : /\ order'[j] = order[j] /\ order[j] \in Turns
                                      /\ control'[order[j]] = control[order[j]]
          BY <1>1, <1>3, <1>5 DEF TurnsAgree, OrderAgrees
        <4>4. durableSeq' = durableSeq /\ durableSeq \in Nat
          BY <4>2 DEF TypeOK
        <4>5. 1..(i - 1) \subseteq DOMAIN order
          BY <1>5, <4>2
        <4>6. IsFirst(order, control, durableSeq, i)
          BY <4>1, <4>2, <4>3, <4>4, <4>5 DEF IsFirst
        <4>7. u = OldestClaimable(order, control, durableSeq)
          BY <1>1, <4>2, <4>4, <4>6, OldestIs
        <4>8. Queued(queue, u)
          BY <2>1, <4>7, WakesGive
        <4> QED
          BY <1>4, <4>8
      <3> QED
        BY <3>1, <3>2
    <2> QED
      BY <1>4, <2>1, WakesWhen
  <1> QED
    BY <1>3, <1>4, <1>5, <1>6, <1>7, <1>8, <1>9 DEF TurnsAgree

LEMMA AcceptTurnKeeps ==
    ASSUME Inv, NEW t \in Turns, up, op = NoOp, AcceptTurn(t),
           UNCHANGED <<stored, up, claimed, token, flight, op, guard, faults, crashes>>
    PROVE  Inv'
  <1> USE DEF Inv
  <1> DEFINE f == Fact(LiveSeq + 1, t, "Accepted")
  <1>0. /\ resident /\ ~Has(stored, t, "Accepted") /\ ~control[t].live
        /\ pending' = Append(pending, f)
        /\ control' = [control EXCEPT ![t] = AcceptedControl]
        /\ order' = Append(order, t)
        /\ queue' = EnqueueIn(queue, queued, t)
        /\ queued' = QueuedWith(queued, t)
        /\ waits' = waits \cup {f}
        /\ UNCHANGED <<resident, durableSeq, retryFailures, permanentError, acked>>
    BY DEF AcceptTurn
  <1>1. f \in Facts /\ f.seq = LiveSeq + 1 /\ f.turn = t /\ f.body = "Accepted"
    <2>1. LiveSeq + 1 \in Nat \ {0} /\ "Accepted" \in Bodies
      BY ViewIs DEF LogsAgree, Bodies
    <2> QED
      BY <2>1, FactTyped
  <1> HIDE DEF f
  <1>2. ~Has(View, t, "Accepted")
    <2>1. \A i \in DOMAIN pending : pending[i].turn # t
      BY <1>0 DEF TurnsAgree, ControlAgrees
    <2>2. ASSUME NEW i \in DOMAIN View, View[i].turn = t, View[i].body = "Accepted"
          PROVE  FALSE
      <3>1. ~(i > durableSeq)
        BY <2>1, <2>2, ViewIs DEF LogsAgree
      <3>2. i \in 1..durableSeq
        BY <3>1, ViewIs DEF LogsAgree, TypeOK
      <3>3. i \in DOMAIN stored /\ stored[i] = View[i]
        BY <3>2, ViewIs DEF LogsAgree
      <3> QED
        BY <1>0, <2>2, <3>3 DEF Has
    <2> QED
      BY <2>2 DEF Has
  <1>3. Fit(View, f)
    <2>1. ~IsTerminal(f) /\ Len(View) = LiveSeq
      BY <1>1, ViewIs DEF IsTerminal, Outcomes, LogsAgree
    <2> QED
      BY <1>1, <1>2, <2>1 DEF Fit
  <1>4. /\ pending' \in Seq(Facts) /\ Grows(View, View', f)
        /\ LogsAgree' /\ FlightAgrees' /\ OpAgrees'
        /\ \A i \in DOMAIN pending' : pending'[i] = f \/ \E k \in DOMAIN pending : pending'[i] = pending[k]
    BY <1>0, <1>1, <1>3, SuffixGrows
  <1>5. /\ control' \in [Turns -> Controls] /\ order' \in Seq(Turns)
        /\ queue' \in Seq(Turns) /\ queued' \in SUBSET Turns
        /\ TurnsAgree' /\ ClaimedAgree' /\ Wakes'
    <2>1. durableSeq' = durableSeq /\ durableSeq' \in Nat
      BY <1>0 DEF TypeOK
    <2> QED
      BY <1>0, <1>1, <1>2, <1>4, <2>1, AcceptanceOpens
  <1>6. TypeOK'
    BY <1>0, <1>1, <1>4, <1>5 DEF TypeOK
  <1>7. Resides'
    BY <1>0 DEF Resides
  <1>8. Promises'
    <2>1. WaitsAgree'
      BY <1>0, <1>3, <1>4, WaitsGrow
    <2>2. PendingFence'
      BY <1>0, <1>1, <1>4 DEF Promises, PendingFence
    <2>3. AckedIsStored' /\ TokenIsDurable'
      BY <1>0 DEF Promises, AckedIsStored, TokenIsDurable
    <2> QED
      BY <2>1, <2>2, <2>3 DEF Promises
  <1> QED
    BY <1>4, <1>5, <1>6, <1>7, <1>8

(* A reservation is given back, and an idle Session may go with it.          *)
LEMMA DropKeeps ==
    ASSUME Inv, resident' \in BOOLEAN, resident' => resident,
           ~resident' => ~resident \/ Idle,
           op' = op \/ (op' = NoOp /\ op.phase \in {"none", "flush"}),
           guard' \/ op'.kind = "accept" => resident',
           UNCHANGED <<stored, up, durableSeq, pending, control, order, permanentError, claimed,
                       qVars, flight>>
    PROVE  /\ LogsAgree' /\ Resides' /\ TurnsAgree' /\ ClaimedAgree' /\ FlightAgrees'
           /\ OpAgrees' /\ Wakes'
  <1> USE DEF Inv
  <1>1. Resides'
    BY DEF Resides, Idle
  <1>2. FlightAgrees'
    BY DEF FlightAgrees, Idle
  <1>3. OpAgrees'
    <2>1. CASE op' = op
      BY <2>1, KeepOp
    <2>2. CASE op' = NoOp /\ op.phase \in {"none", "flush"}
      BY <2>2, NoCallFields DEF OpAgrees, OpHolds, OpStages, Behind
    <2> QED
      BY <2>1, <2>2
  <1> QED
    BY <1>1, <1>2, <1>3, KeepLogs, KeepTurns, KeepClaimed, KeepWakes DEF qVars

LEMMA SubmitKeeps ==
    ASSUME Inv, NEW t \in Turns, Submit(t)
    PROVE  Inv'
  <1> USE DEF Inv
  <1>0. /\ up /\ op = NoOp
        /\ UNCHANGED <<stored, up, claimed, token, flight, op, guard, faults, crashes>>
    BY DEF Submit
  <1>1. CASE AcceptTurn(t)
    BY <1>0, <1>1, AcceptTurnKeeps
  <1>2. ASSUME NEW i \in DOMAIN pending, waits' = waits \cup {pending[i]},
               UNCHANGED <<resVars, qVars, acked>>
        PROVE  Inv'
    <2>1. View' = View
      BY <1>0, <1>2, KeepLogs DEF resVars
    <2>2. pending[i] \in Facts
      BY DEF TypeOK
    <2>3. TypeOK'
      BY <1>0, <1>2, <2>2 DEF TypeOK, resVars, qVars
    <2>4. WaitsAgree'
      <3>1. durableSeq + i \in DOMAIN View /\ View[durableSeq + i] = pending[i]
        BY ViewIs DEF LogsAgree
      <3>2. pending[i].seq = durableSeq + i
        BY <3>1 DEF LogsAgree, GoodLog, Numbered
      <3> QED
        BY <1>2, <2>1, <3>1, <3>2 DEF Promises, WaitsAgree
    <2>5. PendingFence' /\ AckedIsStored' /\ TokenIsDurable'
      BY <1>0, <1>2 DEF resVars, Promises, PendingFence, AckedIsStored, TokenIsDurable
    <2> QED
      BY <1>0, <1>2, <2>3, <2>4, <2>5, KeepLogs, KeepResides, KeepTurns, KeepClaimed, KeepFlight,
         KeepOp, KeepWakes DEF resVars, qVars, Promises
  <1>3. ASSUME NEW i \in DOMAIN stored, acked' = acked \cup {stored[i]},
               UNCHANGED <<resVars, qVars, waits>>
        PROVE  Inv'
    <2>1. View' = View
      BY <1>0, <1>3, KeepLogs DEF resVars
    <2>2. stored[i] \in Facts
      BY DEF TypeOK
    <2>3. TypeOK'
      BY <1>0, <1>3, <2>2 DEF TypeOK, resVars, qVars
    <2>4. AckedIsStored'
      <3>1. stored[i].seq = i /\ i <= Len(stored)
        BY DEF LogsAgree, GoodLog, Numbered, TypeOK
      <3> QED
        BY <1>0, <1>3, <3>1 DEF Promises, AckedIsStored
    <2>5. WaitsAgree' /\ PendingFence' /\ TokenIsDurable'
      BY <1>0, <1>3, <2>1 DEF resVars, Promises, WaitsAgree, PendingFence, TokenIsDurable
    <2> QED
      BY <1>0, <1>3, <2>3, <2>4, <2>5, KeepLogs, KeepResides, KeepTurns, KeepClaimed, KeepFlight,
         KeepOp, KeepWakes DEF resVars, qVars, Promises
  <1>4. CASE RefuseTurn
    <2>1. /\ resident' = ResidentAfterDrop
          /\ UNCHANGED <<durableSeq, pending, control, order, retryFailures, permanentError, qVars,
                         waits, acked>>
      BY <1>4 DEF RefuseTurn
    <2>2. resident' \in BOOLEAN /\ (resident' => resident) /\ (~resident' => ~resident \/ Idle)
          /\ (guard' \/ op'.kind = "accept" => resident')
      BY <1>0, <2>1, NoCallFields DEF ResidentAfterDrop, Resides, TypeOK
    <2>3. /\ LogsAgree' /\ Resides' /\ TurnsAgree' /\ ClaimedAgree' /\ FlightAgrees'
          /\ OpAgrees' /\ Wakes'
      BY <1>0, <2>1, <2>2, DropKeeps
    <2>4. TypeOK'
      BY <1>0, <2>1, <2>2 DEF TypeOK, qVars
    <2>5. Promises'
      BY <1>0, <2>1, KeepPromises
    <2> QED
      BY <2>3, <2>4, <2>5
  <1> QED
    BY <1>1, <1>2, <1>3, <1>4 DEF Submit, ExistingSubmission

-----------------------------------------------------------------------------
(* A cold Session is loaded.                                                *)

(* The loaded order: the open Turns of the Store, in acceptance order.       *)
LEMMA LoadedOrderIs ==
    ASSUME stored \in Seq(Facts), GoodLog(stored)
    PROVE  /\ LoadedOrder \in Seq(Turns)
           /\ \A n \in DOMAIN LoadedOrder : LoadedOrder[n] \in OpenTurns(stored)
           /\ \A t \in OpenTurns(stored) : \E n \in DOMAIN LoadedOrder : LoadedOrder[n] = t
           /\ Ordered(LoadedOrder, stored)
  <1> DEFINE K == {i \in DOMAIN stored : /\ stored[i].body = "Accepted"
                                         /\ stored[i].turn \in OpenTurns(stored)}
             g == Kept(stored, K)
  <1>1. /\ K \in SUBSET DOMAIN stored
        /\ \A i \in K : i \in DOMAIN stored /\ stored[i].body = "Accepted"
                        /\ stored[i].turn \in OpenTurns(stored)
        /\ \A i \in DOMAIN stored :
             stored[i].body = "Accepted" /\ stored[i].turn \in OpenTurns(stored) => i \in K
    OBVIOUS
  <1>2. LoadedOrder = [n \in DOMAIN g |-> g[n].turn]
    BY DEF LoadedOrder, TurnsAt
  <1> HIDE DEF K
  <1>3. /\ g \in Seq(Facts) /\ DOMAIN g = 1..Cardinality(K) /\ Cardinality(K) \in Nat
        /\ \A n \in DOMAIN g : Position(K, n) \in K /\ g[n] = stored[Position(K, n)]
        /\ \A m, n \in DOMAIN g : m < n => Position(K, m) < Position(K, n)
        /\ \A i \in K : \E n \in DOMAIN g : Position(K, n) = i
    BY <1>1, KeptIs
  <1> HIDE DEF g
  <1>4. /\ DOMAIN LoadedOrder = DOMAIN g
        /\ \A n \in DOMAIN g : Position(K, n) \in K /\ LoadedOrder[n] = stored[Position(K, n)].turn
    BY <1>2, <1>3
  <1>5. \A n \in DOMAIN LoadedOrder : LoadedOrder[n] \in OpenTurns(stored)
    BY <1>1, <1>4
  <1>6. LoadedOrder \in Seq(Turns)
    <2>1. \A n \in 1..Cardinality(K) : g[n].turn \in Turns
      BY <1>3, FactFields
    <2>2. LoadedOrder = [n \in 1..Cardinality(K) |-> g[n].turn]
      BY <1>2, <1>3
    <2> QED
      BY <1>3, <2>1, <2>2
  <1>7. ASSUME NEW t \in OpenTurns(stored) PROVE \E n \in DOMAIN LoadedOrder : LoadedOrder[n] = t
    <2>1. PICK i \in DOMAIN stored : stored[i].turn = t /\ stored[i].body = "Accepted"
      BY DEF OpenTurns, Has
    <2>2. i \in K
      BY <1>1, <2>1
    <2>3. PICK n \in DOMAIN g : Position(K, n) = i
      BY <1>3, <2>2
    <2> QED
      BY <1>4, <2>1, <2>3
  <1>8. Ordered(LoadedOrder, stored)
    <2> SUFFICES ASSUME NEW m \in DOMAIN LoadedOrder, NEW n \in DOMAIN LoadedOrder,
                        NEW p \in DOMAIN stored, NEW q \in DOMAIN stored, m < n,
                        Opens(stored, p, LoadedOrder[m]), Opens(stored, q, LoadedOrder[n])
                 PROVE  p < q
      BY DEF Ordered
    <2>0. \A i \in DOMAIN stored : i \in Nat
      OBVIOUS
    <2>1. ASSUME NEW k \in DOMAIN LoadedOrder, NEW a \in DOMAIN stored,
                 Opens(stored, a, LoadedOrder[k])
          PROVE  a = Position(K, k)
      <3> DEFINE i == Position(K, k)
      <3>1. i \in K /\ LoadedOrder[k] = stored[i].turn
        BY <1>4
      <3> HIDE DEF i
      <3>2. i \in DOMAIN stored /\ stored[i].body = "Accepted" /\ stored[i].turn = stored[a].turn
            /\ stored[a].body = "Accepted"
        BY <1>1, <2>1, <3>1 DEF Opens
      <3>3. ~(a < i) /\ ~(i < a)
        BY <3>2 DEF GoodLog, WellEnded
      <3>4. a = i
        BY <2>0, <3>2, <3>3
      <3> QED
        BY <3>4 DEF i
    <2>2. p = Position(K, m) /\ q = Position(K, n)
      BY <2>1
    <2>3. Position(K, m) < Position(K, n)
      BY <1>3, <1>4
    <2> QED
      BY <2>2, <2>3
  <1> QED
    BY <1>5, <1>6, <1>7, <1>8

(* The loaded control says of each Turn what the Store says of it.           *)
LEMMA LoadedControlIs ==
    ASSUME NEW t \in Turns
    PROVE  /\ LoadedControl[t] \in Controls
           /\ LoadedControl[t].live <=> t \in OpenTurns(stored)
           /\ LoadedControl[t].live => LiveAt(stored, LoadedControl[t], t)
  <1> DEFINE e == LoadedEffect(t)
             c == Has(stored, t, "CancelRequested")
  <1>1. e \in {"none", "intent", "started", "settled"} /\ (e = "intent" => Has(stored, t, "Intent"))
    BY DEF LoadedEffect
  <1>2. c \in BOOLEAN
    BY DEF Has
  <1>3. CASE t \notin OpenTurns(stored)
    <2>1. LoadedControl[t] = NoControl
      BY <1>3 DEF LoadedControl
    <2> QED
      BY <1>3, <2>1, NoCallFields
  <1>4. CASE t \in OpenTurns(stored)
    <2>1. LoadedControl[t] = [AcceptedControl EXCEPT !.effect = e, !.cancelRequested = c]
      BY <1>4 DEF LoadedControl
    <2>2. Has(stored, t, "Accepted") /\ ~Ended(stored, t)
      BY <1>4 DEF OpenTurns
    <2> HIDE DEF e
    <2>3. /\ LoadedControl[t] \in Controls /\ LoadedControl[t].live = TRUE
          /\ LoadedControl[t].effect = e /\ LoadedControl[t].cancelRequested = c
          /\ LoadedControl[t].terminalSeq = 0
      <3> HIDE DEF c
      <3> QED
        BY <1>1, <1>2, <2>1, NoCallFields DEF AcceptedControl, NoControl, Controls
    <2> QED
      BY <1>1, <1>4, <2>2, <2>3 DEF LiveAt
  <1> QED
    BY <1>3, <1>4

LEMMA LoadKeeps ==
    ASSUME Inv, Load
    PROVE  Inv'
  <1> USE DEF Inv
  <1>0. /\ up /\ op = NoOp /\ ~resident
        /\ resident' = TRUE /\ durableSeq' = Len(stored)
        /\ control' = LoadedControl /\ order' = LoadedOrder
        /\ retryFailures' = 0 /\ permanentError' = FALSE
        /\ token' = token \cup {t \in OpenTurns(stored) : Has(stored, t, "CancelRequested")}
        /\ queue' = queue \o Only(order', Turns \ queued)
        /\ queued' = queued \cup OpenTurns(stored)
        /\ UNCHANGED <<stored, up, pending, claimed, flight, op, guard, waits, history>>
    BY DEF Load
  <1>1. pending = <<>> /\ order = <<>>
    BY <1>0 DEF Resides
  <1>2. \A t \in Turns : ~control[t].live
    BY <1>1 DEF TurnsAgree, OrderAgrees
  <1>3. claimed = {} /\ flight = NoFlight
    BY <1>0, <1>2 DEF ClaimedAgree, FlightAgrees, TypeOK
  <1>4. stored \in Seq(Facts) /\ Len(stored) \in Nat /\ GoodLog(stored)
        /\ DOMAIN stored = 1..Len(stored) /\ OpenTurns(stored) \subseteq Turns
    BY DEF TypeOK, LogsAgree, OpenTurns
  <1>5. View' = stored
    <2> DEFINE m == durableSeq' + Len(pending')
    <2>1. m = Len(stored)
      <3>1. Len(pending') = 0
        BY <1>0, <1>1
      <3> QED
        BY <1>0, <1>4, <3>1
    <2>2. View' = [i \in 1..m |-> IF i <= Len(stored) THEN stored[i] ELSE pending'[i - Len(stored)]]
      BY <1>0 DEF View
    <2> HIDE DEF m
    <2>3. \A i \in 1..m : i <= Len(stored)
      BY <1>4, <2>1
    <2>4. View' = [i \in 1..Len(stored) |-> stored[i]]
      BY <2>1, <2>2, <2>3
    <2> QED
      BY <1>4, <2>4
  <1>6. LogsAgree'
    BY <1>0, <1>4, <1>5 DEF LogsAgree, Watermark
  <1>7. /\ order' \in Seq(Turns)
        /\ \A n \in DOMAIN order' : order'[n] \in OpenTurns(stored)
        /\ \A t \in OpenTurns(stored) : \E n \in DOMAIN order' : order'[n] = t
        /\ Ordered(order', stored)
    BY <1>0, <1>4, LoadedOrderIs
  <1>8. /\ control' \in [Turns -> Controls]
        /\ \A t \in Turns : control'[t].live <=> t \in OpenTurns(stored)
        /\ \A t \in Turns : control'[t].live => LiveAt(stored, control'[t], t)
    <2>1. \A t \in Turns : /\ LoadedControl[t] \in Controls
                           /\ LoadedControl[t].live <=> t \in OpenTurns(stored)
                           /\ LoadedControl[t].live => LiveAt(stored, LoadedControl[t], t)
      BY LoadedControlIs
    <2>2. LoadedControl = [t \in Turns |-> LoadedControl[t]]
      BY DEF LoadedControl
    <2> QED
      BY <1>0, <2>1, <2>2
  <1>9. TurnsAgree'
    <2>1. ControlAgrees'
      <3> SUFFICES ASSUME NEW t \in Turns
                   PROVE  IF control'[t].live
                          THEN LiveAt(View', control'[t], t)
                          ELSE GoneAt(View', t) /\ \A i \in DOMAIN pending' : pending'[i].turn # t
        BY DEF ControlAgrees
      <3>1. CASE control'[t].live
        BY <1>5, <1>8, <3>1
      <3>2. CASE ~control'[t].live
        <4>1. t \notin OpenTurns(stored)
          BY <1>8, <3>2
        <4>2. GoneAt(stored, t)
          BY <4>1 DEF OpenTurns, GoneAt
        <4>3. pending' = <<>>
          BY <1>0, <1>1
        <4> QED
          BY <1>5, <3>2, <4>2, <4>3
      <3> QED
        BY <3>1, <3>2
    <2>2. OrderAgrees'
      <3>1. \A t \in Turns : control'[t].live <=> \E i \in DOMAIN order' : order'[i] = t
        BY <1>7, <1>8
      <3> QED
        BY <1>5, <1>7, <3>1 DEF OrderAgrees
    <2> QED
      BY <2>1, <2>2 DEF TurnsAgree
  <1>10. /\ queue' \in Seq(Turns)
         /\ \A t \in queued' : Queued(queue', t)
         /\ \A t \in OpenTurns(stored) : Queued(queue', t)
    <2> DEFINE S == Turns \ queued
               g == Only(order', S)
    <2>1. queue' = queue \o g /\ queue \in Seq(Turns)
      BY <1>0 DEF TypeOK
    <2>2. g = Only(order', S)
      OBVIOUS
    <2>3. \A t \in OpenTurns(stored) : t \notin queued => t \in S
      BY <1>4
    <2> HIDE DEF S, g
    <2>4. /\ g \in Seq(Turns)
          /\ \A n \in DOMAIN order' : order'[n] \in S => \E k \in DOMAIN g : g[k] = order'[n]
      BY <1>7, <2>2, OnlyIs
    <2>5. /\ queue' \in Seq(Turns) /\ Len(queue) \in Nat /\ Len(g) \in Nat
          /\ Len(queue') = Len(queue) + Len(g) /\ DOMAIN queue = 1..Len(queue) /\ DOMAIN g = 1..Len(g)
          /\ \A i \in 1..(Len(queue) + Len(g)) :
               queue'[i] = IF i <= Len(queue) THEN queue[i] ELSE g[i - Len(queue)]
      BY <2>1, <2>4
    <2>6. \A t : Queued(queue, t) => Queued(queue', t)
      BY <2>5 DEF Queued
    <2>7. ASSUME NEW k \in DOMAIN g PROVE Queued(queue', g[k])
      <3> DEFINE i == Len(queue) + k
      <3>1. i \in DOMAIN queue' /\ i \in 1..(Len(queue) + Len(g)) /\ ~(i <= Len(queue))
            /\ i - Len(queue) = k
        BY <2>5
      <3> HIDE DEF i
      <3>2. queue'[i] = g[k]
        BY <2>5, <3>1
      <3> QED
        BY <3>1, <3>2 DEF Queued
    <2>8. ASSUME NEW t \in OpenTurns(stored) PROVE Queued(queue', t)
      <3>1. CASE t \in queued
        BY <2>6, <3>1, WakesGive
      <3>2. CASE t \notin queued
        <4>1. PICK n \in DOMAIN order' : order'[n] = t
          BY <1>7
        <4>2. PICK k \in DOMAIN g : g[k] = t
          BY <2>3, <2>4, <3>2, <4>1
        <4> QED
          BY <2>7, <4>2
      <3> QED
        BY <3>1, <3>2
    <2> QED
      BY <1>0, <2>5, <2>6, <2>8, WakesGive
  <1>11. TypeOK'
    <2>1. token' \subseteq Turns /\ queued' \subseteq Turns
      BY <1>0, <1>4 DEF TypeOK
    <2> QED
      BY <1>0, <1>4, <1>7, <1>8, <1>10, <2>1 DEF TypeOK, history
  <1>12. Resides'
    BY <1>0 DEF Resides
  <1>13. ClaimedAgree' /\ FlightAgrees'
    BY <1>0, <1>3 DEF ClaimedAgree, FlightAgrees
  <1>14. OpAgrees'
    <2>1. op'.phase = "none" /\ op' = NoOp
      BY <1>0, NoCallFields
    <2>2. ~(durableSeq' < Len(stored'))
      BY <1>0, <1>4
    <2> QED
      BY <2>1, <2>2 DEF OpAgrees, OpHolds, OpStages, Behind
  <1>15. Promises'
    <2>1. WaitsAgree'
      <3> SUFFICES ASSUME NEW f \in waits PROVE f.seq \in DOMAIN stored /\ stored[f.seq] = f
        BY <1>0, <1>5 DEF WaitsAgree
      <3>1. f.seq \in DOMAIN View /\ View[f.seq] = f
        BY DEF Promises, WaitsAgree
      <3>2. DOMAIN View = 1..durableSeq
        <4>1. Len(pending) = 0 /\ durableSeq \in Nat
          BY <1>1 DEF TypeOK
        <4>2. LiveSeq = durableSeq
          BY <4>1 DEF LiveSeq
        <4> QED
          BY <4>2, ViewIs DEF LogsAgree
      <3> QED
        BY <3>1, <3>2, ViewIs DEF LogsAgree
    <2>2. PendingFence'
      BY <1>0, <1>1 DEF PendingFence
    <2>3. AckedIsStored' /\ TokenIsDurable'
      BY <1>0 DEF Promises, AckedIsStored, TokenIsDurable, history
    <2> QED
      BY <2>1, <2>2, <2>3 DEF Promises
  <1>16. Wakes'
    <2>1. ASSUME NEW t, t = OldestClaimable(order', control', durableSeq'), t # NoTurn
          PROVE  t \in OpenTurns(stored)
      <3>1. durableSeq' \in Nat
        BY <1>0, <1>4
      <3>2. \E n \in DOMAIN order' : order'[n] = t
        BY <1>7, <2>1, <3>1, OldestIs
      <3> QED
        BY <1>7, <3>2
    <2> QED
      BY <1>10, <2>1, WakesWhen
  <1> QED
    BY <1>6, <1>9, <1>11, <1>12, <1>13, <1>14, <1>15, <1>16

-----------------------------------------------------------------------------
(* The Store grows.                                                         *)

(* The process's log, and every promise, survive a Store that only grows.    *)
LEMMA StoreGrows ==
    ASSUME Inv, stored' \in Seq(Facts), Len(stored) <= Len(stored'),
           \A i \in 1..Len(stored) : stored'[i] = stored[i],
           UNCHANGED <<durableSeq, pending, waits, acked, token>>
    PROVE  /\ View' = View /\ Watermark' /\ Promises'
  <1> USE DEF Inv
  <1>1. /\ Len(stored) \in Nat /\ Len(stored') \in Nat /\ durableSeq \in Nat
        /\ durableSeq <= Len(stored) /\ stored \in Seq(Facts)
        /\ DOMAIN stored = 1..Len(stored) /\ DOMAIN stored' = 1..Len(stored')
    BY DEF TypeOK, LogsAgree, Watermark
  <1>2. \A i \in 1..durableSeq : stored'[i] = stored[i]
    BY <1>1
  <1>3. View' = View
    <2>1. Len(pending) \in Nat
      BY DEF TypeOK
    <2> DEFINE a(i) == IF i <= durableSeq THEN stored[i] ELSE pending[i - durableSeq]
               b(i) == IF i <= durableSeq THEN stored'[i] ELSE pending[i - durableSeq]
               n == durableSeq + Len(pending)
    <2>2. \A i \in 1..n : a(i) = b(i)
      BY <1>1, <1>2, <2>1
    <2>3. View = [i \in 1..n |-> a(i)] /\ View' = [i \in 1..n |-> b(i)]
      BY DEF View
    <2> HIDE DEF a, b, n
    <2> QED
      BY <2>2, <2>3
  <1>4. Watermark'
    BY <1>1 DEF Watermark
  <1>5. WaitsAgree'
    BY <1>3 DEF Promises, WaitsAgree
  <1>6. PendingFence'
    BY <1>2 DEF Promises, PendingFence
  <1>7. \A i \in DOMAIN stored : i \in DOMAIN stored' /\ stored'[i] = stored[i]
    BY <1>1
  <1>8. AckedIsStored'
    <2> SUFFICES ASSUME NEW f \in acked PROVE f.seq <= Len(stored') /\ stored'[f.seq] = f
      BY DEF AckedIsStored
    <2>1. f.seq <= Len(stored) /\ stored[f.seq] = f
      BY DEF Promises, AckedIsStored
    <2>2. f.seq \in Nat \ {0}
      BY FactFields DEF TypeOK
    <2> QED
      BY <1>1, <2>1, <2>2
  <1>9. TokenIsDurable'
    BY <1>7 DEF Promises, TokenIsDurable, Has
  <1> QED
    BY <1>3, <1>4, <1>5, <1>6, <1>8, <1>9 DEF Promises

LEMMA AppendIs ==
    ASSUME NEW L \in Seq(Facts), NEW F \in Seq(Facts), NEW M, M = L \o F
    PROVE  /\ M \in Seq(Facts) /\ Len(M) = Len(L) + Len(F) /\ Len(L) <= Len(M)
           /\ \A i \in 1..Len(L) : M[i] = L[i]
           /\ \A k \in 1..Len(F) : M[Len(L) + k] = F[k]
  <1>1. /\ M \in Seq(Facts) /\ Len(M) = Len(L) + Len(F) /\ Len(L) \in Nat /\ Len(F) \in Nat
    OBVIOUS
  <1>2. \A i \in 1..(Len(L) + Len(F)) : M[i] = IF i <= Len(L) THEN L[i] ELSE F[i - Len(L)]
    OBVIOUS
  <1>3. Len(L) <= Len(M) /\ \A i \in 1..Len(L) : M[i] = L[i]
    BY <1>1, <1>2
  <1>4. ASSUME NEW k \in 1..Len(F)
        PROVE  M[Len(L) + k] = F[k]
    <2> DEFINE i == Len(L) + k
    <2>1. i \in 1..(Len(L) + Len(F)) /\ ~(i <= Len(L)) /\ i - Len(L) = k
      BY <1>1
    <2> HIDE DEF i
    <2>2. M[i] = F[k]
      BY <1>2, <2>1
    <2> QED
      BY <2>2 DEF i
  <1> QED
    BY <1>1, <1>3, <1>4

LEMMA PrepareFlushKeeps ==
    ASSUME Inv, PrepareFlush
    PROVE  Inv'
  <1> USE DEF Inv
  <1>0. /\ up /\ resident
        /\ UNCHANGED <<stored, up, resVars, claimed, token, qVars, op, guard, waits, history>>
    BY DEF PrepareFlush
  <1>1. PICK n \in DOMAIN pending :
          flight' = [phase |-> "sent", expected |-> durableSeq,
                     facts |-> SubSeq(pending, 1, n), result |-> "none"]
    BY DEF PrepareFlush
  <1> DEFINE F == SubSeq(pending, 1, n)
  <1>2. pending \in Seq(Facts) /\ Len(pending) \in Nat /\ n \in 1..Len(pending) /\ durableSeq \in Nat
    BY DEF TypeOK
  <1>3. F \in Seq(Facts) /\ Len(F) = n /\ \A k \in 1..n : F[k] = pending[k]
    BY <1>2
  <1>4. flight' = [phase |-> "sent", expected |-> durableSeq, facts |-> F, result |-> "none"]
    BY <1>1
  <1> HIDE DEF F
  <1>5. flight' \in Flights
    BY <1>2, <1>3, <1>4 DEF Flights
  <1>6. TypeOK'
    BY <1>0, <1>5 DEF TypeOK, resVars, qVars, history
  <1>7. FlightAgrees'
    BY <1>0, <1>2, <1>3, <1>4 DEF FlightAgrees, resVars
  <1> QED
    BY <1>0, <1>6, <1>7, KeepLogs, KeepResides, KeepTurns, KeepClaimed, KeepOp, KeepPromises,
       KeepWakes DEF resVars, qVars, history

(* A batch in flight excludes a commit that has been sent.                   *)
LEMMA FlightExcludes ==
    ASSUME Inv, flight # NoFlight
    PROVE  pending # <<>> /\ resident /\ op.phase \notin {"sent", "done"}
  <1>1. Len(flight.facts) \in 1..Len(pending) /\ resident
    BY DEF Inv, FlightAgrees
  <1>2. Len(pending) # 0 /\ Len(pending) \in Nat
    BY <1>1 DEF Inv, TypeOK
  <1>3. pending # <<>>
    BY <1>2
  <1> QED
    BY <1>1, <1>3 DEF Inv, OpAgrees, OpStages

LEMMA FlushStoreKeeps ==
    ASSUME Inv, FlushStore
    PROVE  Inv'
  <1> USE DEF Inv
  <1>0. /\ up /\ flight.phase = "sent" /\ flight # NoFlight
        /\ UNCHANGED <<up, resVars, claimed, token, qVars, op, guard, waits, acked, crashes>>
    BY NoCallFields DEF FlushStore
  <1>1. PICK a \in Answers : /\ StoreAnswer(flight, a)
                             /\ flight' = [flight EXCEPT !.phase = "done", !.result = a]
    BY DEF FlushStore
  <1>2. /\ resident /\ flight.expected = durableSeq /\ Len(flight.facts) \in 1..Len(pending)
        /\ \A k \in 1..Len(flight.facts) : flight.facts[k] = pending[k]
    BY <1>0 DEF FlightAgrees
  <1>3. pending # <<>> /\ op.phase \notin {"sent", "done"}
    BY <1>0, FlightExcludes
  <1>4. /\ flight' \in Flights /\ flight'.expected = flight.expected /\ flight'.facts = flight.facts
        /\ flight'.result = a /\ flight'.phase = "done"
    BY <1>1 DEF TypeOK, Flights
  <1>5. faults' \in Nat
    BY <1>1 DEF StoreAnswer, TypeOK
  <1>6. stored \in Seq(Facts) /\ flight.facts \in Seq(Facts) /\ Len(stored) \in Nat
        /\ Len(flight.facts) \in Nat /\ Len(pending) \in Nat
    BY FlightFields DEF TypeOK
  <1>7. CASE CasHolds(flight.expected) /\ stored' = stored \o flight.facts
    <2>1. Len(stored) = durableSeq
      BY <1>2, <1>7 DEF CasHolds
    <2>2. /\ stored' \in Seq(Facts) /\ Len(stored') = Len(stored) + Len(flight.facts)
          /\ Len(stored) <= Len(stored')
          /\ \A i \in 1..Len(stored) : stored'[i] = stored[i]
          /\ \A k \in 1..Len(flight.facts) : stored'[Len(stored) + k] = flight.facts[k]
      BY <1>6, <1>7, AppendIs
    <2>3. View' = View /\ Watermark' /\ Promises'
      BY <1>0, <2>2, StoreGrows DEF resVars
    <2>4. Prefix(stored', View)
      <3>1. Len(View) = durableSeq + Len(pending)
        BY ViewIs DEF LogsAgree, LiveSeq
      <3>2. Len(stored') <= Len(View)
        BY <1>2, <1>6, <2>1, <2>2, <3>1
      <3>3. ASSUME NEW i \in 1..Len(stored')
            PROVE  stored'[i] = View[i]
        <4>1. CASE i \in 1..durableSeq
          BY <2>1, <2>2, <4>1, ViewIs DEF LogsAgree
        <4>2. CASE i \notin 1..durableSeq
          <5> DEFINE k == i - durableSeq
          <5>1. k \in 1..Len(flight.facts) /\ i = Len(stored) + k /\ i = durableSeq + k
            BY <1>6, <2>1, <2>2, <4>2
          <5> HIDE DEF k
          <5>2. k \in DOMAIN pending /\ flight.facts[k] = pending[k]
            BY <1>2, <1>6, <5>1 DEF TypeOK
          <5>3. View[durableSeq + k] = pending[k]
            BY <5>2, ViewIs DEF LogsAgree
          <5> QED
            BY <2>2, <5>1, <5>2, <5>3
        <4> QED
          BY <4>1, <4>2
      <3> QED
        BY <2>2, <3>2, <3>3 DEF Prefix
    <2>5. GoodLog(stored')
      BY <2>4, PrefixIsGood, ViewIs DEF LogsAgree
    <2>6. LogsAgree'
      BY <2>3, <2>5 DEF LogsAgree
    <2>7. TypeOK'
      BY <1>0, <1>4, <1>5, <2>2 DEF TypeOK, resVars, qVars
    <2>8. Resides'
      BY <1>0, <1>2 DEF Resides, resVars
    <2>9. TurnsAgree' /\ ClaimedAgree'
      <3>1. ControlAgrees' /\ OrderAgrees'
        BY <1>0, <2>3 DEF TurnsAgree, ControlAgrees, OrderAgrees, resVars
      <3> QED
        BY <1>0, <2>3, <3>1 DEF TurnsAgree, ClaimedAgree, resVars
    <2>10. FlightAgrees'
      BY <1>0, <1>2, <1>4, <2>1, <2>2 DEF FlightAgrees, resVars
    <2>11. OpAgrees'
      BY <1>0, <1>3 DEF OpAgrees, OpHolds, OpStages, Behind, LiveSeq, resVars
    <2> QED
      BY <1>0, <2>3, <2>6, <2>7, <2>8, <2>9, <2>10, <2>11, KeepWakes DEF resVars, qVars
  <1>8. CASE stored' = stored /\ a # "ok"
    <2>1. TypeOK'
      BY <1>0, <1>4, <1>5, <1>8 DEF TypeOK, resVars, qVars
    <2>2. FlightAgrees'
      BY <1>0, <1>2, <1>4, <1>8 DEF FlightAgrees, resVars
    <2> QED
      BY <1>0, <1>8, <2>1, <2>2, KeepLogs, KeepResides, KeepTurns, KeepClaimed, KeepOp,
         KeepPromises, KeepWakes DEF resVars, qVars
  <1> QED
    BY <1>1, <1>7, <1>8 DEF StoreAnswer

LEMMA FlushFailsKeeps ==
    ASSUME Inv, FlushFails
    PROVE  Inv'
  <1> USE DEF Inv
  <1>0. /\ up /\ flight.phase = "done" /\ flight' = NoFlight
        /\ (permanentError => permanentError') /\ permanentError' \in BOOLEAN
        /\ retryFailures' \in Nat
        /\ UNCHANGED <<stored, up, resident, durableSeq, pending, control, order, claimed, token,
                       qVars, op, guard, waits, history>>
    BY DEF FlushFails, TypeOK
  <1>1. TypeOK'
    BY <1>0, NoCallFields DEF TypeOK, qVars, history
  <1>2. FlightAgrees'
    BY <1>0 DEF FlightAgrees
  <1> QED
    BY <1>0, <1>1, <1>2, KeepLogs, KeepResides, KeepTurns, KeepClaimed, KeepOp, KeepPromises,
       KeepWakes DEF qVars, history

LEMMA SuffixIs ==
    ASSUME NEW R, NEW s \in Seq(R), NEW n \in Nat, NEW e \in Nat, n + e = Len(s),
           NEW p, p = SubSeq(s, n + 1, Len(s))
    PROVE  p \in Seq(R) /\ Len(p) = e /\ \A i \in 1..e : p[i] = s[n + i]
  <1>1. Len(s) \in Nat /\ DOMAIN s = 1..Len(s) /\ \A j \in 1..Len(s) : s[j] \in R
    OBVIOUS
  <1>2. n + 1 \in Nat /\ Len(s) = n + e /\ p = SubSeq(s, n + 1, n + e)
    BY <1>1
  <1>3. p \in Seq(R) /\ Len(p) = e
    BY <1>1, <1>2
  <1>4. ASSUME NEW i \in 1..e PROVE p[i] = s[n + i]
    BY <1>1, <1>2
  <1> QED
    BY <1>3, <1>4

(* The first d entries of s, with p behind them.                             *)
Joined(s, d, p) == [i \in 1..(d + Len(p)) |-> IF i <= d THEN s[i] ELSE p[i - d]]

(* The first n pending Facts are in the Store, p is the e after them.        *)
Splits(n, e, d, p) ==
  /\ n \in Nat /\ e \in Nat /\ n + e = Len(pending) /\ d = durableSeq + n /\ d <= Len(stored)
  /\ \A k \in 1..n : stored[durableSeq + k] = pending[k]
  /\ p \in Seq(Facts) /\ Len(p) = e /\ \A i \in 1..e : p[i] = pending[n + i]

(* A durable head of the suffix moves below the watermark: the log stays.    *)
LEMMA SuffixMoves ==
    ASSUME Inv, NEW n, NEW e, NEW d, NEW p, Splits(n, e, d, p)
    PROVE  /\ d \in Nat /\ DOMAIN p = 1..e
           /\ \A i \in DOMAIN p : n + i \in DOMAIN pending /\ p[i] = pending[n + i]
           /\ d + Len(p) = durableSeq + Len(pending)
           /\ View = Joined(stored, d, p)
  <1>0. /\ n \in Nat /\ e \in Nat /\ n + e = Len(pending) /\ d = durableSeq + n /\ d <= Len(stored)
        /\ \A k \in 1..n : stored[durableSeq + k] = pending[k]
        /\ p \in Seq(Facts) /\ Len(p) = e /\ \A i \in 1..e : p[i] = pending[n + i]
    BY DEF Splits
  <1> USE <1>0
  <1>1. /\ pending \in Seq(Facts) /\ Len(pending) \in Nat /\ durableSeq \in Nat
        /\ stored \in Seq(Facts) /\ DOMAIN pending = 1..Len(pending)
    BY DEF Inv, TypeOK
  <1>3. DOMAIN p = 1..e
    OBVIOUS
  <1>4. ASSUME NEW i \in DOMAIN p PROVE n + i \in DOMAIN pending /\ p[i] = pending[n + i]
    <2>1. i \in 1..e /\ n + i \in 1..(n + e)
      BY <1>3
    <2> QED
      BY <1>1, <2>1
  <1>5. d \in Nat /\ d + Len(p) = durableSeq + Len(pending)
    <2>1. d \in Nat
      BY <1>1
    <2>2. d + e = durableSeq + (n + e)
      BY <1>1
    <2> QED
      BY <2>1, <2>2
  <1> DEFINE m == durableSeq + Len(pending)
             a(i) == IF i <= durableSeq THEN stored[i] ELSE pending[i - durableSeq]
             b(i) == IF i <= d THEN stored[i] ELSE p[i - d]
  <1>6. ASSUME NEW i \in 1..m
        PROVE  a(i) = b(i)
    <2>0. i \in Nat /\ i <= durableSeq + Len(pending)
      BY <1>1
    <2>1. CASE i <= durableSeq
      <3>1. i <= d
        BY <1>1, <2>0, <2>1
      <3> QED
        BY <2>1, <3>1
    <2>2. CASE i > durableSeq /\ i <= d
      <3> DEFINE k == i - durableSeq
      <3>1. k \in 1..n /\ i = durableSeq + k /\ ~(i <= durableSeq)
        BY <1>1, <2>0, <2>2
      <3>2. a(i) = pending[k] /\ b(i) = stored[i]
        BY <2>2, <3>1
      <3> HIDE DEF k, a, b
      <3> QED
        BY <3>1, <3>2
    <2>3. CASE i > d
      <3> DEFINE k == i - d
      <3>1. k \in 1..e /\ i - durableSeq = n + k /\ ~(i <= durableSeq) /\ ~(i <= d)
        BY <1>1, <2>0, <2>3
      <3>2. a(i) = pending[n + k] /\ b(i) = p[k]
        BY <3>1
      <3> HIDE DEF k, a, b
      <3> QED
        BY <3>1, <3>2
    <2> QED
      BY <1>1, <1>5, <2>0, <2>1, <2>2, <2>3
  <1>7. View = [i \in 1..m |-> a(i)]
    BY DEF View
  <1>8. [i \in 1..m |-> a(i)] = [i \in 1..m |-> b(i)]
    <2> HIDE DEF a, b, m
    <2> QED
      BY <1>6
  <1>9. View = [i \in 1..m |-> b(i)]
    BY <1>7, <1>8
  <1>10. View = Joined(stored, d, p)
    BY <1>5, <1>9 DEF Joined
  <1> QED
    BY <1>3, <1>4, <1>5, <1>10

LEMMA FlushSucceedsKeeps ==
    ASSUME Inv, FlushSucceeds
    PROVE  Inv'
  <1> USE DEF Inv
  <1> DEFINE n == Len(flight.facts)
             durable == flight.expected + Len(flight.facts)
             pruned == {t \in Turns : control[t].live /\ control[t].terminalSeq \in 1..durable}
             next == OldestClaimable(order', control', durable)
             q == EnqueueIn(queue, queued, next)
  <1>0. /\ up /\ flight.phase = "done" /\ flight.result = "ok" /\ flight # NoFlight
        /\ durableSeq' = durable
        /\ pending' = SubSeq(pending, durable - durableSeq + 1, Len(pending))
        /\ token' = token \cup {pending[i].turn : i \in
                      {j \in DOMAIN pending : /\ pending[j].seq <= durable
                                              /\ pending[j].body = "CancelRequested"
                                              /\ control[pending[j].turn].live}}
        /\ control' = [t \in Turns |-> IF t \in pruned THEN NoControl ELSE control[t]]
        /\ order' = Only(order, Turns \ pruned)
        /\ claimed' = claimed \ pruned
        /\ retryFailures' = 0
        /\ queue' = Only(q, Turns \ pruned)
        /\ queued' = QueuedWith(queued, next) \ pruned
        /\ resident' = (guard \/ op.kind = "accept" \/ order' # <<>> \/ pending' # <<>>)
        /\ flight' = NoFlight
        /\ UNCHANGED <<stored, up, permanentError, op, guard, waits, history>>
    BY NoCallFields DEF FlushSucceeds
  <1>1. /\ resident /\ flight.expected = durableSeq /\ n \in 1..Len(pending)
        /\ Len(stored) = durableSeq + n
        /\ \A k \in 1..n : flight.facts[k] = pending[k] /\ stored[durableSeq + k] = flight.facts[k]
    BY <1>0 DEF FlightAgrees
  <1>2. op.phase \notin {"sent", "done"}
    BY <1>0, FlightExcludes
  <1>3. /\ pending \in Seq(Facts) /\ Len(pending) \in Nat /\ durableSeq \in Nat /\ n \in Nat
        /\ stored \in Seq(Facts) /\ DOMAIN pending = 1..Len(pending)
    BY <1>1, FlightFields DEF TypeOK
  <1>4. durable = durableSeq + n /\ durable \in Nat /\ durable = Len(stored) /\ durable - durableSeq + 1 = n + 1
    BY <1>1, <1>3
  <1>p. /\ pruned \subseteq Turns
        /\ \A t \in Turns : t \in pruned <=> (control[t].live /\ control[t].terminalSeq \in 1..durable)
    OBVIOUS
  <1> HIDE DEF durable, pruned, n
  <1> DEFINE e == Len(pending) - n
  <1>e. e \in Nat /\ n + e = Len(pending)
    BY <1>1, <1>3
  <1> HIDE DEF e
  <1>5. /\ pending' \in Seq(Facts) /\ Len(pending') = e
        /\ DOMAIN pending' = 1..e
        /\ \A i \in DOMAIN pending' : n + i \in DOMAIN pending /\ pending'[i] = pending[n + i]
        /\ durable + Len(pending') = durableSeq + Len(pending)
        /\ View = Joined(stored, durable, pending')
    <2>1. pending' = SubSeq(pending, n + 1, Len(pending))
      BY <1>0, <1>4
    <2>2. durable <= Len(stored) /\ \A k \in 1..n : stored[durableSeq + k] = pending[k]
      BY <1>1, <1>4
    <2>3. pending' \in Seq(Facts) /\ Len(pending') = e /\ \A i \in 1..e : pending'[i] = pending[n + i]
      BY <1>e, <1>3, <2>1, SuffixIs
    <2>4. /\ DOMAIN pending' = 1..e
          /\ \A i \in DOMAIN pending' : n + i \in DOMAIN pending /\ pending'[i] = pending[n + i]
          /\ durable + Len(pending') = durableSeq + Len(pending)
          /\ View = Joined(stored, durable, pending')
      <3>1. durable = durableSeq + n /\ e \in Nat /\ n \in Nat /\ n + e = Len(pending)
        BY <1>e, <1>3, <1>4
      <3>2. Splits(n, e, durable, pending')
        BY <2>2, <2>3, <3>1 DEF Splits
      <3> HIDE DEF Inv
      <3> QED
        BY <2>3, <3>2, SuffixMoves
    <2> QED
      BY <2>3, <2>4
  <1>6. View' = View
    BY <1>0, <1>5 DEF View, Joined
  <1>7. LogsAgree'
    <2>1. Watermark'
      BY <1>0, <1>3, <1>4 DEF Watermark
    <2> QED
      BY <1>0, <1>6, <2>1 DEF LogsAgree
  <1>8. /\ control' \in [Turns -> Controls]
        /\ \A t \in Turns : t \in pruned => control'[t] = NoControl
        /\ \A t \in Turns : t \notin pruned => control'[t] = control[t]
    <2>1. control \in [Turns -> Controls] /\ NoControl \in Controls
      BY NoCallFields DEF TypeOK
    <2> QED
      BY <1>0, <2>1
  <1>9. /\ order' \in Seq(Turns)
        /\ \A k \in DOMAIN order' : order'[k] \in Turns \ pruned /\ \E i \in DOMAIN order : order'[k] = order[i]
        /\ \A k, m \in DOMAIN order' : k < m =>
             \E i, j \in DOMAIN order : i < j /\ order'[k] = order[i] /\ order'[m] = order[j]
        /\ \A i \in DOMAIN order : order[i] \in Turns \ pruned => \E k \in DOMAIN order' : order'[k] = order[i]
    <2>1. order \in Seq(Turns) /\ order' = Only(order, Turns \ pruned)
      BY <1>0 DEF TypeOK
    <2> DEFINE S == Turns \ pruned
    <2>2. order' = Only(order, S)
      BY <2>1
    <2> HIDE DEF S
    <2>a. order \in Seq(Turns)
      BY <2>1
    <2>3. /\ order' \in Seq(Turns)
          /\ \A k \in DOMAIN order' : order'[k] \in S /\ \E i \in DOMAIN order : order'[k] = order[i]
          /\ \A k, m \in DOMAIN order' : k < m =>
               \E i, j \in DOMAIN order : i < j /\ order'[k] = order[i] /\ order'[m] = order[j]
          /\ \A i \in DOMAIN order : order[i] \in S => \E k \in DOMAIN order' : order'[k] = order[i]
      BY <2>a, <2>2, OnlyIs
    <2> QED
      BY <2>3 DEF S
  <1>10. next \in Turns \cup {NoTurn} /\ (next # NoTurn => next \in Turns \ pruned)
    <2>1. next = NoTurn \/ \E i \in DOMAIN order' : order'[i] = next
      BY <1>4, <1>9, OldestIs
    <2> HIDE DEF next
    <2> QED
      BY <1>9, <2>1
  <1>11. /\ q \in Seq(Turns) /\ QueuedWith(queued, next) \in SUBSET Turns
         /\ \A u \in QueuedWith(queued, next) : Queued(q, u)
         /\ next # NoTurn => Queued(q, next)
    <2>1. queue \in Seq(Turns) /\ queued \in SUBSET Turns /\ \A u \in queued : Queued(queue, u)
      BY WakesGive DEF TypeOK
    <2> HIDE DEF next
    <2> QED
      BY <1>10, <2>1, EnqueueIs
  <1>12. /\ queue' \in Seq(Turns)
         /\ \A u \in Turns : Queued(q, u) /\ u \notin pruned => Queued(queue', u)
    <2> HIDE DEF q
    <2> DEFINE S == Turns \ pruned
    <2>1. queue' = Only(q, S)
      BY <1>0
    <2>2. \A u \in Turns : u \notin pruned => u \in S
      OBVIOUS
    <2> HIDE DEF S
    <2>3. /\ queue' \in Seq(Turns)
          /\ \A i \in DOMAIN q : q[i] \in S => \E k \in DOMAIN queue' : queue'[k] = q[i]
      BY <1>11, <2>1, OnlyIs
    <2> QED
      BY <2>2, <2>3 DEF Queued
  <1> HIDE DEF q
  <1>13. TypeOK'
    <2>1. token' \subseteq Turns
      <3>1. \A i \in DOMAIN pending : pending[i].turn \in Turns
        BY <1>3, FactFields
      <3> QED
        BY <1>0, <3>1 DEF TypeOK
    <2>2. claimed' \subseteq Turns /\ queued' \subseteq Turns
      <3> HIDE DEF next
      <3> QED
        BY <1>0, <1>11 DEF TypeOK
    <2>3. durableSeq' \in Nat /\ retryFailures' \in Nat /\ resident' \in BOOLEAN /\ flight' \in Flights
      BY <1>0, <1>4, NoCallFields
    <2> HIDE DEF next
    <2> QED
      BY <1>0, <1>5, <1>8, <1>9, <1>12, <2>1, <2>2, <2>3 DEF TypeOK, history
  <1>14. \A t \in pruned : LiveAt(View, control[t], t) /\ Ended(View, t)
    <2> SUFFICES ASSUME NEW t \in pruned PROVE LiveAt(View, control[t], t) /\ Ended(View, t)
      OBVIOUS
    <2>1. t \in Turns /\ control[t].live /\ control[t].terminalSeq \in 1..durable
      BY <1>p
    <2>2. LiveAt(View, control[t], t) /\ control[t].terminalSeq # 0
      BY <2>1 DEF TurnsAgree, ControlAgrees
    <2> QED
      BY <2>2 DEF LiveAt
  <1>15. ControlAgrees'
    <2> SUFFICES ASSUME NEW t \in Turns
                 PROVE  IF control'[t].live
                        THEN LiveAt(View, control'[t], t)
                        ELSE GoneAt(View, t) /\ \A i \in DOMAIN pending' : pending'[i].turn # t
      BY <1>6 DEF ControlAgrees
    <2>0. \A i \in DOMAIN pending' : /\ n + i \in DOMAIN pending /\ pending'[i] = pending[n + i]
                                     /\ durable + i \in DOMAIN View /\ View[durable + i] = pending'[i]
      <3> TAKE i \in DOMAIN pending'
      <3>1. n + i \in DOMAIN pending /\ pending'[i] = pending[n + i]
        BY <1>5
      <3>2. durableSeq + (n + i) \in DOMAIN View /\ View[durableSeq + (n + i)] = pending[n + i]
        BY <3>1, ViewIs DEF LogsAgree
      <3>3. durableSeq + (n + i) = durable + i
        BY <1>3, <1>4, <1>5
      <3> QED
        BY <3>1, <3>2, <3>3
    <2>1. CASE t \in pruned
      <3>1. control'[t].live = FALSE
        BY <1>8, <2>1, NoCallFields
      <3>2. GoneAt(View, t)
        BY <1>14, <2>1 DEF GoneAt
      <3>3. ASSUME NEW i \in DOMAIN pending', pending'[i].turn = t
            PROVE  FALSE
        <4> DEFINE s == control[t].terminalSeq
        <4>1. s \in 1..durable /\ s # 0
          BY <1>p, <2>1
        <4>2. s \in DOMAIN View /\ View[s].turn = t /\ IsTerminal(View[s])
          BY <1>14, <2>1, <4>1 DEF LiveAt
        <4>3. s < durable + i
          BY <1>4, <1>5, <4>1
        <4> HIDE DEF s
        <4> QED
          BY <2>0, <3>3, <4>2, <4>3 DEF LogsAgree, GoodLog, WellEnded
      <3> QED
        BY <3>1, <3>2, <3>3
    <2>2. CASE t \notin pruned
      <3>1. control'[t] = control[t]
        BY <1>8, <2>2
      <3>2. CASE control[t].live
        BY <3>1, <3>2 DEF TurnsAgree, ControlAgrees
      <3>3. CASE ~control[t].live
        BY <2>0, <3>1, <3>3 DEF TurnsAgree, ControlAgrees
      <3> QED
        BY <3>2, <3>3
    <2> QED
      BY <2>1, <2>2
  <1>16. OrderAgrees'
    <2>1. ASSUME NEW t \in Turns
          PROVE  control'[t].live <=> \E i \in DOMAIN order' : order'[i] = t
      <3>0. control[t].live <=> \E i \in DOMAIN order : order[i] = t
        BY DEF TurnsAgree, OrderAgrees
      <3>1. CASE t \in pruned
        BY <1>8, <1>9, <3>1, NoCallFields
      <3>2. CASE t \notin pruned
        BY <1>8, <1>9, <3>0, <3>2
      <3> QED
        BY <3>1, <3>2
    <2>2. Ordered(order', View)
      <3> SUFFICES ASSUME NEW k \in DOMAIN order', NEW m \in DOMAIN order',
                          NEW a \in DOMAIN View, NEW b \in DOMAIN View,
                          k < m, Opens(View, a, order'[k]), Opens(View, b, order'[m])
                   PROVE  a < b
        BY DEF Ordered
      <3>1. \E i, j \in DOMAIN order : i < j /\ order'[k] = order[i] /\ order'[m] = order[j]
        BY <1>9
      <3> QED
        BY <3>1 DEF TurnsAgree, OrderAgrees, Ordered
    <2> QED
      BY <1>6, <2>1, <2>2 DEF OrderAgrees
  <1>17. Resides'
    <2>1. up' /\ UNCHANGED <<op, guard>>
      BY <1>0
    <2>2. ~resident' => order' = <<>> /\ pending' = <<>> /\ ~guard /\ op.kind # "accept"
      BY <1>0
    <2> QED
      BY <2>1, <2>2 DEF Resides
  <1>18. ClaimedAgree'
    <2> SUFFICES ASSUME NEW t \in claimed' PROVE control'[t].live /\ RunsNow(View, t)
      BY <1>6 DEF ClaimedAgree
    <2>1. t \in claimed /\ t \in Turns /\ t \notin pruned
      BY <1>0 DEF TypeOK
    <2> QED
      BY <1>8, <2>1 DEF ClaimedAgree
  <1>19. FlightAgrees'
    BY <1>0 DEF FlightAgrees
  <1>20. OpAgrees'
    <2>1. OpHolds'
      <3> SUFFICES ASSUME op # NoOp
                   PROVE  /\ op.kind # "accept" =>
                               op.turn \in claimed' /\ control'[op.turn].terminalSeq = 0
                          /\ op.expected = durableSeq' + Len(pending')
        BY <1>0 DEF OpAgrees, OpHolds, LiveSeq
      <3>1. /\ op.kind # "accept" => op.turn \in claimed /\ control[op.turn].terminalSeq = 0
            /\ op.turn \in Turns /\ op.expected = durableSeq + Len(pending)
        BY DEF OpAgrees, OpHolds, LiveSeq
      <3>2. op.kind # "accept" => op.turn \notin pruned
        BY <1>p, <3>1
      <3>3. durableSeq' + Len(pending') = durableSeq + Len(pending)
        BY <1>0, <1>5
      <3> QED
        BY <1>0, <1>8, <3>1, <3>2, <3>3
    <2>2. OpStages'
      BY <1>0, <1>2 DEF OpStages
    <2>3. Behind'
      BY <1>0, <1>4 DEF Behind
    <2> QED
      BY <2>1, <2>2, <2>3 DEF OpAgrees
  <1>21. Promises'
    <2>1. WaitsAgree'
      BY <1>0, <1>6 DEF Promises, WaitsAgree
    <2>2. PendingFence'
      <3> SUFFICES ASSUME NEW i \in DOMAIN pending', pending'[i].body = "Started"
                   PROVE  \E j \in 1..durableSeq' : stored'[j].turn = pending'[i].turn
                                                    /\ stored'[j].body = "Intent"
        BY DEF PendingFence
      <3>1. n + i \in DOMAIN pending /\ pending'[i] = pending[n + i]
        BY <1>5
      <3>2. PICK j \in 1..durableSeq : stored[j].turn = pending'[i].turn /\ stored[j].body = "Intent"
        BY <3>1 DEF Promises, PendingFence
      <3>3. j \in 1..durableSeq'
        BY <1>0, <1>3, <1>4
      <3> QED
        BY <1>0, <3>2, <3>3
    <2>3. AckedIsStored'
      BY <1>0 DEF Promises, AckedIsStored, history
    <2>4. TokenIsDurable'
      <3> SUFFICES ASSUME NEW t \in token' PROVE Has(stored, t, "CancelRequested")
        BY <1>0 DEF TokenIsDurable
      <3>1. CASE t \in token
        BY <3>1 DEF Promises, TokenIsDurable
      <3>2. CASE t \notin token
        <4>1. PICK j \in DOMAIN pending : pending[j].seq <= durable /\ pending[j].turn = t
                                          /\ pending[j].body = "CancelRequested"
          BY <1>0, <3>2
        <4>2. durableSeq + j \in DOMAIN View /\ View[durableSeq + j] = pending[j]
          BY ViewIs DEF LogsAgree
        <4>3. pending[j].seq = durableSeq + j
          BY <4>2 DEF LogsAgree, GoodLog, Numbered
        <4>4. j \in 1..n
          BY <1>3, <1>4, <4>1, <4>3
        <4>5. stored[durableSeq + j] = pending[j] /\ durableSeq + j \in DOMAIN stored
          BY <1>1, <1>3, <4>4
        <4> QED
          BY <4>1, <4>5 DEF Has
      <3> QED
        BY <3>1, <3>2
    <2> QED
      BY <2>1, <2>2, <2>3, <2>4 DEF Promises
  <1>22. Wakes'
    <2>1. \A u \in queued' : Queued(queue', u)
      <3> HIDE DEF next
      <3> QED
        BY <1>0, <1>11, <1>12
    <2>2. OldestClaimable(order', control', durableSeq') = next
      BY <1>0
    <2> HIDE DEF next
    <2>3. next # NoTurn => Queued(queue', next)
      BY <1>10, <1>11, <1>12
    <2> QED
      BY <2>1, <2>2, <2>3, WakesWhen
  <1> QED
    BY <1>7, <1>13, <1>15, <1>16, <1>17, <1>18, <1>19, <1>20, <1>21, <1>22 DEF TurnsAgree

-----------------------------------------------------------------------------
(* Commits under submission admission.                                      *)

LEMMA AdmissionKeeps ==
    ASSUME Inv, NEW kind \in {"finish", "step", "accept"}, NEW t \in Turns,
           NEW proposed \in Proposals \cup {"none"}, kind = "finish" => proposed \in Proposals,
           kind # "accept" => t \in claimed /\ control[t].terminalSeq = 0,
           op = NoOp, resident,
           op' = [NoOp EXCEPT !.kind = kind, !.turn = t, !.phase = "flush",
                              !.expected = LiveSeq, !.proposed = proposed],
           UNCHANGED <<stored, up, resVars, claimed, token, qVars, flight, guard, waits, history>>
    PROVE  Inv'
  <1> USE DEF Inv
  <1>0. UNCHANGED <<stored, up, resVars, claimed, token, qVars, flight, guard, waits, history>>
    OBVIOUS
  <1>1. LiveSeq \in Nat
    BY ViewIs DEF LogsAgree
  <1>2. /\ op' \in Commits /\ op'.kind = kind /\ op'.turn = t /\ op'.phase = "flush"
        /\ op'.expected = LiveSeq /\ op'.proposed = proposed
    BY <1>0, <1>1, NoCallFields DEF Commits
  <1>3. TypeOK'
    BY <1>0, <1>2 DEF TypeOK, resVars, qVars, history
  <1>4. OpAgrees'
    <2>1. OpHolds'
      BY <1>0, <1>2 DEF OpHolds, resVars, LiveSeq
    <2>2. OpStages'
      BY <1>2 DEF OpStages
    <2>3. Behind'
      BY <1>0, <1>2, NoCallFields DEF OpAgrees, Behind, resVars
    <2> QED
      BY <2>1, <2>2, <2>3 DEF OpAgrees
  <1>5. Resides'
    BY <1>0 DEF Resides, resVars
  <1> QED
    BY <1>0, <1>3, <1>4, <1>5, KeepLogs, KeepTurns, KeepClaimed, KeepFlight, KeepPromises,
       KeepWakes DEF resVars, qVars, history

LEMMA OpBeginKeeps ==
    ASSUME Inv, NEW kind \in {"finish", "step"}, NEW t \in Turns,
           NEW proposed \in Proposals \cup {"none"}, kind = "finish" => proposed \in Proposals,
           OpBegin(kind, t, proposed)
    PROVE  Inv'
  BY AdmissionKeeps DEF OpBegin

LEMMA AcceptBeginKeeps ==
    ASSUME Inv, NEW t \in Turns, AcceptBegin(t)
    PROVE  Inv'
  <1>1. NoOp.proposed = "none"
    BY DEF NoOp
  <1>2. op' = [NoOp EXCEPT !.kind = "accept", !.turn = t, !.phase = "flush",
                           !.expected = LiveSeq, !.proposed = "none"]
    BY <1>1 DEF AcceptBegin, NoOp
  <1> QED
    BY <1>2, AdmissionKeeps DEF AcceptBegin

(* What is known of a commit that holds admission.                           *)
LEMMA OpIs ==
    ASSUME Inv, op.phase # "none"
    PROVE  /\ op # NoOp /\ op.kind \in {"finish", "step", "accept"} /\ op.turn \in Turns
           /\ op.expected = LiveSeq /\ resident /\ up
           /\ op.kind = "finish" => op.proposed \in Proposals
           /\ op.kind # "accept" =>
                /\ op.turn \in claimed /\ control[op.turn].live
                /\ control[op.turn].terminalSeq = 0
                /\ LiveAt(View, control[op.turn], op.turn)
  <1> USE DEF Inv
  <1>1. op # NoOp
    BY NoCallFields
  <1>2. /\ op.kind \in {"finish", "step", "accept"} /\ op.turn \in Turns
        /\ op.expected = LiveSeq
        /\ op.kind = "finish" => op.proposed \in Proposals
    BY <1>1, OpFields DEF OpAgrees, OpHolds
  <1>3. CASE op.kind = "accept"
    <2>1. resident /\ up
      BY <1>3 DEF Resides
    <2> QED
      BY <1>1, <1>2, <1>3, <2>1
  <1>4. CASE op.kind # "accept"
    <2>1. op.turn \in claimed /\ control[op.turn].terminalSeq = 0
      BY <1>1, <1>4 DEF OpAgrees, OpHolds
    <2>2. control[op.turn].live
      BY <2>1 DEF ClaimedAgree
    <2>3. resident /\ up
      BY <1>2, <2>2, LiveResides
    <2>4. LiveAt(View, control[op.turn], op.turn)
      BY <1>2, <2>2 DEF TurnsAgree, ControlAgrees
    <2> QED
      BY <1>1, <1>2, <2>1, <2>2, <2>3, <2>4
  <1> QED
    BY <1>3, <1>4

(* What is known once it is sent: it may be stored at the tail of the log.   *)
LEMMA StagedIs ==
    ASSUME Inv, op.phase \in {"sent", "done"}
    PROVE  /\ pending = <<>> /\ flight = NoFlight /\ op.expected = durableSeq /\ LiveSeq = durableSeq
           /\ Len(op.facts) = 1 /\ op.facts[1] \in Facts
           /\ op.facts[1].seq = op.expected + 1 /\ op.facts[1].turn = op.turn
           /\ op.kind = "step" => op.facts[1].body = "StepClaimed"
           /\ op.kind = "finish" => IsTerminal(op.facts[1])
           /\ op.kind = "accept" =>
                op.facts[1].body = "Accepted" /\ order = <<>> /\ ~Has(View, op.turn, "Accepted")
           /\ op.facts[1].body \notin {"CancelRequested", "Started", "Intent"}
           /\ Fit(View, op.facts[1])
  <1> USE DEF Inv
  <1>1. pending = <<>> /\ Len(op.facts) = 1 /\ Staged
    BY DEF OpAgrees, OpStages, Staged
  <1>2. flight = NoFlight
    BY <1>1, FlightExcludes
  <1>3. LiveSeq = durableSeq /\ durableSeq \in Nat
    <2>1. Len(pending) <= 0 /\ Len(pending) \in Nat /\ durableSeq \in Nat
      BY <1>1 DEF TypeOK
    <2>2. LiveSeq = durableSeq + Len(pending)
      BY DEF LiveSeq
    <2> QED
      BY <2>1, <2>2
  <1>4. /\ op.kind \in {"finish", "step", "accept"} /\ op.expected = LiveSeq
        /\ op.kind # "accept" => op.turn \in claimed /\ control[op.turn].terminalSeq = 0
    BY OpIs
  <1>5. op.facts[1] \in Facts
    BY <1>1, OpFields
  <1> DEFINE f == op.facts[1]
  <1> HIDE DEF f
  <1>6. /\ f.seq = op.expected + 1 /\ f.turn = op.turn
        /\ op.kind = "step" => f.body = "StepClaimed"
        /\ op.kind = "finish" => f.body \in Outcomes
        /\ op.kind = "finish" => (f.body = "Cancelled" <=> control[op.turn].cancelRequested)
        /\ op.kind = "accept" =>
             f.body = "Accepted" /\ order = <<>> /\ ~Has(View, op.turn, "Accepted")
    BY <1>1 DEF Staged, f
  <1>7. /\ f.body \notin {"CancelRequested", "Started", "Intent"}
        /\ f.body \in Outcomes => op.kind = "finish"
        /\ f.body = "Accepted" <=> op.kind = "accept"
    BY <1>4, <1>6 DEF Outcomes
  <1>8. Fit(View, f)
    <2>1. f \in Facts /\ f.seq = LiveSeq + 1
      BY <1>4, <1>5, <1>6 DEF f
    <2>2. CASE op.kind = "accept"
      <3>1. ~IsTerminal(f)
        BY <1>7, <2>2 DEF IsTerminal
      <3>2. Len(View) = LiveSeq
        BY ViewIs DEF LogsAgree
      <3> QED
        BY <1>6, <1>7, <2>1, <2>2, <3>1, <3>2 DEF Fit
    <2>3. CASE op.kind # "accept"
      BY <1>4, <1>6, <1>7, <2>1, <2>3, ClaimedFits
    <2> QED
      BY <2>2, <2>3
  <1>9. op.kind = "finish" => IsTerminal(f)
    BY <1>6 DEF IsTerminal
  <1> QED
    BY <1>1, <1>2, <1>3, <1>4, <1>5, <1>6, <1>7, <1>8, <1>9 DEF f

LEMMA OpSendKeeps ==
    ASSUME Inv, OpSend
    PROVE  Inv'
  <1> USE DEF Inv
  <1> DEFINE body == IF op.kind = "accept" THEN "Accepted"
                     ELSE IF op.kind = "finish"
                     THEN CanonicalOutcome(op.proposed, control[op.turn].cancelRequested)
                     ELSE "StepClaimed"
             f == Fact(op.expected + 1, op.turn, body)
  <1>0. /\ op.phase = "flush" /\ durableSeq >= op.expected
        /\ (op.kind = "finish" => ~permanentError)
        /\ (op.kind = "accept" => order = <<>> /\ ~Has(stored, op.turn, "Accepted"))
        /\ op' = [op EXCEPT !.phase = "sent", !.facts = <<f>>]
        /\ UNCHANGED <<stored, up, resVars, claimed, token, qVars, flight, guard, waits, history>>
    BY DEF OpSend, MessageMayStart
  <1>1. /\ op # NoOp /\ op.kind \in {"finish", "step", "accept"}
        /\ op.turn \in Turns
        /\ op.kind # "accept" => op.turn \in claimed /\ control[op.turn].terminalSeq = 0
        /\ op.expected = LiveSeq /\ resident /\ up
        /\ op.kind = "finish" => op.proposed \in Proposals
    BY <1>0, OpIs
  <1>2. body \in Bodies /\ (op.kind = "step" => body = "StepClaimed")
        /\ (op.kind = "accept" => body = "Accepted")
        /\ (op.kind = "finish" => body \in Outcomes /\ (body = "Cancelled" <=> control[op.turn].cancelRequested))
    <2>1. CASE op.kind = "step"
      BY <2>1 DEF Bodies
    <2>2. CASE op.kind = "finish"
      <3>1. control[op.turn].cancelRequested \in BOOLEAN
        BY <1>1, ControlFields
      <3>2. /\ CanonicalOutcome(op.proposed, control[op.turn].cancelRequested) \in Outcomes
            /\ CanonicalOutcome(op.proposed, control[op.turn].cancelRequested) = "Cancelled"
               <=> control[op.turn].cancelRequested
        BY <1>1, <2>2, <3>1, CanonicalIs
      <3>3. body = CanonicalOutcome(op.proposed, control[op.turn].cancelRequested)
        BY <2>2
      <3> HIDE DEF body
      <3> QED
        BY <2>2, <3>2, <3>3 DEF Bodies
    <2>3. CASE op.kind = "accept"
      BY <2>3 DEF Bodies
    <2> QED
      BY <1>1, <2>1, <2>2, <2>3
  <1> HIDE DEF body
  <1>3. /\ LiveSeq \in Nat /\ LiveSeq + 1 \in Nat \ {0} /\ durableSeq \in Nat
        /\ LiveSeq = durableSeq + Len(pending) /\ Len(pending) \in Nat
    BY ViewIs DEF LogsAgree, TypeOK, LiveSeq
  <1>4. f \in Facts /\ f.seq = op.expected + 1 /\ f.turn = op.turn /\ f.body = body
    BY <1>1, <1>2, <1>3, FactTyped
  <1> HIDE DEF f
  <1>5. pending = <<>>
    <2>1. Len(pending) = 0
      BY <1>0, <1>1, <1>3
    <2> QED
      BY <2>1 DEF TypeOK
  <1>6. /\ op' \in Commits /\ op'.kind = op.kind /\ op'.turn = op.turn /\ op'.phase = "sent"
        /\ op'.expected = op.expected /\ op'.facts = <<f>> /\ op'.result = op.result
        /\ op'.proposed = op.proposed
    <2>1. <<f>> \in Seq(Facts)
      BY <1>4
    <2> QED
      BY <1>0, <2>1 DEF TypeOK, Commits
  <1>7. TypeOK'
    BY <1>0, <1>6 DEF TypeOK, resVars, qVars, history
  <1>8. OpHolds'
    BY <1>0, <1>1, <1>6 DEF OpHolds, resVars, LiveSeq
  <1>9. OpStages'
    <2>1. op'.facts[1] = f /\ Len(op'.facts) = 1
      BY <1>6
    <2>3. op.expected < Len(stored) => \/ stored[op.expected + 1].body \in Missable
                                       \/ op.kind # "finish" /\ permanentError
      <3>1. op.expected = durableSeq
        BY <1>0, <1>1, <1>3
      <3> QED
        BY <1>0, <1>1, <1>5, <3>1 DEF OpAgrees, Behind
    <2>4. Staged'
      <3>1. View' = View /\ UNCHANGED <<order, control>>
        BY <1>0, KeepLogs DEF resVars
      <3>2. ASSUME op.kind = "accept" PROVE order = <<>> /\ ~Has(View, op.turn, "Accepted")
        <4>1. \A i \in DOMAIN View : i \in DOMAIN stored /\ View[i] = stored[i]
          BY <1>3, <1>5, ViewIs DEF LogsAgree
        <4> QED
          BY <1>0, <3>2, <4>1 DEF Has
      <3> QED
        BY <1>2, <1>4, <1>6, <2>1, <3>1, <3>2 DEF Staged
    <2>5. UNCHANGED <<stored, pending, permanentError>>
      BY <1>0 DEF resVars
    <2> QED
      BY <1>5, <1>6, <2>1, <2>3, <2>4, <2>5 DEF OpStages
  <1>10. Behind'
    BY <1>6 DEF Behind
  <1> QED
    BY <1>0, <1>7, <1>8, <1>9, <1>10, KeepLogs, KeepResides, KeepTurns, KeepClaimed, KeepFlight,
       KeepPromises, KeepWakes DEF resVars, qVars, history, OpAgrees

LEMMA OpAbandonKeeps ==
    ASSUME Inv, OpAbandon
    PROVE  Inv'
  <1> USE DEF Inv
  <1>0. /\ op.phase = "flush" /\ op' = NoOp
        /\ resident' = IF op.kind = "accept" THEN ResidentAfterDrop ELSE resident
        /\ UNCHANGED <<stored, up, durableSeq, pending, control, order, retryFailures,
                       permanentError, claimed, token, qVars, flight, guard, waits, history>>
    BY DEF OpAbandon
  <1>1. resident' \in BOOLEAN /\ (resident' => resident) /\ (~resident' => ~resident \/ Idle)
        /\ (guard' \/ op'.kind = "accept" => resident')
    BY <1>0, NoCallFields DEF ResidentAfterDrop, Resides, TypeOK
  <1>2. /\ LogsAgree' /\ Resides' /\ TurnsAgree' /\ ClaimedAgree' /\ FlightAgrees'
        /\ OpAgrees' /\ Wakes'
    BY <1>0, <1>1, DropKeeps
  <1>3. TypeOK'
    BY <1>0, <1>1, NoCallFields DEF TypeOK, qVars, history
  <1>4. Promises'
    BY <1>0, KeepPromises DEF history
  <1> QED
    BY <1>2, <1>3, <1>4

LEMMA AcceptKnownKeeps ==
    ASSUME Inv, AcceptKnown
    PROVE  Inv'
  <1> USE DEF Inv
  <1>0. /\ op.phase = "flush" /\ op' = NoOp /\ resident' = ResidentAfterDrop
        /\ UNCHANGED <<stored, up, durableSeq, pending, control, order, retryFailures,
                       permanentError, claimed, token, qVars, flight, guard, waits, faults, crashes>>
    BY DEF AcceptKnown
  <1>1. PICK i \in DOMAIN stored : acked' = acked \cup {stored[i]}
    BY DEF AcceptKnown
  <1>2. resident' \in BOOLEAN /\ (resident' => resident) /\ (~resident' => ~resident \/ Idle)
        /\ (guard' \/ op'.kind = "accept" => resident')
    BY <1>0, NoCallFields DEF ResidentAfterDrop, Resides, TypeOK
  <1>3. /\ LogsAgree' /\ Resides' /\ TurnsAgree' /\ ClaimedAgree' /\ FlightAgrees'
        /\ OpAgrees' /\ Wakes'
    BY <1>0, <1>2, DropKeeps
  <1>4. stored[i] \in Facts /\ stored[i].seq = i /\ i <= Len(stored)
    BY DEF LogsAgree, GoodLog, Numbered, TypeOK
  <1>5. TypeOK'
    BY <1>0, <1>1, <1>2, <1>4, NoCallFields DEF TypeOK, qVars
  <1>6. Promises'
    <2>1. View' = View
      BY <1>0, KeepLogs
    <2>2. AckedIsStored'
      BY <1>0, <1>1, <1>4 DEF Promises, AckedIsStored
    <2>3. WaitsAgree' /\ PendingFence' /\ TokenIsDurable'
      BY <1>0, <2>1 DEF Promises, WaitsAgree, PendingFence, TokenIsDurable
    <2> QED
      BY <2>2, <2>3 DEF Promises
  <1> QED
    BY <1>3, <1>5, <1>6

(* ResumeAdmissionGuard::drop after a failed commit.                         *)
LEMMA GuardDropKeeps ==
    ASSUME Inv, GuardDrop
    PROVE  Inv'
  <1> USE DEF Inv
  <1>0. /\ guard /\ ~guard' /\ guard' = FALSE
        /\ resident' = (op.kind = "accept" \/ ~Idle)
        /\ UNCHANGED <<stored, up, durableSeq, pending, control, order, retryFailures,
                       permanentError, claimed, token, qVars, flight, op, waits, history>>
    BY DEF GuardDrop
  <1>1. resident' \in BOOLEAN /\ (resident' => resident) /\ (~resident' => ~resident \/ Idle)
        /\ (guard' \/ op'.kind = "accept" => resident')
    BY <1>0 DEF Resides
  <1>2. /\ LogsAgree' /\ Resides' /\ TurnsAgree' /\ ClaimedAgree' /\ FlightAgrees'
        /\ OpAgrees' /\ Wakes'
    BY <1>0, <1>1, DropKeeps
  <1>3. TypeOK'
    BY <1>0, <1>1 DEF TypeOK, qVars, history
  <1>4. Promises'
    BY <1>0, KeepPromises DEF history
  <1> QED
    BY <1>2, <1>3, <1>4

LEMMA OpStoreKeeps ==
    ASSUME Inv, OpStore
    PROVE  Inv'
  <1> USE DEF Inv
  <1>0. /\ op.phase = "sent"
        /\ UNCHANGED <<up, resVars, claimed, token, qVars, flight, guard, waits, acked, crashes>>
    BY DEF OpStore
  <1>1. PICK a \in Answers : /\ StoreAnswer(op, a)
                             /\ op' = [op EXCEPT !.phase = "done", !.result = a]
    BY DEF OpStore
  <1>2. /\ op # NoOp /\ op.kind \in {"finish", "step", "accept"} /\ op.turn \in Turns
        /\ op.kind # "accept" => op.turn \in claimed /\ control[op.turn].terminalSeq = 0
        /\ op.expected = LiveSeq /\ resident
        /\ op.kind = "finish" => op.proposed \in Proposals
    BY <1>0, OpIs
  <1>3. /\ pending = <<>> /\ flight = NoFlight /\ op.expected = durableSeq
        /\ Len(op.facts) = 1 /\ op.facts[1] \in Facts /\ Fit(View, op.facts[1])
    BY <1>0, StagedIs
  <1>4. /\ op' \in Commits /\ op'.kind = op.kind /\ op'.turn = op.turn /\ op'.phase = "done"
        /\ op'.expected = op.expected /\ op'.facts = op.facts /\ op'.result = a
        /\ op'.proposed = op.proposed
    BY <1>1 DEF TypeOK, Commits
  <1>5. faults' \in Nat
    BY <1>1 DEF StoreAnswer, TypeOK
  <1>6. OpHolds'
    BY <1>0, <1>2, <1>4 DEF OpHolds, LiveSeq, resVars
  <1>7. Behind'
    BY <1>4 DEF Behind
  <1>8. View' = View => Staged'
    <2>1. Staged
      BY <1>0 DEF OpAgrees, OpStages
    <2> QED
      BY <1>0, <1>4, <2>1 DEF Staged, resVars
  <1>9. CASE CasHolds(op.expected) /\ stored' = stored \o op.facts /\ a \in {"ok", "io"}
    <2>1. Len(stored) = durableSeq
      BY <1>3, <1>9 DEF CasHolds
    <2>2. /\ stored' \in Seq(Facts) /\ Len(stored') = Len(stored) + 1
          /\ Len(stored) <= Len(stored')
          /\ \A i \in 1..Len(stored) : stored'[i] = stored[i]
          /\ stored'[Len(stored) + 1] = op.facts[1]
      <3>1. /\ stored' \in Seq(Facts) /\ Len(stored') = Len(stored) + Len(op.facts)
            /\ Len(stored) <= Len(stored')
            /\ \A i \in 1..Len(stored) : stored'[i] = stored[i]
            /\ \A k \in 1..Len(op.facts) : stored'[Len(stored) + k] = op.facts[k]
        <4>1. stored \in Seq(Facts) /\ op.facts \in Seq(Facts)
          BY OpFields DEF TypeOK
        <4> QED
          BY <1>9, <4>1, AppendIs
      <3> QED
        BY <1>3, <3>1
    <2>3. View' = View /\ Watermark' /\ Promises'
      BY <1>0, <2>2, StoreGrows DEF resVars
    <2>4. Grows(View, stored', op.facts[1])
      <3>1. View \in Seq(Facts) /\ Len(View) = durableSeq
        BY <1>0, StagedIs, ViewIs DEF LogsAgree
      <3>2. \A i \in 1..durableSeq : stored'[i] = View[i]
        BY <2>1, <2>2, ViewIs DEF LogsAgree
      <3> QED
        BY <2>1, <2>2, <3>1, <3>2 DEF Grows
    <2>5. GoodLog(stored')
      BY <1>3, <2>4, GrowthIsGood, ViewIs DEF LogsAgree
    <2>6. LogsAgree'
      BY <2>3, <2>5 DEF LogsAgree
    <2>7. TypeOK'
      BY <1>0, <1>4, <1>5, <2>2 DEF TypeOK, resVars, qVars
    <2>8. Resides'
      BY <1>0, <1>2 DEF Resides, resVars
    <2>9. TurnsAgree' /\ ClaimedAgree'
      <3>1. ControlAgrees' /\ OrderAgrees'
        BY <1>0, <2>3 DEF TurnsAgree, ControlAgrees, OrderAgrees, resVars
      <3> QED
        BY <1>0, <2>3, <3>1 DEF TurnsAgree, ClaimedAgree, resVars
    <2>10. FlightAgrees'
      BY <1>0, <1>3 DEF FlightAgrees
    <2>11. OpStages'
      <3>1. Committed'
        BY <1>3, <1>4, <2>1, <2>2 DEF Committed
      <3> QED
        BY <1>0, <1>3, <1>4, <1>8, <1>9, <2>3, <3>1 DEF OpStages, resVars
    <2> QED
      BY <1>0, <1>6, <1>7, <2>3, <2>6, <2>7, <2>8, <2>9, <2>10, <2>11, KeepWakes
         DEF resVars, qVars, OpAgrees
  <1>10. CASE stored' = stored /\ a # "ok"
    <2>1. TypeOK'
      BY <1>0, <1>4, <1>5, <1>10 DEF TypeOK, resVars, qVars
    <2>2. OpStages'
      <3>1. View' = View
        BY <1>0, <1>10, KeepLogs DEF resVars
      <3>2. op.expected < Len(stored) => \/ stored[op.expected + 1].body \in Missable
                                         \/ op.kind # "finish" /\ permanentError
        BY <1>0 DEF OpAgrees, OpStages
      <3> QED
        BY <1>0, <1>3, <1>4, <1>8, <1>10, <3>1, <3>2 DEF OpStages, resVars
    <2> QED
      BY <1>0, <1>4, <1>6, <1>7, <1>10, <2>1, <2>2, KeepLogs, KeepResides, KeepTurns, KeepClaimed,
         KeepFlight, KeepPromises, KeepWakes DEF resVars, qVars, OpAgrees
  <1> QED
    BY <1>1, <1>9, <1>10 DEF StoreAnswer

(* An ending found in the Store is the one that was staged, and is its tail. *)
LEMMA EndingIsCommitted ==
    ASSUME Inv, op.kind = "finish", op.phase = "done",
           op.result = "ok" \/ EndingIsProved
    PROVE  Committed
  <1> USE DEF Inv
  <1>1. CASE op.result = "ok"
    BY <1>1 DEF OpAgrees, OpStages
  <1>2. CASE EndingIsProved
    <2>1. PICK i \in DOMAIN stored : op.facts[1] = stored[i]
      BY <1>2 DEF EndingIsProved
    <2>2. op.facts[1].seq = op.expected + 1 /\ IsTerminal(op.facts[1])
      BY StagedIs
    <2>3. i = op.expected + 1
      BY <2>1, <2>2 DEF LogsAgree, GoodLog, Numbered
    <2>4. op.expected < Len(stored)
      <3>1. i <= Len(stored) /\ op.expected \in Nat /\ Len(stored) \in Nat
        BY <2>1, OpFields DEF TypeOK
      <3> QED
        BY <2>3, <3>1
    <2>5. stored[op.expected + 1].body \notin Missable
      BY <2>1, <2>2, <2>3 DEF IsTerminal, Outcomes, Missable
    <2> QED
      BY <2>4, <2>5 DEF OpAgrees, OpStages
  <1> QED
    BY <1>1, <1>2

(* Installing a committed Fact: the watermark reaches the tail of the Store. *)
LEMMA InstallGrows ==
    ASSUME Inv, op.phase = "done", Committed, UNCHANGED <<stored, pending>>,
           durableSeq' = op.expected + 1
    PROVE  /\ Grows(View, View', op.facts[1]) /\ LogsAgree'
           /\ Len(stored) = op.expected + 1 /\ stored[op.expected + 1] = op.facts[1]
           /\ DOMAIN View' = DOMAIN stored /\ \A i \in DOMAIN stored : View'[i] = stored[i]
  <1> USE DEF Inv
  <1>1. /\ pending = <<>> /\ op.expected = durableSeq /\ LiveSeq = durableSeq
        /\ op.facts[1] \in Facts /\ Fit(View, op.facts[1])
    BY StagedIs
  <1>2. Len(stored) = op.expected + 1 /\ stored[op.expected + 1] = op.facts[1]
    BY DEF Committed
  <1>3. /\ stored \in Seq(Facts) /\ durableSeq \in Nat /\ DOMAIN stored = 1..Len(stored)
    BY DEF TypeOK
  <1>4. durableSeq' = Len(stored) /\ Len(stored) \in Nat
    BY <1>2, <1>3
  <1>5. DOMAIN View' = DOMAIN stored /\ \A i \in DOMAIN stored : View'[i] = stored[i]
    <2> DEFINE m == durableSeq' + Len(pending')
    <2>1. Len(pending') <= 0 /\ Len(pending') \in Nat
      BY <1>1
    <2>2. m = Len(stored)
      <3>1. durableSeq' \in Nat
        BY <1>4
      <3>2. durableSeq' + Len(pending') = durableSeq'
        BY <2>1, <3>1
      <3> QED
        BY <1>4, <3>2
    <2>3. View' = [i \in 1..m |-> IF i <= durableSeq' THEN stored'[i] ELSE pending'[i - durableSeq']]
      BY DEF View
    <2> HIDE DEF m
    <2>4. \A i \in 1..m : i <= durableSeq'
      BY <1>4, <2>2
    <2> QED
      BY <1>3, <2>2, <2>3, <2>4
  <1>6. Grows(View, View', op.facts[1])
    <2>1. View \in Seq(Facts) /\ Len(View) = durableSeq
      BY <1>1, ViewIs DEF LogsAgree
    <2>2. View' \in Seq(Facts) /\ Len(View') = Len(stored)
      <3>1. \A i \in 1..Len(stored) : View'[i] \in Facts
        BY <1>3, <1>5
      <3>2. View' = [i \in 1..Len(stored) |-> View'[i]]
        BY <1>3, <1>5 DEF View
      <3> QED
        BY <1>4, <3>1, <3>2
    <2>3. \A i \in 1..durableSeq : View'[i] = View[i]
      BY <1>5, ViewIs DEF LogsAgree
    <2>4. durableSeq + 1 \in DOMAIN stored
      BY <1>1, <1>2, <1>3
    <2> QED
      BY <1>1, <1>2, <1>5, <2>1, <2>2, <2>3, <2>4 DEF Grows
  <1>7. GoodLog(View')
    BY <1>1, <1>6, GrowthIsGood, ViewIs DEF LogsAgree
  <1>8. Watermark'
    BY <1>4 DEF Watermark
  <1> QED
    BY <1>2, <1>5, <1>6, <1>7, <1>8 DEF LogsAgree

LEMMA FinishInstallKeeps ==
    ASSUME Inv, FinishInstall
    PROVE  Inv'
  <1> USE DEF Inv
  <1> DEFINE t == op.turn
             last == op.expected + 1
             next == OldestClaimable(order', control', last)
             qs == queued \ {t}
             f == op.facts[1]
  <1>0. /\ up /\ op.kind = "finish" /\ op.phase = "done"
        /\ op.result = "ok" \/ EndingIsProved
        /\ durableSeq = op.expected /\ pending = <<>>
        /\ durableSeq' = last
        /\ control' = [control EXCEPT ![t] = NoControl]
        /\ order' = Only(order, Turns \ {t})
        /\ claimed' = claimed \ {t}
        /\ queue' = EnqueueIn(queue, qs, next)
        /\ queued' = QueuedWith(qs, next)
        /\ resident' = (guard \/ order' # <<>> \/ flight # NoFlight)
        /\ acked' = acked \cup {f}
        /\ op' = NoOp
        /\ UNCHANGED <<stored, up, pending, token, retryFailures, permanentError, flight, guard, waits,
                       faults, crashes>>
    BY DEF FinishInstall
  <1>1. /\ t \in Turns /\ t \in claimed /\ control[t].live /\ LiveAt(View, control[t], t)
    BY <1>0, OpIs
  <1>2. /\ flight = NoFlight /\ f \in Facts /\ f.seq = last /\ f.turn = t /\ IsTerminal(f)
        /\ f.body \notin {"Accepted", "CancelRequested", "Started", "Intent"}
        /\ Fit(View, f)
    <2>1. /\ flight = NoFlight /\ f \in Facts /\ f.seq = last /\ f.turn = t /\ IsTerminal(f)
          /\ Fit(View, f)
      BY <1>0, StagedIs
    <2>2. f.body \notin {"Accepted", "CancelRequested", "Started", "Intent"}
      BY <2>1 DEF IsTerminal, Outcomes
    <2> QED
      BY <2>1, <2>2
  <1>3. /\ Grows(View, View', f) /\ LogsAgree'
        /\ Len(stored) = last /\ stored[last] = f
        /\ DOMAIN View' = DOMAIN stored /\ \A i \in DOMAIN stored : View'[i] = stored[i]
    <2>1. Committed
      BY <1>0, EndingIsCommitted
    <2> QED
      BY <1>0, <2>1, InstallGrows
  <1>4. last \in Nat /\ durableSeq' = last
    BY <1>0, OpFields
  <1> HIDE DEF t, last, f
  <1>5. /\ control' \in [Turns -> Controls] /\ control'[t] = NoControl
        /\ \A u \in Turns : u # t => control'[u] = control[u]
    <2>1. control \in [Turns -> Controls] /\ NoControl \in Controls
      BY NoCallFields DEF TypeOK
    <2> QED
      BY <1>0, <1>1, <2>1
  <1>6. /\ order' \in Seq(Turns)
        /\ \A k \in DOMAIN order' : order'[k] \in Turns /\ order'[k] # t /\ \E i \in DOMAIN order : order'[k] = order[i]
        /\ \A k, m \in DOMAIN order' : k < m =>
             \E i, j \in DOMAIN order : i < j /\ order'[k] = order[i] /\ order'[m] = order[j]
        /\ \A i \in DOMAIN order : order[i] # t => \E k \in DOMAIN order' : order'[k] = order[i]
    <2> DEFINE S == Turns \ {t}
    <2>1. order' = Only(order, S)
      BY <1>0
    <2>2. order \in Seq(Turns) /\ \A i \in DOMAIN order : order[i] # t => order[i] \in S
      BY DEF TypeOK
    <2>3. \A u \in S : u \in Turns /\ u # t
      OBVIOUS
    <2> HIDE DEF S
    <2>a. order \in Seq(Turns)
      BY <2>2
    <2>4. /\ order' \in Seq(Turns)
          /\ \A k \in DOMAIN order' : order'[k] \in S /\ \E i \in DOMAIN order : order'[k] = order[i]
          /\ \A k, m \in DOMAIN order' : k < m =>
               \E i, j \in DOMAIN order : i < j /\ order'[k] = order[i] /\ order'[m] = order[j]
          /\ \A i \in DOMAIN order : order[i] \in S => \E k \in DOMAIN order' : order'[k] = order[i]
      BY <2>a, <2>1, OnlyIs
    <2> QED
      BY <2>2, <2>3, <2>4
  <1>7. next \in Turns \cup {NoTurn}
    BY <1>4, <1>6, OldestIs
  <1>8. /\ queue' \in Seq(Turns) /\ queued' \in SUBSET Turns
        /\ \A u \in queued' : Queued(queue', u)
        /\ next # NoTurn => Queued(queue', next)
    <2>1. queue \in Seq(Turns) /\ qs \in SUBSET Turns /\ \A u \in qs : Queued(queue, u)
      BY WakesGive DEF TypeOK
    <2>2. queue' = EnqueueIn(queue, qs, next) /\ queued' = QueuedWith(qs, next)
      BY <1>0
    <2> HIDE DEF next, qs
    <2> QED
      BY <1>7, <2>1, <2>2, EnqueueIs
  <1>9. TypeOK'
    <2> HIDE DEF next, qs
    <2>1. acked' \subseteq Facts /\ claimed' \subseteq Turns /\ resident' \in BOOLEAN
      BY <1>0, <1>2 DEF TypeOK
    <2> QED
      BY <1>0, <1>4, <1>5, <1>6, <1>8, <2>1, NoCallFields DEF TypeOK
  <1>10. ControlAgrees'
    <2> SUFFICES ASSUME NEW u \in Turns
                 PROVE  IF control'[u].live
                        THEN LiveAt(View', control'[u], u)
                        ELSE GoneAt(View', u) /\ \A i \in DOMAIN pending' : pending'[i].turn # u
      BY DEF ControlAgrees
    <2>0. \A i \in DOMAIN pending' : pending'[i].turn # u
      BY <1>0
    <2>a. View \in Seq(Facts)
      BY ViewIs DEF LogsAgree
    <2>1. CASE u = t
      <3>1. Ended(View', t)
        BY <1>2, <1>3, <2>a, GrowthTells
      <3> QED
        BY <1>5, <2>0, <2>1, <3>1, NoCallFields DEF GoneAt
    <2>2. CASE u # t
      <3>1. control'[u] = control[u]
        BY <1>5, <2>2
      <3>2. /\ \A c : LiveAt(View, c, u) => LiveAt(View', c, u)
            /\ GoneAt(View, u) => GoneAt(View', u)
        BY <1>2, <1>3, <2>2, <2>a, OthersGrow
      <3> QED
        BY <2>0, <3>1, <3>2 DEF TurnsAgree, ControlAgrees
    <2> QED
      BY <2>1, <2>2
  <1>11. OrderAgrees'
    <2>1. ASSUME NEW u \in Turns
          PROVE  control'[u].live <=> \E i \in DOMAIN order' : order'[i] = u
      <3>0. control[u].live <=> \E i \in DOMAIN order : order[i] = u
        BY DEF TurnsAgree, OrderAgrees
      <3>1. CASE u = t
        BY <1>5, <1>6, <3>1, NoCallFields
      <3>2. CASE u # t
        BY <1>5, <1>6, <3>0, <3>2
      <3> QED
        BY <3>1, <3>2
    <2>2. Ordered(order, View')
      BY <1>2, <1>3, ViewIs, OrderGrows DEF LogsAgree, TurnsAgree, OrderAgrees
    <2>3. Ordered(order', View')
      <3> SUFFICES ASSUME NEW k \in DOMAIN order', NEW m \in DOMAIN order',
                          NEW a \in DOMAIN View', NEW b \in DOMAIN View',
                          k < m, Opens(View', a, order'[k]), Opens(View', b, order'[m])
                   PROVE  a < b
        BY DEF Ordered
      <3>1. \E i, j \in DOMAIN order : i < j /\ order'[k] = order[i] /\ order'[m] = order[j]
        BY <1>6
      <3> QED
        BY <2>2, <3>1 DEF Ordered
    <2> QED
      BY <2>1, <2>3 DEF OrderAgrees
  <1>12. Resides'
    <2>1. op'.kind = "none" /\ resident' \in BOOLEAN
      BY <1>0, NoCallFields
    <2> HIDE DEF next, qs
    <2> QED
      BY <1>0, <2>1 DEF Resides
  <1>13. ClaimedAgree'
    <2>1. \A u \in claimed' : control'[u].live
      BY <1>0, <1>5 DEF ClaimedAgree, TypeOK
    <2> QED
      BY <1>0, <1>2, <1>3, <2>1, ClaimedGrows
  <1>14. FlightAgrees'
    BY <1>0, <1>2 DEF FlightAgrees
  <1>15. OpAgrees'
    <2>1. op'.phase = "none" /\ op' = NoOp
      BY <1>0, NoCallFields
    <2>2. ~(durableSeq' < Len(stored'))
      BY <1>0, <1>3, <1>4
    <2> QED
      BY <2>1, <2>2 DEF OpAgrees, OpHolds, OpStages, Behind
  <1>16. Promises'
    <2>1. WaitsAgree'
      BY <1>0, <1>2, <1>3, WaitsGrow
    <2>2. PendingFence'
      BY <1>0 DEF PendingFence
    <2>3. AckedIsStored'
      BY <1>0, <1>2, <1>3, <1>4 DEF Promises, AckedIsStored
    <2>4. TokenIsDurable'
      BY <1>0 DEF Promises, TokenIsDurable
    <2> QED
      BY <2>1, <2>2, <2>3, <2>4 DEF Promises
  <1>17. Wakes'
    <2>1. OldestClaimable(order', control', durableSeq') = next
      BY <1>4
    <2> HIDE DEF next
    <2> QED
      BY <1>8, <2>1, WakesWhen
  <1> QED
    BY <1>3, <1>9, <1>10, <1>11, <1>12, <1>13, <1>14, <1>15, <1>16, <1>17 DEF TurnsAgree

LEMMA FinishFailsKeeps ==
    ASSUME Inv, FinishFails
    PROVE  Inv'
  <1> USE DEF Inv
  <1>0. /\ op.kind = "finish" /\ op.phase = "done" /\ op' = NoOp
        /\ op.result = "busy" \/ ~Ended(stored, op.turn)
        /\ UNCHANGED <<stored, up, resVars, claimed, token, qVars, flight, guard, waits, history>>
    BY DEF FinishFails
  <1>1. TypeOK'
    BY <1>0, NoCallFields DEF TypeOK, resVars, qVars, history
  <1>2. OpAgrees'
    <2>1. op.expected = durableSeq /\ (op.expected < Len(stored) => stored[op.expected + 1].body \in Missable)
      <3>1. op.expected = durableSeq /\ op.facts[1].turn = op.turn /\ IsTerminal(op.facts[1])
        BY <1>0, StagedIs
      <3>2. ASSUME op.result \in {"ok", "io"}, Committed PROVE FALSE
        <4>1. op.expected + 1 \in DOMAIN stored /\ stored[op.expected + 1] = op.facts[1]
          BY <3>2, OpFields DEF Committed, TypeOK
        <4>2. Ended(stored, op.turn)
          BY <3>1, <4>1 DEF Ended
        <4> QED
          BY <1>0, <3>2, <4>2
      <3> QED
        BY <1>0, <3>1, <3>2 DEF OpAgrees, OpStages
    <2> QED
      BY <1>0, <2>1, NoCallFields DEF OpAgrees, OpHolds, OpStages, Behind, resVars
  <1> QED
    BY <1>0, <1>1, <1>2, NoCallFields, KeepLogs, KeepResides, KeepTurns, KeepClaimed, KeepFlight, KeepPromises,
       KeepWakes DEF resVars, qVars, history

LEMMA FinishIndeterminateKeeps ==
    ASSUME Inv, FinishIndeterminate
    PROVE  Inv'
  <1> USE DEF Inv
  <1>0. /\ op.phase = "done" /\ op' = NoOp /\ permanentError' = TRUE /\ faults' \in Nat
        /\ UNCHANGED <<stored, up, resident, durableSeq, pending, control, order, claimed, token,
                       retryFailures, qVars, flight, guard, waits, acked, crashes>>
    BY DEF FinishIndeterminate, TypeOK
  <1>1. TypeOK'
    BY <1>0, NoCallFields DEF TypeOK, qVars
  <1>2. OpAgrees'
    BY <1>0, NoCallFields DEF OpAgrees, OpHolds, OpStages, Behind
  <1> QED
    BY <1>0, <1>1, <1>2, NoCallFields, KeepLogs, KeepResides, KeepTurns, KeepClaimed, KeepFlight, KeepPromises,
       KeepWakes DEF qVars

LEMMA StepInstallKeeps ==
    ASSUME Inv, StepInstall
    PROVE  Inv'
  <1> USE DEF Inv
  <1> DEFINE f == op.facts[1]
  <1>0. /\ op.kind = "step" /\ op.phase = "done" /\ op.result = "ok"
        /\ durableSeq = op.expected /\ pending = <<>>
        /\ durableSeq' = op.expected + 1 /\ op' = NoOp
        /\ UNCHANGED <<stored, up, resident, pending, control, order, claimed, token, retryFailures,
                       permanentError, qVars, flight, guard, waits, history>>
    BY DEF StepInstall
  <1>1. /\ op.turn \in Turns /\ control[op.turn].live /\ LiveAt(View, control[op.turn], op.turn)
        /\ resident /\ up
    BY <1>0, OpIs
  <1>2. /\ flight = NoFlight /\ f \in Facts /\ f.seq = op.expected + 1 /\ f.turn = op.turn
        /\ f.body = "StepClaimed" /\ Fit(View, f) /\ LiveSeq = durableSeq
    BY <1>0, StagedIs
  <1>3. /\ Grows(View, View', f) /\ LogsAgree' /\ Len(stored) = op.expected + 1
    <2>1. Committed
      BY <1>0 DEF OpAgrees, OpStages
    <2> QED
      BY <1>0, <2>1, InstallGrows
  <1>4. op.expected \in Nat /\ durableSeq' \in Nat
    BY <1>0, OpFields
  <1>5. TypeOK'
    BY <1>0, <1>4, NoCallFields DEF TypeOK, qVars, history
  <1> HIDE DEF f
  <1>6. ~IsTerminal(f)
    BY <1>2 DEF IsTerminal, Outcomes
  <1>7. TurnsAgree'
    <2>0. View \in Seq(Facts)
      BY ViewIs DEF LogsAgree
    <2>1. LiveAt(View', control[op.turn], op.turn)
      <3>1. /\ \A b : Has(View', op.turn, b) <=> Has(View, op.turn, b) \/ b = "StepClaimed"
            /\ Ended(View', op.turn) <=> Ended(View, op.turn)
        BY <1>2, <1>3, <1>6, <2>0, GrowthTells
      <3>2. control[op.turn].terminalSeq = 0
        BY <1>0, OpIs
      <3> QED
        BY <1>1, <3>1, <3>2 DEF LiveAt
    <2>2. ControlAgrees'
      BY <1>0, <1>1, <1>2, <1>3, <2>1, ControlGrows
    <2>3. Ordered(order, View')
      BY <1>2, <1>3, <2>0, OrderGrows DEF TurnsAgree, OrderAgrees
    <2>4. OrderAgrees'
      BY <1>0, <2>3 DEF TurnsAgree, OrderAgrees
    <2> QED
      BY <2>2, <2>4 DEF TurnsAgree
  <1>8. ClaimedAgree'
    <2>1. \A u \in claimed' : control'[u].live
      BY <1>0 DEF ClaimedAgree
    <2> QED
      BY <1>0, <1>2, <1>3, <2>1, ClaimedGrows
  <1>9. Resides' /\ FlightAgrees'
    BY <1>0, <1>1, <1>2, NoCallFields DEF Resides, FlightAgrees
  <1>10. OpAgrees'
    <2>1. op'.phase = "none" /\ op' = NoOp
      BY <1>0, NoCallFields
    <2>2. ~(durableSeq' < Len(stored'))
      BY <1>0, <1>3, <1>4
    <2> QED
      BY <2>1, <2>2 DEF OpAgrees, OpHolds, OpStages, Behind
  <1>11. Promises'
    <2>1. WaitsAgree'
      BY <1>0, <1>2, <1>3, WaitsGrow
    <2>2. PendingFence' /\ AckedIsStored' /\ TokenIsDurable'
      BY <1>0 DEF Promises, PendingFence, AckedIsStored, TokenIsDurable, history
    <2> QED
      BY <2>1, <2>2 DEF Promises
  <1>12. Wakes'
    <2>1. order \in Seq(Turns) /\ \A i \in DOMAIN order : order[i] \in Turns
      BY DEF TypeOK
    <2>2. ASSUME NEW u \in Turns, control[u].live
          PROVE  control[u].terminalSeq \in 1..durableSeq' <=> control[u].terminalSeq \in 1..durableSeq
      <3>1. control[u].terminalSeq # 0 => control[u].terminalSeq \in 1..durableSeq
        BY <1>2, <2>2, ViewIs DEF TurnsAgree, ControlAgrees, LiveAt, LogsAgree
      <3>2. \A s \in 1..durableSeq : s \in 1..durableSeq'
        BY <1>0, <1>4
      <3> QED
        BY <3>1, <3>2
    <2>3. \A i \in DOMAIN order : control[order[i]].live
      BY <2>1 DEF TurnsAgree, OrderAgrees
    <2>4. OldestClaimable(order, control, durableSeq') = OldestClaimable(order, control, durableSeq)
      BY <2>1, <2>2, <2>3, OldestSame
    <2> QED
      BY <1>0, <2>4, WakesGive, WakesWhen DEF qVars
  <1> QED
    BY <1>3, <1>5, <1>7, <1>8, <1>9, <1>10, <1>11, <1>12

LEMMA StepFailsKeeps ==
    ASSUME Inv, StepFails
    PROVE  Inv'
  <1> USE DEF Inv
  <1>0. /\ op.kind = "step" /\ op.phase = "done" /\ op' = NoOp
        /\ UNCHANGED <<stored, up, resVars, token, flight, guard, waits, history>>
    BY DEF StepFails
  <1>1. OpAgrees'
    <2>1. op.expected = durableSeq /\ op.facts[1].body = "StepClaimed"
      BY <1>0, StagedIs
    <2>2. op.expected < Len(stored) /\ ~permanentError => stored[op.expected + 1].body \in Missable
      BY <1>0, <2>1 DEF OpAgrees, OpStages, Committed, Missable
    <2> QED
      BY <1>0, <2>1, <2>2, NoCallFields DEF OpAgrees, OpHolds, OpStages, Behind, resVars
  <1>2. op.turn \in Turns
    BY <1>0, OpIs
  <1>3. TypeOK' /\ claimed' \subseteq claimed /\ Wakes'
    <2>1. CASE UNCHANGED <<claimed, qVars>>
      <3>1. TypeOK'
        BY <1>0, <2>1, NoCallFields DEF TypeOK, resVars, qVars, history
      <3> QED
        BY <1>0, <2>1, <3>1, KeepWakes DEF resVars, qVars
    <2>2. CASE /\ claimed' = claimed \ {op.turn}
               /\ queue' = EnqueueIn(queue, queued, op.turn)
               /\ queued' = QueuedWith(queued, op.turn)
      <3>1. /\ queue' \in Seq(Turns) /\ queued' \in SUBSET Turns
            /\ \A u \in queued' : Queued(queue', u)
            /\ op.turn # NoTurn => Queued(queue', op.turn)
            /\ \A u : Queued(queue, u) => Queued(queue', u)
        <4>1. queue \in Seq(Turns) /\ queued \in SUBSET Turns /\ \A u \in queued : Queued(queue, u)
          BY WakesGive DEF TypeOK
        <4>2. op.turn \in Turns \cup {NoTurn}
          BY <1>2
        <4> QED
          BY <2>2, <4>1, <4>2, EnqueueIs
      <3>2. TypeOK'
        BY <1>0, <2>2, <3>1, NoCallFields DEF TypeOK, resVars, history
      <3>3. ASSUME NEW u, u = OldestClaimable(order', control', durableSeq'), u # NoTurn,
                   up', resident', ~permanentError', u \notin claimed'
            PROVE  Queued(queue', u)
        <4>1. u = OldestClaimable(order, control, durableSeq) /\ up /\ resident /\ ~permanentError
          BY <1>0, <3>3 DEF resVars
        <4>2. CASE u = op.turn
          BY <3>1, <3>3, <4>2
        <4>3. CASE u # op.turn
          BY <2>2, <3>1, <3>3, <4>1, <4>3, WakesGive
        <4> QED
          BY <4>2, <4>3
      <3>4. Wakes'
        BY <3>1, <3>3, WakesWhen
      <3> QED
        BY <2>2, <3>2, <3>4
    <2> QED
      BY <2>1, <2>2 DEF StepFails
  <1> QED
    BY <1>0, <1>1, <1>3, NoCallFields, KeepLogs, KeepResides, KeepTurns, KeepClaimed, KeepFlight,
       KeepPromises DEF resVars, history

LEMMA AcceptFailsKeeps ==
    ASSUME Inv, AcceptFails
    PROVE  Inv'
  <1> USE DEF Inv
  <1>0. /\ op.kind = "accept" /\ op.phase = "done" /\ op' = NoOp /\ guard' = TRUE
        /\ UNCHANGED <<stored, up, resVars, claimed, token, qVars, flight, waits, history>>
    BY DEF AcceptFails
  <1>1. TypeOK'
    BY <1>0, NoCallFields DEF TypeOK, resVars, qVars, history
  <1>2. OpAgrees'
    <2>1. op.expected = durableSeq /\ op.facts[1].body = "Accepted"
      BY <1>0, StagedIs
    <2>2. op.expected < Len(stored) /\ ~permanentError => stored[op.expected + 1].body \in Missable
      BY <1>0, <2>1 DEF OpAgrees, OpStages, Committed, Missable
    <2> QED
      BY <1>0, <2>1, <2>2, NoCallFields DEF OpAgrees, OpHolds, OpStages, Behind, resVars
  <1>3. Resides'
    <2>1. resident
      BY <1>0, OpIs
    <2> QED
      BY <1>0, <2>1, NoCallFields DEF Resides, resVars
  <1> QED
    BY <1>0, <1>1, <1>2, <1>3, KeepLogs, KeepTurns, KeepClaimed, KeepFlight, KeepPromises,
       KeepWakes DEF resVars, qVars, history

LEMMA AcceptInstallKeeps ==
    ASSUME Inv, AcceptInstall
    PROVE  Inv'
  <1> USE DEF Inv
  <1> DEFINE t == op.turn
             f == op.facts[1]
  <1>0. /\ op.kind = "accept" /\ op.phase = "done" /\ op.result = "ok"
        /\ durableSeq = op.expected /\ pending = <<>>
        /\ durableSeq' = op.expected + 1
        /\ control' = [control EXCEPT ![t] = AcceptedControl]
        /\ order' = Append(order, t)
        /\ queue' = EnqueueIn(queue, queued, t)
        /\ queued' = QueuedWith(queued, t)
        /\ acked' = acked \cup {f}
        /\ op' = NoOp
        /\ UNCHANGED <<stored, up, resident, pending, claimed, token, retryFailures,
                       permanentError, flight, guard, waits, faults, crashes>>
    BY DEF AcceptInstall
  <1>1. t \in Turns /\ resident /\ up
    BY <1>0, OpIs
  <1>2. /\ flight = NoFlight /\ f \in Facts /\ f.seq = op.expected + 1 /\ f.turn = t
        /\ f.body = "Accepted" /\ order = <<>> /\ ~Has(View, t, "Accepted") /\ Fit(View, f)
    BY <1>0, StagedIs
  <1>3. /\ Grows(View, View', f) /\ LogsAgree' /\ Len(stored) = op.expected + 1
        /\ stored[op.expected + 1] = f
    <2>1. Committed
      BY <1>0 DEF OpAgrees, OpStages
    <2> QED
      BY <1>0, <2>1, InstallGrows
  <1>4. op.expected \in Nat /\ durableSeq' \in Nat
    BY <1>0, OpFields
  <1>5. ~control[t].live
    BY <1>1, <1>2 DEF TurnsAgree, OrderAgrees
  <1> HIDE DEF t, f
  <1>6. /\ control' \in [Turns -> Controls] /\ order' \in Seq(Turns)
        /\ queue' \in Seq(Turns) /\ queued' \in SUBSET Turns
        /\ TurnsAgree' /\ ClaimedAgree' /\ Wakes'
    <2>1. \A i \in DOMAIN pending' :
            pending'[i] = f \/ \E k \in DOMAIN pending : pending'[i] = pending[k]
      BY <1>0
    <2> QED
      BY <1>0, <1>1, <1>2, <1>3, <1>4, <1>5, <2>1, AcceptanceOpens
  <1>7. TypeOK'
    BY <1>0, <1>2, <1>4, <1>6, NoCallFields DEF TypeOK
  <1>8. Resides' /\ FlightAgrees'
    BY <1>0, <1>1, <1>2, NoCallFields DEF Resides, FlightAgrees
  <1>9. OpAgrees'
    <2>1. op'.phase = "none" /\ op' = NoOp
      BY <1>0, NoCallFields
    <2>2. ~(durableSeq' < Len(stored'))
      BY <1>0, <1>3, <1>4
    <2> QED
      BY <2>1, <2>2 DEF OpAgrees, OpHolds, OpStages, Behind
  <1>10. Promises'
    <2>1. WaitsAgree'
      BY <1>0, <1>2, <1>3, WaitsGrow
    <2>2. PendingFence' /\ TokenIsDurable'
      BY <1>0 DEF Promises, PendingFence, TokenIsDurable
    <2>3. AckedIsStored'
      BY <1>0, <1>2, <1>3, <1>4 DEF Promises, AckedIsStored
    <2> QED
      BY <2>1, <2>2, <2>3 DEF Promises
  <1> QED
    BY <1>3, <1>6, <1>7, <1>8, <1>9, <1>10

-----------------------------------------------------------------------------
(* Crash and recovery.                                                      *)

LEMMA CrashKeeps ==
    ASSUME Inv, Crash
    PROVE  Inv'
  <1> USE DEF Inv
  <1>0. /\ ~up' /\ ~resident' /\ durableSeq' = 0 /\ pending' = <<>> /\ order' = <<>>
        /\ control' = [t \in Turns |-> NoControl]
        /\ claimed' = {} /\ token' = {} /\ queue' = <<>> /\ queued' = {} /\ waits' = {}
        /\ flight' = NoFlight /\ op' = NoOp /\ guard' = FALSE
        /\ UNCHANGED <<stored, acked>>
    BY DEF Crash
  <1>1. NoFlight \in Flights /\ NoOp \in Commits /\ NoControl \in Controls
        /\ NoControl.live = FALSE /\ NoOp.phase = "none" /\ NoOp.kind = "none"
    BY NoCallFields
  <1>2. TypeOK'
    <2>1. control' \in [Turns -> Controls]
      BY <1>0, <1>1
    <2>2. pending' \in Seq(Facts) /\ order' \in Seq(Turns) /\ queue' \in Seq(Turns)
      BY <1>0
    <2>3. crashes' \in Nat /\ faults' \in Nat /\ retryFailures' \in Nat
      <3>1. crashes \in Nat /\ faults \in Nat
        BY DEF TypeOK
      <3>2. crashes' = crashes + 1 /\ faults' = faults /\ retryFailures' = 0
        BY DEF Crash
      <3> QED
        BY <3>1, <3>2
    <2>4. up' \in BOOLEAN /\ resident' \in BOOLEAN /\ permanentError' \in BOOLEAN
      BY DEF Crash
    <2>5. durableSeq' \in Nat /\ stored' \in Seq(Facts) /\ acked' \subseteq Facts
      BY <1>0 DEF TypeOK
    <2> QED
      BY <1>0, <1>1, <2>1, <2>2, <2>3, <2>4, <2>5 DEF TypeOK
  <1>3. View' = <<>>
    BY <1>0 DEF View
  <1>4. LogsAgree'
    <2>1. GoodLog(<<>>)
      BY DEF GoodLog, Numbered, Opened, WellEnded, WellCancelled, InTurn, Fenced
    <2>2. Watermark' /\ GoodLog(stored')
      BY <1>0 DEF TypeOK, LogsAgree, Watermark
    <2> QED
      BY <1>3, <2>1, <2>2 DEF LogsAgree
  <1>5. Resides'
    BY <1>0, <1>1 DEF Resides
  <1>6. TurnsAgree'
    <2>1. \A t \in Turns : ~control'[t].live
      BY <1>0, <1>1
    <2>2. ControlAgrees'
      BY <1>0, <1>3, <2>1 DEF ControlAgrees, GoneAt, Has
    <2>3. OrderAgrees'
      BY <1>0, <1>3, <2>1 DEF OrderAgrees, Ordered
    <2> QED
      BY <2>2, <2>3 DEF TurnsAgree
  <1>7. ClaimedAgree' /\ FlightAgrees'
    BY <1>0 DEF ClaimedAgree, FlightAgrees
  <1>8. OpAgrees'
    BY <1>0, <1>1 DEF OpAgrees, OpHolds, OpStages, Behind
  <1>9. Promises'
    BY <1>0 DEF Promises, WaitsAgree, PendingFence, AckedIsStored, TokenIsDurable
  <1>10. Wakes'
    BY <1>0 DEF Wakes, ClaimableIsQueued, Claimable
  <1> QED
    BY <1>2, <1>4, <1>5, <1>6, <1>7, <1>8, <1>9, <1>10

(* A Turn is accepted in one place of a good log.                            *)
LEMMA AcceptedAtIs ==
    ASSUME NEW L \in Seq(Facts), GoodLog(L), NEW t, NEW i \in DOMAIN L, Opens(L, i, t)
    PROVE  AcceptedAt(L, t) = i
  <1>1. DOMAIN L \subseteq Nat
    OBVIOUS
  <1>2. ASSUME NEW j \in DOMAIN L, Opens(L, j, t)
        PROVE  j = i
    <2>1. ~(i < j) /\ ~(j < i)
      BY <1>2 DEF GoodLog, WellEnded, Opens
    <2> QED
      BY <1>1, <2>1
  <1>3. \E j \in DOMAIN L : L[j].turn = t /\ L[j].body = "Accepted"
    BY DEF Opens
  <1> DEFINE c == AcceptedAt(L, t)
  <1>4. c \in DOMAIN L /\ L[c].turn = t /\ L[c].body = "Accepted"
    BY <1>3 DEF AcceptedAt
  <1> HIDE DEF c
  <1>5. c = i
    BY <1>2, <1>4 DEF Opens
  <1> QED
    BY <1>5 DEF c

(* The open Turn accepted first is the one that may run.                     *)
LEMMA FirstOpenRuns ==
    ASSUME NEW L \in Seq(Facts), GoodLog(L), NEW t \in OpenTurns(L),
           \A u \in OpenTurns(L) : AcceptedAt(L, t) <= AcceptedAt(L, u)
    PROVE  RunsNow(L, t)
  <1> SUFFICES ASSUME NEW j \in DOMAIN L, NEW a \in DOMAIN L,
                      j < a, Opens(L, a, t), L[j].body = "Accepted",
                      ~Ended(L, L[j].turn)
               PROVE  FALSE
    BY DEF RunsNow
  <1>1. L[j].turn \in Turns
    BY FactFields
  <1>2. L[j].turn \in OpenTurns(L)
    BY <1>1 DEF OpenTurns, Has
  <1>3. AcceptedAt(L, L[j].turn) = j /\ AcceptedAt(L, t) = a
    BY AcceptedAtIs DEF Opens
  <1>4. a <= j
    BY <1>2, <1>3
  <1> QED
    BY <1>4

LEMMA OneMore ==
    ASSUME NEW L \in Seq(Facts), NEW f \in Facts, NEW M, M = L \o <<f>>
    PROVE  Grows(L, M, f)
  <1>1. <<f>> \in Seq(Facts) /\ Len(<<f>>) = 1 /\ <<f>>[1] = f
    OBVIOUS
  <1> DEFINE F == <<f>>
  <1> HIDE DEF F
  <1>2. F \in Seq(Facts) /\ Len(F) = 1 /\ F[1] = f /\ M = L \o F
    BY <1>1 DEF F
  <1>3. /\ M \in Seq(Facts) /\ Len(M) = Len(L) + Len(F)
        /\ \A i \in 1..Len(L) : M[i] = L[i]
        /\ \A k \in 1..Len(F) : M[Len(L) + k] = F[k]
    BY <1>2, AppendIs
  <1> QED
    BY <1>2, <1>3 DEF Grows

(* Recovery settles the effect, if it can: the log stays good and the Turn   *)
(* stays the open one that may run.                                          *)
LEMMA SettlingIsGood ==
    ASSUME Inv, NEW t \in OpenTurns(stored), RunsNow(stored, t),
           NEW s \in Facts, s.turn = t, s.body = "Settled", s.seq = Len(stored) + 1,
           NEW M, Grows(stored, M, s)
    PROVE  /\ M \in Seq(Facts) /\ GoodLog(M) /\ RunsNow(M, t)
           /\ Has(M, t, "Accepted") /\ ~Ended(M, t)
           /\ Has(M, t, "CancelRequested") <=> Has(stored, t, "CancelRequested")
  <1>1. stored \in Seq(Facts) /\ GoodLog(stored) /\ M \in Seq(Facts)
    BY DEF Inv, TypeOK, LogsAgree, Grows
  <1>2. Has(stored, t, "Accepted") /\ ~Ended(stored, t)
    BY DEF OpenTurns
  <1>3. Fit(stored, s) /\ ~IsTerminal(s)
    BY <1>2 DEF Fit, IsTerminal, Outcomes
  <1>4. GoodLog(M)
    BY <1>1, <1>3, GrowthIsGood
  <1>5. RunsNow(M, t)
    BY <1>1, GrowthRuns
  <1>6. /\ \A b : Has(M, t, b) <=> Has(stored, t, b) \/ b = "Settled"
        /\ Ended(M, t) <=> Ended(stored, t)
    BY <1>1, <1>3, GrowthTells
  <1> QED
    BY <1>1, <1>2, <1>4, <1>5, <1>6

(* The terminal of recovery fits such a log.                                 *)
LEMMA RepairIsGood ==
    ASSUME NEW M \in Seq(Facts), NEW t, GoodLog(M), RunsNow(M, t),
           Has(M, t, "Accepted"), ~Ended(M, t),
           Has(M, t, "CancelRequested") <=> Has(stored, t, "CancelRequested"),
           NEW e \in Facts, e.turn = t, e.body = RecoveredOutcome(t), e.seq = Len(M) + 1,
           NEW N, Grows(M, N, e)
    PROVE  GoodLog(N)
  <1>1. /\ e.body \in {"Cancelled", "Interrupted"} /\ IsTerminal(e)
        /\ e.body = "Cancelled" <=> Has(stored, t, "CancelRequested")
    BY DEF RecoveredOutcome, IsTerminal, Outcomes
  <1>2. Fit(M, e)
    BY <1>1 DEF Fit
  <1> QED
    BY <1>2, GrowthIsGood

(* What a repair does to the Store.                                          *)
LEMMA RepairGrows ==
    ASSUME Inv, RepairTurn
    PROVE  /\ stored' \in Seq(Facts) /\ GoodLog(stored') /\ Len(stored) <= Len(stored')
           /\ \A i \in 1..Len(stored) : stored'[i] = stored[i]
           /\ \A i \in DOMAIN stored' :
                i > Len(stored) /\ IsTerminal(stored'[i]) => i = Len(stored')
  <1> USE DEF Inv
  <1>1. stored \in Seq(Facts) /\ GoodLog(stored) /\ Len(stored) \in Nat
    BY DEF TypeOK, LogsAgree
  <1>2. PICK t \in OpenTurns(stored), settle \in BOOLEAN :
          /\ \A u \in OpenTurns(stored) : AcceptedAt(stored, t) <= AcceptedAt(stored, u)
          /\ LET n == Len(stored)
                 settled == IF settle THEN <<Fact(n + 1, t, "Settled")>> ELSE <<>>
             IN stored' = stored \o settled
                            \o <<Fact(n + Len(settled) + 1, t, RecoveredOutcome(t))>>
    BY DEF RepairTurn
  <1>3. t \in Turns /\ RecoveredOutcome(t) \in Bodies /\ "Settled" \in Bodies
    BY DEF OpenTurns, RecoveredOutcome, Bodies, Outcomes, EffectBodies
  <1>4. RunsNow(stored, t)
    BY <1>1, <1>2, FirstOpenRuns
  <1>5. Has(stored, t, "Accepted") /\ ~Ended(stored, t)
    BY DEF OpenTurns
  <1> DEFINE n == Len(stored)
             s == Fact(n + 1, t, "Settled")
             e1 == Fact(n + 1, t, RecoveredOutcome(t))
             e2 == Fact(n + 2, t, RecoveredOutcome(t))
  <1>6. /\ s \in Facts /\ s.seq = n + 1 /\ s.turn = t /\ s.body = "Settled"
        /\ e1 \in Facts /\ e1.seq = n + 1 /\ e1.turn = t /\ e1.body = RecoveredOutcome(t)
        /\ e2 \in Facts /\ e2.seq = n + 2 /\ e2.turn = t /\ e2.body = RecoveredOutcome(t)
    <2>1. n + 1 \in Nat \ {0} /\ n + 2 \in Nat \ {0}
      BY <1>1
    <2> QED
      BY <1>3, <2>1, FactTyped
  <1>7. CASE settle
    <2>1. stored' = (stored \o <<s>>) \o <<Fact(n + Len(<<s>>) + 1, t, RecoveredOutcome(t))>>
      BY <1>2, <1>7
    <2>2. n + Len(<<s>>) + 1 = n + 2
      BY <1>1
    <2> DEFINE M == stored \o <<s>>
    <2>3. stored' = M \o <<e2>>
      BY <2>1, <2>2
    <2>4. M = stored \o <<s>>
      OBVIOUS
    <2> HIDE DEF s, e2, M
    <2>5. Grows(stored, M, s)
      BY <1>1, <1>6, <2>4, OneMore
    <2>6. /\ M \in Seq(Facts) /\ GoodLog(M) /\ RunsNow(M, t)
          /\ Has(M, t, "Accepted") /\ ~Ended(M, t)
          /\ Has(M, t, "CancelRequested") <=> Has(stored, t, "CancelRequested")
      BY <1>4, <1>6, <2>5, SettlingIsGood
    <2>7. Grows(M, stored', e2)
      BY <1>6, <2>3, <2>6, OneMore
    <2>8. Len(M) = Len(stored) + 1 /\ \A i \in 1..Len(stored) : M[i] = stored[i]
      BY <2>5 DEF Grows
    <2>9. /\ stored' \in Seq(Facts) /\ Len(stored') = Len(M) + 1
          /\ \A i \in 1..Len(M) : stored'[i] = M[i]
      BY <2>7 DEF Grows
    <2>10. e2.seq = Len(M) + 1
      BY <1>1, <1>6, <2>8
    <2>11. GoodLog(stored')
      BY <1>6, <2>6, <2>7, <2>10, RepairIsGood
    <2>12. Len(stored) <= Len(stored') /\ 1..Len(stored) \subseteq 1..Len(M)
      BY <1>1, <2>8, <2>9
    <2>13. ASSUME NEW i \in DOMAIN stored', i > Len(stored), IsTerminal(stored'[i])
           PROVE  i = Len(stored')
      <3>1. i = Len(stored) + 1 \/ i = Len(stored')
        BY <1>1, <2>8, <2>9, <2>13
      <3>2. stored'[Len(stored) + 1] = s
        BY <1>1, <2>5, <2>8, <2>9 DEF Grows
      <3>3. ~IsTerminal(s)
        BY <1>6 DEF IsTerminal, Outcomes
      <3> QED
        BY <2>13, <3>1, <3>2, <3>3
    <2> QED
      BY <2>8, <2>9, <2>11, <2>12, <2>13
  <1>8. CASE ~settle
    <2>1. stored' = (stored \o << >>) \o <<Fact(n + Len(<< >>) + 1, t, RecoveredOutcome(t))>>
      BY <1>2, <1>8
    <2>2. n + Len(<< >>) + 1 = n + 1 /\ stored \o << >> = stored
      BY <1>1
    <2>3. stored' = stored \o <<e1>>
      BY <2>1, <2>2
    <2> HIDE DEF e1
    <2>4. Grows(stored, stored', e1)
      BY <1>1, <1>6, <2>3, OneMore
    <2>5. GoodLog(stored')
      BY <1>1, <1>4, <1>5, <1>6, <2>4, RepairIsGood
    <2>6. /\ stored' \in Seq(Facts) /\ Len(stored') = Len(stored) + 1
          /\ \A i \in 1..Len(stored) : stored'[i] = stored[i]
      BY <2>4 DEF Grows
    <2>7. \A i \in DOMAIN stored' : i > Len(stored) => i = Len(stored')
      BY <1>1, <2>6
    <2> QED
      BY <1>1, <2>5, <2>6, <2>7
  <1> QED
    BY <1>7, <1>8

LEMMA RepairTurnKeeps ==
    ASSUME Inv, RepairTurn
    PROVE  Inv'
  <1> USE DEF Inv
  <1>0. ~up /\ UNCHANGED <<up, resVars, claimed, token, qVars, flight, op, guard, waits, history>>
    BY DEF RepairTurn
  <1>1. /\ stored' \in Seq(Facts) /\ GoodLog(stored') /\ Len(stored) <= Len(stored')
        /\ \A i \in 1..Len(stored) : stored'[i] = stored[i]
    BY RepairGrows
  <1>2. View' = View /\ Watermark' /\ Promises'
    BY <1>0, <1>1, StoreGrows DEF resVars, history
  <1>3. LogsAgree'
    BY <1>1, <1>2 DEF LogsAgree
  <1>4. TypeOK'
    BY <1>0, <1>1 DEF TypeOK, resVars, qVars, history
  <1>5. ~resident /\ Resides'
    BY <1>0 DEF Resides, resVars
  <1>6. TurnsAgree' /\ ClaimedAgree'
    <2>1. ControlAgrees' /\ OrderAgrees'
      BY <1>0, <1>2 DEF TurnsAgree, ControlAgrees, OrderAgrees, resVars
    <2> QED
      BY <1>0, <1>2, <2>1 DEF TurnsAgree, ClaimedAgree, resVars
  <1>7. flight = NoFlight /\ FlightAgrees'
    BY <1>0, <1>5 DEF FlightAgrees
  <1>8. OpAgrees'
    <2>1. op = NoOp
      BY <1>0, OpIs DEF OpAgrees, OpHolds
    <2> QED
      BY <1>0, <1>5, <2>1, NoCallFields DEF OpAgrees, OpHolds, OpStages, Behind, resVars
  <1> QED
    BY <1>0, <1>2, <1>3, <1>4, <1>5, <1>6, <1>7, <1>8, KeepWakes DEF resVars, qVars

LEMMA BootKeeps ==
    ASSUME Inv, Boot
    PROVE  Inv'
  <1> USE DEF Inv
  <1>0. /\ ~up /\ OpenTurns(stored) = {} /\ up'
        /\ UNCHANGED <<stored, resVars, claimed, token, qVars, flight, op, guard, waits, history>>
    BY DEF Boot
  <1>1. TypeOK'
    BY <1>0 DEF Boot, TypeOK, resVars, qVars, history
  <1>2. ~resident /\ Resides'
    BY <1>0 DEF Resides, resVars
  <1>3. Wakes'
    BY <1>0, <1>2 DEF Wakes, ClaimableIsQueued, Claimable, resVars, qVars
  <1> QED
    BY <1>0, <1>1, <1>2, <1>3, KeepLogs, KeepTurns, KeepClaimed, KeepFlight, KeepOp, KeepPromises
       DEF resVars, qVars, history

-----------------------------------------------------------------------------
(* The invariant holds in every reachable state.                            *)

LEMMA StutterKeeps ==
    ASSUME Inv, UNCHANGED vars
    PROVE  Inv'
  <1> USE DEF Inv
  <1>0. UNCHANGED <<stored, up, resident, durableSeq, pending, control, order, claimed, token,
                    retryFailures, permanentError, queue, queued, flight, op, guard, waits, acked,
                    faults, crashes>>
    BY DEF vars
  <1>1. TypeOK'
    BY <1>0 DEF TypeOK
  <1> QED
    BY <1>0, <1>1, KeepLogs, KeepResides, KeepTurns, KeepClaimed, KeepFlight, KeepOp, KeepPromises,
       KeepWakes

LEMMA NextKeeps ==
    ASSUME Inv, [Next]_vars
    PROVE  Inv'
  <1>1. ASSUME NEW t \in Turns, Submit(t) PROVE Inv'
    BY <1>1, SubmitKeeps
  <1>2. ASSUME NEW t \in Turns, Cancel(t) PROVE Inv'
    BY <1>2, CancelKeeps
  <1>3. ASSUME NEW t \in Turns, Release(t) PROVE Inv'
    BY <1>3, ReleaseKeeps
  <1>4. ASSUME NEW t \in Turns, StepBegin(t) PROVE Inv'
    <2>1. OpBegin("step", t, "none")
      BY <1>4 DEF StepBegin
    <2> QED
      BY <2>1, OpBeginKeeps
  <1>5. ASSUME NEW t \in Turns, NEW b \in EffectBodies, Publish(t, b) PROVE Inv'
    BY <1>5, PublishKeeps
  <1>6. ASSUME NEW t \in Turns, NEW o \in Proposals, PublishTerminal(t, o) PROVE Inv'
    BY <1>6, PublishTerminalKeeps
  <1>7. ASSUME NEW t \in Turns, NEW o \in Proposals, FinishBegin(t, o) PROVE Inv'
    <2>1. OpBegin("finish", t, o)
      BY <1>7 DEF FinishBegin
    <2> QED
      BY <2>1, OpBeginKeeps
  <1>8. ASSUME NEW f \in waits, WaitReturns(f) \/ WaitFails(f) PROVE Inv'
    BY <1>8, WaitReturnsKeeps, WaitFailsKeeps
  <1>9. CASE Claim \/ ClaimQuarantines
    BY <1>9, ClaimKeeps, ClaimQuarantinesKeeps
  <1>10. CASE PrepareFlush \/ FlushStore \/ FlushSucceeds \/ FlushFails
    BY <1>10, PrepareFlushKeeps, FlushStoreKeeps, FlushSucceedsKeeps, FlushFailsKeeps
  <1>11. CASE OpSend \/ OpAbandon \/ OpStore
    BY <1>11, OpSendKeeps, OpAbandonKeeps, OpStoreKeeps
  <1>12. CASE FinishInstall \/ FinishFails \/ FinishIndeterminate \/ StepInstall \/ StepFails
    BY <1>12, FinishInstallKeeps, FinishFailsKeeps, FinishIndeterminateKeeps, StepInstallKeeps,
       StepFailsKeeps
  <1>13. CASE Crash \/ RepairTurn \/ Boot
    BY <1>13, CrashKeeps, RepairTurnKeeps, BootKeeps
  <1>14. CASE UNCHANGED vars
    BY <1>14, StutterKeeps
  <1>15. ASSUME NEW t \in Turns, AcceptBegin(t) PROVE Inv'
    BY <1>15, AcceptBeginKeeps
  <1>16. CASE Load
    BY <1>16, LoadKeeps
  <1>17. CASE AcceptKnown \/ AcceptInstall \/ AcceptFails \/ GuardDrop
    BY <1>17, AcceptKnownKeeps, AcceptInstallKeeps, AcceptFailsKeeps, GuardDropKeeps
  <1> QED
    BY <1>1, <1>2, <1>3, <1>4, <1>5, <1>6, <1>7, <1>8, <1>9, <1>10, <1>11, <1>12, <1>13, <1>14,
       <1>15, <1>16, <1>17 DEF Next

LEMMA InvHolds == Spec => []Inv
  <1>1. Init => Inv
    BY InitHolds
  <1>2. Inv /\ [Next]_vars => Inv'
    BY NextKeeps
  <1> QED
    BY <1>1, <1>2, PTL DEF Spec

-----------------------------------------------------------------------------
(* What the pipeline promises.                                              *)

(* Type correctness: no sequence of submissions, commits, faults and crashes *)
(* takes a variable of the pipeline outside its type.                        *)
THEOREM PipelineIsTyped == Spec => []TypeOK
  <1>1. Inv => TypeOK
    BY DEF Inv
  <1> QED
    BY <1>1, InvHolds, PTL

(* A receipt is never wrong: every Fact that DurabilityWait::wait, a repeated *)
(* submission, claim_message or install_committed_terminal reported as        *)
(* durable is in the Store at its own sequence number.                        *)
THEOREM ReceiptsAreTrue == Spec => []AckedIsStored
  <1>1. Inv => AckedIsStored
    BY DEF Inv, Promises
  <1> QED
    BY <1>1, InvHolds, PTL

(* Whatever batches, terminals, next Steps and repairs reach the Store, each *)
(* Turn in it opens once and first, is cancelled at most once, and ends once  *)
(* and last.                                                                  *)
THEOREM StoredHistoryIsWellFormed == Spec => []StoredTurnsAreTurns
  <1>1. Inv => StoredTurnsAreTurns
    BY DEF Inv, LogsAgree, GoodLog, WellEnded, StoredTurnsAreTurns
  <1> QED
    BY <1>1, InvHolds, PTL

(* A stored terminal is Cancelled exactly when the request precedes it,       *)
(* whether the executor, finish or repair_unfinished_session wrote it.        *)
THEOREM CancellationIsHonoured == Spec => []CancelledIffRequested
  <1>1. Inv => CancelledIffRequested
    BY DEF Inv, LogsAgree, GoodLog, WellCancelled, CancelledIffRequested
  <1> QED
    BY <1>1, InvHolds, PTL

(* Turns execute in acceptance order: claim and oldest_claimable_turn never  *)
(* let an executor Fact reach the Store in front of an earlier Turn's end.    *)
THEOREM ExecutionFollowsAcceptance == Spec => []TurnsRunInOrder
  <1>1. ASSUME Inv PROVE TurnsRunInOrder
    <2>1. InTurn(stored) /\ stored \in Seq(Facts)
      BY <1>1 DEF Inv, LogsAgree, GoodLog, TypeOK
    <2> SUFFICES ASSUME NEW i \in DOMAIN stored,
                        stored[i].body \in EffectBodies \cup {"StepClaimed"},
                        NEW j \in 1..(i - 1), stored[j].body = "Accepted",
                        NEW a \in DOMAIN stored, a > j, stored[a].turn = stored[i].turn,
                        stored[a].body = "Accepted"
                 PROVE  \E k \in 1..(i - 1) : stored[k].turn = stored[j].turn /\ IsTerminal(stored[k])
      BY DEF TurnsRunInOrder
    <2>2. j \in DOMAIN stored /\ j < a
      BY <2>1
    <2>3. stored[i].body \notin {"Accepted", "CancelRequested"}
      BY DEF EffectBodies
    <2> QED
      BY <2>1, <2>2, <2>3 DEF InTurn, Opens
  <1> QED
    BY <1>1, InvHolds, PTL

(* validate_durable_intent_fence holds up: whenever an effect was started,   *)
(* even in the part of the suffix that is not stored yet, its intent is in    *)
(* the Store and recovery will see it.                                        *)
THEOREM EffectsAreFenced == Spec => []StartedHasDurableIntent
  <1>1. ASSUME Inv PROVE StartedHasDurableIntent
    <2>1. Fenced(stored) /\ PendingFence /\ stored \in Seq(Facts)
          /\ durableSeq \in Nat /\ durableSeq <= Len(stored)
      BY <1>1 DEF Inv, LogsAgree, GoodLog, Promises, TypeOK, Watermark
    <2> SUFFICES ASSUME NEW t \in Turns, Has(pending, t, "Started") \/ Has(stored, t, "Started")
                 PROVE  Has(stored, t, "Intent")
      BY DEF StartedHasDurableIntent
    <2>2. 1..durableSeq \subseteq DOMAIN stored
          /\ \A i \in DOMAIN stored : 1..(i - 1) \subseteq DOMAIN stored
      BY <2>1
    <2>3. CASE Has(pending, t, "Started")
      BY <2>1, <2>2, <2>3 DEF PendingFence, Has
    <2>4. CASE Has(stored, t, "Started")
      BY <2>1, <2>2, <2>4 DEF Fenced, Has
    <2> QED
      BY <2>3, <2>4
  <1> QED
    BY <1>1, InvHolds, PTL

(* A cancelled CancellationToken always stands for a request in the Store,   *)
(* both when cancel's wait returns and when a flush makes the request durable. *)
THEOREM TokensFollowTheStore == Spec => []TokenIsDurable
  <1>1. Inv => TokenIsDurable
    BY DEF Inv, Promises
  <1> QED
    BY <1>1, InvHolds, PTL

(* No wakeup is lost: the Turn that may run next, if no executor holds it, is *)
(* in claim_queue, after whatever sequence of enqueue, claim, flush, finish,  *)
(* release, quarantine and eviction, the reload of a Session included whose   *)
(* open Turn only the Store knew because claim_message's answer was lost.     *)
THEOREM WakeupsAreKept == Spec => []ClaimableIsQueued
  <1>1. Inv => ClaimableIsQueued
    BY DEF Inv, Wakes
  <1> QED
    BY <1>1, InvHolds, PTL

(* Only a commit of the worker, a commit under admission and a repair write  *)
(* to the Store, and each writes behind what is there.                        *)
LEMMA WritersAre ==
    ASSUME [Next]_vars
    PROVE  stored' = stored \/ FlushStore \/ OpStore \/ RepairTurn
  <1>1. ASSUME NEW t \in Turns,
               Submit(t) \/ Cancel(t) \/ Release(t) \/ StepBegin(t) \/ AcceptBegin(t)
        PROVE  stored' = stored
    BY <1>1 DEF Submit, Cancel, Release, StepBegin, OpBegin, AcceptBegin
  <1>2. ASSUME NEW t \in Turns, NEW b \in EffectBodies, Publish(t, b) PROVE stored' = stored
    BY <1>2 DEF Publish
  <1>3. ASSUME NEW t \in Turns, NEW o \in Proposals, PublishTerminal(t, o) \/ FinishBegin(t, o)
        PROVE  stored' = stored
    BY <1>3 DEF PublishTerminal, FinishBegin, OpBegin
  <1>4. ASSUME NEW f \in waits, WaitReturns(f) \/ WaitFails(f) PROVE stored' = stored
    BY <1>4 DEF WaitReturns, WaitFails
  <1>5. Claim \/ ClaimQuarantines => stored' = stored
    BY DEF Claim, ClaimQuarantines
  <1>6. PrepareFlush \/ FlushSucceeds \/ FlushFails => stored' = stored
    BY DEF PrepareFlush, FlushSucceeds, FlushFails
  <1>7. OpSend \/ OpAbandon => stored' = stored
    BY DEF OpSend, OpAbandon
  <1>8. FinishInstall \/ FinishFails \/ FinishIndeterminate \/ StepInstall \/ StepFails
          => stored' = stored
    BY DEF FinishInstall, FinishFails, FinishIndeterminate, StepInstall, StepFails
  <1>9. Crash \/ Boot \/ Load \/ UNCHANGED vars => stored' = stored
    BY DEF Crash, Boot, Load, vars
  <1>10. AcceptKnown \/ AcceptInstall \/ AcceptFails \/ GuardDrop => stored' = stored
    BY DEF AcceptKnown, AcceptInstall, AcceptFails, GuardDrop
  <1> QED
    BY <1>1, <1>2, <1>3, <1>4, <1>5, <1>6, <1>7, <1>8, <1>9, <1>10 DEF Next

LEMMA StoreOnlyGrows ==
    ASSUME Inv, [Next]_vars
    PROVE  /\ Len(stored) <= Len(stored')
           /\ \A i \in 1..Len(stored) : stored'[i] = stored[i]
  <1>1. stored \in Seq(Facts) /\ Len(stored) \in Nat /\ flight.facts \in Seq(Facts)
        /\ op.facts \in Seq(Facts)
    BY FlightFields, OpFields DEF Inv, TypeOK
  <1>2. CASE stored' = stored
    BY <1>1, <1>2
  <1>3. CASE FlushStore
    <2>1. stored' = stored \/ stored' = stored \o flight.facts
      BY <1>3 DEF FlushStore, StoreAnswer
    <2> QED
      BY <1>1, <1>2, <2>1, AppendIs
  <1>4. CASE OpStore
    <2>1. stored' = stored \/ stored' = stored \o op.facts
      BY <1>4 DEF OpStore, StoreAnswer
    <2> QED
      BY <1>1, <1>2, <2>1, AppendIs
  <1>5. CASE RepairTurn
    BY <1>5, RepairGrows
  <1> QED
    BY <1>2, <1>3, <1>4, <1>5, WritersAre

(* Compare-and-append, recovery and the overlap of the worker with commits    *)
(* under admission never rewrite the Store: a step adds Facts at its tail     *)
(* only, each with its position as its sequence number.                       *)
THEOREM StoreIsAppendOnly == Spec => AppendOnly
  <1>1. ASSUME Inv, Inv', [Next]_vars
        PROVE  /\ Len(stored') >= Len(stored)
               /\ \A i \in DOMAIN stored' :
                    IF i <= Len(stored) THEN stored'[i] = stored[i] ELSE stored'[i].seq = i
    <2>1. /\ Len(stored) <= Len(stored')
          /\ \A i \in 1..Len(stored) : stored'[i] = stored[i]
      BY <1>1, StoreOnlyGrows
    <2>2. stored \in Seq(Facts) /\ stored' \in Seq(Facts) /\ Numbered(stored')
      BY <1>1 DEF Inv, TypeOK, LogsAgree, GoodLog
    <2>3. \A i \in DOMAIN stored' : i \in Nat /\ i >= 1
      BY <2>2
    <2>4. Len(stored) \in Nat /\ Len(stored') \in Nat
      BY <2>2
    <2> QED
      BY <2>1, <2>2, <2>3, <2>4 DEF Numbered
  <1> QED
    BY <1>1, InvHolds, PTL DEF AppendOnly, Spec

=============================================================================
