------------------------------ MODULE TurnFacts ------------------------------
(***************************************************************************)
(* The control state of one Turn and the Facts the Kernel accepts for it:  *)
(* Steps, input preparation, model and image effects, Tool effects that    *)
(* come from a model response or from a running program, Tool conclusions, *)
(* the Kernel's own batches (message entry, ending) and the repair that    *)
(* recovery appends to a durable prefix.                                   *)
(*                                                                         *)
(* Executors propose Facts; the Kernel stages each on a copy of the        *)
(* TurnControl and discards the copy when a rule refuses it, so a refused  *)
(* Fact is a step that is not taken.  Replay applies the same rules to the *)
(* stored Facts, so it rebuilds the control the Turn had when its last     *)
(* durable Fact was published: a crash that loses a suffix of the Facts is *)
(* the crash that happened before they were published, and the model need  *)
(* not tell published from durable.  (That an effect starts only when its  *)
(* intent is durable is a matter of FactPipeline.)                         *)
(***************************************************************************)
EXTENDS Naturals, FiniteSets, BagsExt

CONSTANTS
    EffectIds,       \* EffectId values executors draw from
    NoEffect,        \* no effect, no source
    CallIds,         \* call identities of a model response
    ToolNames,       \* catalogued Tool names
    Role,            \* frozen program role of each Tool
    ParallelSafe,    \* Tools whose scheduling is ParallelSafe
    ApplicationTools,\* Tools an application view registers
    ReportTool,      \* REPORT_RESULT_TOOL
    MaxOutstanding,  \* MAXIMUM_PROGRAM_OUTSTANDING_CALLS
    MaxSteps,        \* bound: Steps of the Turn
    MaxModels,       \* bound: model attempts of the Turn
    MaxOrdinal       \* bound: program calls of one coordinator, image outputs

ASSUME FactsAssumption ==
    /\ NoEffect \notin EffectIds
    /\ Role \in [ToolNames -> {"callable", "coordinator", "unavailable"}]
    /\ ParallelSafe \subseteq ToolNames
    /\ ApplicationTools \subseteq {n \in ToolNames : Role[n] = "unavailable"}
    /\ ApplicationTools \cap ParallelSafe = {}   \* request-scoped Tools are exclusive
    /\ ReportTool \in ToolNames
    /\ {MaxOutstanding, MaxSteps, MaxModels, MaxOrdinal} \subseteq Nat

VARIABLES
    turn,      \* the live TurnControl
    accepted,  \* "image", "plain" (a prompt or a message), or "contract": the
               \* Header holds an output contract for its message
    models,    \* model effect identities of the Turn
    steps,     \* Steps started so far
    uses       \* history: how often each Tool call was admitted or rejected

vars == <<turn, accepted, models, steps, uses>>

NoSource == [effect |-> NoEffect, tools |-> {}, calls |-> <<>>]

Accepted ==
    [step |-> FALSE, inputs |-> FALSE, rejected |-> FALSE, selected |-> ToolNames,
     app |-> FALSE, source |-> NoSource, effects |-> <<>>, conclusion |-> "none",
     cancel |-> FALSE, terminal |-> "none", result |-> FALSE]

(* The prompt of a direct Turn is a pending input; a message becomes one     *)
(* when it is claimed.                                                       *)
Init ==
    /\ accepted \in {"plain", "contract", "image"}
    /\ \E direct \in BOOLEAN :
        /\ direct => accepted = "plain"
        /\ turn = [Accepted EXCEPT !.inputs = direct]
    /\ models = {}
    /\ steps = 0
    /\ uses = <<>>   \* the empty bag

-----------------------------------------------------------------------------
(* Rules on a TurnControl t.  Effects are records with one shape: `name` is  *)
(* the Tool or the purpose of a model attempt, `parent` the coordinator of a *)
(* program call, `next` the next ordinal or image index, `call` the identity *)
(* of the call the effect runs.                                              *)

contract == accepted = "contract"

Active(t) == DOMAIN t.effects
NoActiveEffect(t) == Active(t) = {}
Open(t) == t.terminal = "none"
Business(t) == Open(t) /\ t.conclusion = "none"

Effect(kind, name, parent, tools, call) ==
    [kind |-> kind, started |-> FALSE, name |-> name, parent |-> parent,
     next |-> 1, tools |-> tools, call |-> call]

With(t, e, r) ==
    [t EXCEPT !.effects = [x \in Active(t) \cup {e} |->
                             IF x = e THEN r ELSE t.effects[x]]]

Less(t, e) == [t EXCEPT !.effects = [x \in Active(t) \ {e} |-> t.effects[x]]]

IsTool(t, e) == e \in Active(t) /\ t.effects[e].kind = "tool"
StartedTool(t, e) == IsTool(t, e) /\ t.effects[e].started
FromModel(t, e) == t.effects[e].parent = NoEffect
Safe(t, e) == IsTool(t, e) /\ t.effects[e].name \in ParallelSafe

(* The calls of a completed Conversation: "ready", "invalid" (arguments that *)
(* are no JSON) or "consumed".                                               *)
PendingSource(t) ==
    \E c \in DOMAIN t.source.calls : t.source.calls[c].state # "consumed"

\* faulty: an admitted call stays available in its source
ConsumeNothing(t, c) == t

Consume(t, c) == [t EXCEPT !.source.calls[c].state = "consumed"]

CanConsume(t, c, name) ==
    /\ c \in DOMAIN t.source.calls
    /\ t.source.calls[c] = [name |-> name, state |-> "ready"]

Supersede(t) ==
    [t EXCEPT !.source.calls =
        [c \in DOMAIN t.source.calls |->
            [t.source.calls[c] EXCEPT !.state = "consumed"]]]

(* StepStarted forgets the selection and the source of the Step before it;   *)
(* StepEnded leaves active effects alone.                                    *)
AfterStepStart(t) ==
    [t EXCEPT !.step = TRUE, !.selected = ToolNames, !.app = FALSE,
              !.source = NoSource]
AfterStepEnd(t) == [t EXCEPT !.step = FALSE]

(* admit_program_origin                                                      *)
\* faulty: siblings of the program may be of any scheduling
ProgramOriginOverlapping(t, p, ordinal, name, safe) ==
    /\ Role[name] = "callable"
    /\ Cardinality(Active(t)) <= MaxOutstanding
    /\ StartedTool(t, p) /\ FromModel(t, p)
    /\ Role[t.effects[p].name] = "coordinator"
    /\ ordinal = t.effects[p].next

ProgramOriginAdmitted(t, p, ordinal, name, safe) ==
    /\ Role[name] = "callable"
    /\ Cardinality(Active(t)) <= MaxOutstanding
    /\ \A e \in Active(t) \ {p} : safe /\ Safe(t, e) /\ t.effects[e].parent = p
    /\ StartedTool(t, p) /\ FromModel(t, p)
    /\ Role[t.effects[p].name] = "coordinator"
    /\ ordinal = t.effects[p].next

NextOrdinal(t, p) == [t EXCEPT !.effects[p].next = @ + 1]

(* validate_conclusion for a Tool result.                                    *)
\* faulty: other effects may still run
ConclusionSharing(t, e, conclusion) ==
    conclusion # "none" =>
        /\ conclusion = "structured" => t.effects[e].name = ReportTool
        /\ conclusion = "structured" <=> contract

ConclusionAdmitted(t, e, conclusion) ==
    conclusion # "none" =>
        /\ Active(t) = {e}
        /\ conclusion = "structured" => t.effects[e].name = ReportTool
        /\ conclusion = "structured" <=> contract

\* faulty: a coordinator may settle over its nested calls
CanSettleOverNested(t, e) == StartedTool(t, e)

CanSettle(t, e) ==
    /\ StartedTool(t, e)
    /\ \A x \in Active(t) : t.effects[x].parent # e

-----------------------------------------------------------------------------
(* Executor Facts.                                                          *)

Publish(t) == turn' = t /\ UNCHANGED accepted

StepStarted ==
    /\ Business(turn) /\ ~turn.step /\ steps < MaxSteps
    /\ Publish(AfterStepStart(turn))
    /\ steps' = steps + 1
    /\ UNCHANGED <<models, uses>>

(* InputMessageClaimed and ToolContextsClaimed                               *)
InputsClaimed ==
    /\ Business(turn) /\ turn.step /\ NoActiveEffect(turn)
    /\ Publish([turn EXCEPT !.inputs = TRUE])
    /\ UNCHANGED <<models, steps, uses>>

StepInputsPrepared(entered) ==
    /\ Business(turn) /\ turn.step /\ NoActiveEffect(turn)
    /\ ~turn.rejected
    /\ Publish([turn EXCEPT !.inputs = FALSE, !.rejected = ~entered])
    /\ UNCHANGED <<models, steps, uses>>

(* The Tools selected for the Step; an application view adds its own.        *)
StepPrepared(app) ==
    /\ Business(turn) /\ turn.step /\ NoActiveEffect(turn)
    /\ ~PendingSource(turn)
    /\ Publish([turn EXCEPT !.app = app,
                  !.selected = IF app THEN ToolNames
                               ELSE ToolNames \ ApplicationTools])
    /\ UNCHANGED <<models, steps, uses>>

StepEnded ==
    /\ Open(turn) /\ turn.step
    /\ Publish(AfterStepEnd(turn))
    /\ UNCHANGED <<models, steps, uses>>

(* Executors run an image request with image effects only, and other Turns   *)
(* with model and Tool effects.                                              *)
ModelIntent(e, purpose) ==
    /\ accepted # "image"
    /\ Business(turn) /\ NoActiveEffect(turn)
    /\ e \notin models /\ Cardinality(models) < MaxModels
    /\ purpose = "conversation" => ~turn.inputs /\ ~turn.rejected
    /\ Publish([With(turn, e, Effect("model", purpose, NoEffect, {}, <<>>))
                  EXCEPT !.source =
                    IF purpose = "conversation"
                    THEN [effect |-> e, tools |-> turn.selected, calls |-> <<>>]
                    ELSE NoSource])
    /\ models' = models \cup {e}
    /\ UNCHANGED <<steps, uses>>

ImageIntent(e) ==
    /\ accepted = "image"
    /\ Business(turn) /\ NoActiveEffect(turn)
    /\ Publish(With(turn, e, Effect("image", "image", NoEffect, {}, <<>>)))
    /\ UNCHANGED <<models, steps, uses>>

(* ModelStarted, ImageStarted, ToolStarted                                   *)
Started(e) ==
    /\ Business(turn)
    /\ e \in Active(turn) /\ ~turn.effects[e].started
    /\ Publish([turn EXCEPT !.effects[e].started = TRUE])
    /\ UNCHANGED <<models, steps, uses>>

(* The response of a settled attempt: the Tool calls it made, or none.       *)
ModelAttemptSettled(e, calls) ==
    /\ Business(turn)
    /\ e \in Active(turn) /\ turn.effects[e].kind = "model"
    /\ turn.effects[e].started
    /\ Publish([Less(turn, e) EXCEPT
                  !.source = IF DOMAIN calls = {} \/ @ = NoSource THEN NoSource
                             ELSE [@ EXCEPT !.calls = calls]])
    /\ UNCHANGED <<models, steps, uses>>

ImageOutput(e) ==
    /\ Business(turn)
    /\ e \in Active(turn) /\ turn.effects[e].kind = "image"
    /\ turn.effects[e].started /\ turn.effects[e].next <= MaxOrdinal
    /\ Publish([turn EXCEPT !.effects[e].next = @ + 1])
    /\ UNCHANGED <<models, steps, uses>>

ModelCall(c) == <<"model", turn.source.effect, c>>
ProgramCall(p, ordinal) == <<"program", turn.effects[p].call, ordinal>>

(* ToolIntent and ToolRejected, from a model response.                       *)
ToolIntent(e, c, name) ==
    /\ Business(turn)
    /\ name \in turn.source.tools
    /\ e \notin Active(turn)
    /\ Active(turn) # {} =>
         /\ name \in ParallelSafe
         /\ \A x \in Active(turn) : Safe(turn, x) /\ FromModel(turn, x)
    /\ CanConsume(turn, c, name)
    /\ Publish(With(Consume(turn, c), e,
                    Effect("tool", name, NoEffect, turn.source.tools,
                           ModelCall(c))))
    /\ uses' = BagAdd(uses, ModelCall(c))
    /\ UNCHANGED <<models, steps>>

ToolRejected(c, name) ==
    /\ Business(turn)
    /\ CanConsume(turn, c, name)
    /\ Publish(Consume(turn, c))
    /\ uses' = BagAdd(uses, ModelCall(c))
    /\ UNCHANGED <<models, steps>>

(* ... and from the program a coordinator runs.                              *)
ProgramToolIntent(e, p, ordinal, name) ==
    /\ Business(turn)
    /\ e \notin Active(turn)
    /\ ProgramOriginAdmitted(turn, p, ordinal, name, name \in ParallelSafe)
    /\ name \in turn.effects[p].tools
    /\ Publish(With(NextOrdinal(turn, p), e,
                    Effect("tool", name, p, turn.effects[p].tools,
                           ProgramCall(p, ordinal))))
    /\ uses' = BagAdd(uses, ProgramCall(p, ordinal))
    /\ UNCHANGED <<models, steps>>

ProgramToolRejected(p, ordinal, name) ==
    /\ Business(turn)
    /\ ProgramOriginAdmitted(turn, p, ordinal, name, FALSE)
    /\ Publish(NextOrdinal(turn, p))
    /\ uses' = BagAdd(uses, ProgramCall(p, ordinal))
    /\ UNCHANGED <<models, steps>>

ToolResult(e, conclusion) ==
    /\ Business(turn)
    /\ CanSettle(turn, e)
    /\ ConclusionAdmitted(turn, e, conclusion)
    /\ Publish([Less(turn, e) EXCEPT !.conclusion = conclusion])
    /\ UNCHANGED <<models, steps, uses>>

-----------------------------------------------------------------------------
(* Facts of the Kernel.                                                     *)

CancelRequested ==
    /\ Open(turn) /\ ~turn.cancel
    /\ Publish([turn EXCEPT !.cancel = TRUE])
    /\ UNCHANGED <<models, steps, uses>>

(* claim_pending_step_messages: supersession, Step transition and the input  *)
(* in one batch.                                                             *)
MessageEntry ==
    /\ Business(turn) /\ ~turn.cancel
    /\ turn.step /\ NoActiveEffect(turn) /\ steps < MaxSteps
    /\ turn' = [AfterStepStart(AfterStepEnd(Supersede(turn)))
                  EXCEPT !.inputs = TRUE]
    /\ steps' = steps + 1
    /\ UNCHANGED <<accepted, models, uses>>

(* completion_outcome, then canonicalize_terminal.                           *)
\* faulty: a missing structured result goes unnoticed
OutcomeAsProposed(t, proposed) == IF t.cancel THEN "cancelled" ELSE proposed

Outcome(t, proposed) ==
    CASE t.cancel -> "cancelled"
      [] proposed = "completed" /\ contract /\ t.conclusion = "none" -> "failed"
      [] OTHER -> proposed

(* result_reference *)
Result(t, outcome) == outcome = "completed" /\ t.conclusion = "structured"

(* validate_conclusion and apply_executor_body for a TurnTerminal Fact.      *)
TerminalAccepted(t, outcome, result) ==
    /\ Open(t) /\ ~t.step
    /\ result => outcome = "completed" /\ t.conclusion = "structured"
    /\ outcome = "completed" /\ contract => t.conclusion # "none" /\ result

\* faulty: the effects of the Turn stay registered
AfterTerminalWithEffects(t, outcome, result) ==
    [t EXCEPT !.terminal = outcome, !.result = result]

AfterTerminal(t, outcome, result) ==
    [t EXCEPT !.terminal = outcome, !.result = result, !.effects = <<>>]

(* ending_facts: the open Step is closed in the same durable batch.          *)
FinishTurn(proposed) ==
    LET closed == AfterStepEnd(turn)
        outcome == Outcome(turn, proposed)
        result == Result(turn, outcome) IN
    /\ Open(turn)
    /\ TerminalAccepted(closed, outcome, result)
    /\ turn' = AfterTerminal(closed, outcome, result)
    /\ UNCHANGED <<accepted, models, steps, uses>>

-----------------------------------------------------------------------------
(* repair_unfinished_session closes the Turn of a durable prefix after a     *)
(* crash.  A started application Tool whose receipt can be read gets its     *)
(* result first.                                                             *)
Receipts(t) ==
    {e \in Active(t) : /\ t.app /\ StartedTool(t, e) /\ FromModel(t, e)
                       /\ t.effects[e].name \in ApplicationTools}

(* What replay makes of the repair: the control after the results of `read`  *)
(* and the closure of the Step.                                              *)
\* faulty: the Step of the interrupted Turn is left open
RepairedStepOpen(t, read) ==
    [t EXCEPT !.effects = [x \in Active(t) \ read |-> t.effects[x]]]

Repaired(t, read) ==
    [t EXCEPT !.effects = [x \in Active(t) \ read |-> t.effects[x]],
              !.step = FALSE]

RepairOutcome(t) == IF t.cancel THEN "cancelled" ELSE "interrupted"

RepairAccepted(t, read) ==
    /\ Cardinality(read) <= 1
    /\ \A e \in read : Business(t) /\ CanSettle(t, e)
    /\ TerminalAccepted(Repaired(t, read), RepairOutcome(t), FALSE)

CrashAndRecover ==
    /\ Open(turn)
    /\ \E read \in SUBSET Receipts(turn) :
        /\ RepairAccepted(turn, read)
        /\ turn' = AfterTerminal(Repaired(turn, read), RepairOutcome(turn), FALSE)
    /\ UNCHANGED <<accepted, models, steps, uses>>

-----------------------------------------------------------------------------
(* No rule reads the name of a call whose arguments are invalid.             *)
Calls ==
    [name : ToolNames, state : {"ready"}]
      \cup {[name |-> ReportTool, state |-> "invalid"]}
Responses == UNION {[cs -> Calls] : cs \in SUBSET CallIds}

StepFacts ==
    \/ StepStarted \/ InputsClaimed \/ StepEnded
    \/ \E entered \in BOOLEAN : StepInputsPrepared(entered)
    \/ \E app \in BOOLEAN : StepPrepared(app)

ModelFacts ==
    \/ \E e \in EffectIds, purpose \in {"conversation", "side"} :
         ModelIntent(e, purpose)
    \/ \E e \in EffectIds : ImageIntent(e) \/ Started(e) \/ ImageOutput(e)
    \/ \E e \in EffectIds, calls \in Responses : ModelAttemptSettled(e, calls)

ToolFacts ==
    \/ \E e \in EffectIds, c \in CallIds, n \in ToolNames : ToolIntent(e, c, n)
    \/ \E c \in CallIds, n \in ToolNames : ToolRejected(c, n)
    \/ \E e, p \in EffectIds, o \in 1..MaxOrdinal, n \in ToolNames :
         ProgramToolIntent(e, p, o, n)
    \/ \E p \in EffectIds, o \in 1..MaxOrdinal, n \in ToolNames :
         ProgramToolRejected(p, o, n)
    \/ \E e \in EffectIds, c \in {"none", "plain", "structured"} :
         ToolResult(e, c)

KernelFacts ==
    \/ CancelRequested \/ MessageEntry \/ CrashAndRecover
    \/ \E o \in {"completed", "failed"} : FinishTurn(o)

Next == StepFacts \/ ModelFacts \/ ToolFacts \/ KernelFacts

Spec == Init /\ [][Next]_vars

-----------------------------------------------------------------------------
(* Types; the source of a Turn is one of its model effects, and nothing runs *)
(* after its terminal Fact.                                                  *)
TypeOK ==
    /\ Active(turn) \subseteq EffectIds
    /\ \A e \in Active(turn) :
        /\ turn.effects[e].kind \in {"model", "image", "tool"}
        /\ IsTool(turn, e) => turn.effects[e].name \in ToolNames
        /\ turn.effects[e].next \in 1..(MaxOrdinal + 1)
    /\ {turn.step, turn.inputs, turn.rejected, turn.app, turn.cancel, turn.result}
         \subseteq BOOLEAN
    /\ turn.source.effect \in models \cup {NoEffect}
    /\ DOMAIN turn.source.calls \subseteq CallIds
    /\ turn.conclusion \in {"none", "plain", "structured"}
    /\ ~Open(turn) => NoActiveEffect(turn)

(* What runs at the same time has been declared able to: two effects of a    *)
(* Turn are parallel-safe calls of one model response, parallel-safe calls   *)
(* of one program, or a program call and the coordinator it belongs to,      *)
(* which is still started.  So no nested call outlives its coordinator and   *)
(* no model or image effect overlaps anything.                               *)
OverlapIsDeclared ==
    /\ \A x \in Active(turn) :
        FromModel(turn, x) \/ StartedTool(turn, turn.effects[x].parent)
    /\ \A x, y \in Active(turn) : x # y =>
        \/ Safe(turn, x) /\ Safe(turn, y)
             /\ turn.effects[x].parent = turn.effects[y].parent
        \/ turn.effects[x].parent = y
        \/ turn.effects[y].parent = x

(* Every call of a model response and every program ordinal leads to at most *)
(* one Tool effect or rejection, across Steps, rejections and supersession.  *)
CallsAreUsedOnce == \A k \in DOMAIN uses : uses[k] = 1

(* A Turn that has an accepted conclusion is doing nothing else, and one     *)
(* that completed under an output contract names its structured result.      *)
ConclusionIsLast ==
    /\ turn.conclusion # "none" => NoActiveEffect(turn)
    /\ turn.terminal = "completed" /\ contract => turn.result

(* Whatever Facts were published, the Kernel can end the Turn with either    *)
(* outcome, and recovery can close every durable prefix of it, with every    *)
(* receipt it may find: replay accepts what the repair appends.              *)
EveryTurnCanClose ==
    Open(turn) =>
        /\ \A proposed \in {"completed", "failed"} :
             LET outcome == Outcome(turn, proposed) IN
             TerminalAccepted(AfterStepEnd(turn), outcome, Result(turn, outcome))
        /\ \A read \in SUBSET Receipts(turn) : RepairAccepted(turn, read)
=============================================================================
