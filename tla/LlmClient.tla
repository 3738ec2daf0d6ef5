----------------------------- MODULE LlmClient -----------------------------
(***************************************************************************)
(* One call of the language model: core/llm/client.py below                *)
(* core/llm/router.py, and the usage rows of core/llm/usage_tracker.py.    *)
(*                                                                         *)
(* A call walks a chain of models.  Whatever goes wrong with one of them   *)
(* moves it to the next, an answer it has been billed for included.  A     *)
(* structured answer that cannot be parsed is repaired once, by the router *)
(* only.  Prompts, tokens, costs and metrics are abstracted to the kind of *)
(* answer the provider gives.                                              *)
(***************************************************************************)
EXTENDS Naturals, Sequences, FiniteSets

CONSTANTS HeavyModel, LightModel,   \* settings.llm.heavy_model, light_model
          OwnModel,                 \* UserLLMConfig.default_model
          Primary, Fallbacks,       \* settings.llm.default_model and its copies
                                    \* at settings.llm.fallback_providers
          Bedrock                   \* the models whose name starts with bedrock/

Models == {HeavyModel, LightModel, OwnModel, Primary}
            \cup {Fallbacks[k] : k \in DOMAIN Fallbacks}

ASSUME LlmAssumption == Fallbacks \in Seq(Models)

VARIABLES call,    \* the call in progress
          billed,  \* ghost: the answers the providers have been paid for
          usage,   \* the LLMUsage rows
          lost     \* ghost: the answers whose row could not be written

llmVars == <<call, billed, usage, lost>>

None == "none"

(***************************************************************************)
(* How a call is made: user, whether the client is bound to one; keyed,    *)
(* whether that user has a stored key; routed, through the task router;    *)
(* heavy, the task's class; structured, with an output schema.             *)
(***************************************************************************)
Asks == {a \in [user : BOOLEAN, keyed : BOOLEAN, routed : BOOLEAN, heavy : BOOLEAN,
                structured : BOOLEAN] :
           (a.keyed => a.user) /\ (a.heavy => a.routed)}

Errors == {"rate_limit", "timeout", "provider"}

\* What a paid answer holds: text that fits the schema, text that does not, or
\* no choices at all.
Contents == {"good", "malformed", "hollow"}

NoAsk == [user |-> FALSE, keyed |-> FALSE, routed |-> FALSE, heavy |-> FALSE,
          structured |-> FALSE]

Idle == [phase |-> "idle", ask |-> NoAsk, chain |-> <<>>, attempt |-> 1,
         error |-> None, content |-> None]

TaskModel(a) == IF a.heavy THEN HeavyModel ELSE LightModel

ModelChain(a) ==
  IF a.routed THEN <<TaskModel(a)>>
  ELSE IF a.keyed THEN <<OwnModel>>
  ELSE IF Primary \in Bedrock THEN <<Primary>>
  ELSE <<Primary>> \o Fallbacks

LlmInit == /\ call = Idle
           /\ billed = <<>> /\ usage = <<>> /\ lost = 0

Begin(a) ==
  /\ call.phase = "idle"
  /\ call' = [Idle EXCEPT !.phase = "asking", !.ask = a, !.chain = ModelChain(a)]
  /\ UNCHANGED <<billed, usage, lost>>

\* The provider answers and is paid.  An answer without choices raises inside
\* the try block: the next model is asked and nothing is written about it.
Answer(content) ==
  /\ call.phase = "asking" /\ call.chain # <<>>
  /\ billed' = Append(billed, [model |-> Head(call.chain), content |-> content])
  /\ call' = IF content = "hollow"
             THEN [call EXCEPT !.chain = Tail(@), !.error = "provider"]
             ELSE [call EXCEPT !.phase = "recording", !.content = content]
  /\ UNCHANGED <<usage, lost>>

\* A limit, a timeout or any other exception of the provider: the next model.
Refuse(error) ==
  /\ call.phase = "asking" /\ call.chain # <<>>
  /\ call' = [call EXCEPT !.chain = Tail(@), !.error = error]
  /\ UNCHANGED <<billed, usage, lost>>

\* Every model has failed: the last error decides the type that is raised.
Exhausted ==
  /\ call.phase = "asking" /\ call.chain = <<>>
  /\ call' = [call EXCEPT !.phase = "failed"]
  /\ UNCHANGED <<billed, usage, lost>>

\* Mutant of Unparsed: the answer is not validated.
NeverUnparsed == FALSE

Unparsed == call.ask.structured /\ call.content = "malformed"

\* complete_with_structured_output raises; the router asks the same model once more.
Parsed ==
  IF ~Unparsed THEN [call EXCEPT !.phase = "answered"]
  ELSE IF call.ask.routed /\ call.attempt = 1
       THEN [call EXCEPT !.phase = "asking", !.attempt = 2, !.chain = ModelChain(call.ask)]
       ELSE [call EXCEPT !.phase = "failed", !.error = "provider"]

UsageRow == [attempt |-> call.attempt, failed |-> Unparsed]

\* Mutant of Record: the completion below the structured one persists as well.
RecordTwice(stored) ==
  /\ call.phase = "recording"
  /\ call' = Parsed
  /\ usage' = IF call.ask.user /\ stored
              THEN usage \o (IF call.ask.structured THEN <<UsageRow, UsageRow>> ELSE <<UsageRow>>)
              ELSE usage
  /\ lost' = IF call.ask.user /\ ~stored THEN lost + 1 ELSE lost
  /\ UNCHANGED billed

\* The row of an answer is written best effort, and only for a client bound to a user.
Record(stored) ==
  /\ call.phase = "recording"
  /\ call' = Parsed
  /\ usage' = IF call.ask.user /\ stored THEN Append(usage, UsageRow) ELSE usage
  /\ lost' = IF call.ask.user /\ ~stored THEN lost + 1 ELSE lost
  /\ UNCHANGED billed

LlmStep == \/ \E content \in Contents : Answer(content)
           \/ \E error \in Errors : Refuse(error)
           \/ Exhausted
           \/ \E stored \in BOOLEAN : Record(stored)

----------------------------------------------------------------------------
\* The calls there are, and what has been written about the present one.
LlmTypeOK ==
  /\ call \in [phase   : {"idle", "asking", "recording", "answered", "failed"},
               ask     : Asks,
               chain   : Seq(Models),
               attempt : {1, 2},
               error   : Errors \cup {None},
               content : Contents \cup {None}]
  /\ billed \in Seq([model : Models, content : Contents])
  /\ usage \in Seq([attempt : {1, 2}, failed : BOOLEAN])
  /\ lost \in Nat

\* The answers that had a text, how many there are and how many up to the k-th answer.
Paid       == {k \in DOMAIN billed : billed[k].content # "hollow"}
NumberPaid == Cardinality(Paid)
Nth(k)     == Cardinality({i \in Paid : i <= k})

(***************************************************************************)
(* A user's usage rows account for the answers paid for on his behalf:     *)
(* every answer that had a text has exactly one row, marked failed exactly *)
(* when it could not be parsed, but for those whose row the database       *)
(* refused; nothing is written twice by the two layers, nothing is written *)
(* for a client that is bound to nobody, and the repair is the second      *)
(* attempt of the same model, never a third                                *)
(* (client.py:357-388, 394-417, router.py:125-178).                        *)
(***************************************************************************)
AnswersAreAccounted ==
  call.phase \in {"answered", "failed"} =>
    /\ Len(usage) + lost = IF call.ask.user THEN NumberPaid ELSE 0
    /\ call.ask.user /\ lost = 0 /\ call.ask.structured =>
         \A k \in Paid : usage[Nth(k)] = [attempt |-> Nth(k),
                                         failed |-> billed[k].content = "malformed"]
    /\ call.ask.routed => /\ Len(billed) <= 2
                          /\ \A k \in DOMAIN billed : billed[k].model = TaskModel(call.ask)

============================================================================
