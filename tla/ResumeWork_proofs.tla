--------------------------- MODULE ResumeWork_proofs ---------------------------
(***************************************************************************)
(* The language model's calls are accounted for, and whatever uses their   *)
(* answers fails closed: for every chain of models, every set of           *)
(* candidates, postings, questions, drafts and findings, and whatever the  *)
(* model and the provider answer.                                          *)
(***************************************************************************)
EXTENDS ResumeWork, FiniteSetTheorems, SequenceTheorems, WellFoundedInduction, TLAPS

\* What the phase of a call says of its content.
CallSound ==
    /\ call.phase = "recording" => call.content \in {"good", "malformed"}
    /\ call.phase = "answered" => call.content \in {"good", "malformed"} /\ ~Unparsed
    /\ call.phase \in {"asking", "failed"} => call.content # "good"

\* The client keeps nothing of a call that has ended.
NothingIdle == call.phase = "idle" => billed = << >> /\ usage = << >> /\ lost = 0

\* Each attempt of a call gets one readable answer, if it does not fail, and the last
\* one is the one that is being recorded.
PaidPerAttempt ==
    /\ call.phase = "asking" => NumberPaid = call.attempt - 1
    /\ call.phase \in {"recording", "answered"} => NumberPaid = call.attempt
    /\ call.phase = "recording" => /\ Len(billed) \in Paid
                                   /\ billed[Len(billed)].content = call.content

\* A row, or the loss of one, for every readable answer but the one being recorded.
RowsAccount ==
    /\ call.phase # "idle" =>
         Len(usage) + lost = IF ~call.ask.user THEN 0
                             ELSE IF call.phase = "recording" THEN call.attempt - 1
                             ELSE NumberPaid
    /\ call.phase # "idle" /\ call.ask.user /\ lost = 0 /\ call.ask.structured =>
         \A k \in Paid : Nth(k) <= Len(usage) =>
           usage[Nth(k)] = [attempt |-> Nth(k), failed |-> billed[k].content = "malformed"]

\* The router has one model, which an attempt asks once.
OneModel ==
    call.phase # "idle" /\ call.ask.routed =>
      /\ Len(billed) <= call.attempt
      /\ \A k \in DOMAIN billed : billed[k].model = TaskModel(call.ask)
      /\ call.phase = "asking" =>
           \/ call.chain = << >>
           \/ call.chain = <<TaskModel(call.ask)>> /\ Len(billed) <= call.attempt - 1

LlmInv ==
    /\ LlmTypeOK
    /\ CallSound
    /\ NothingIdle
    /\ PaidPerAttempt
    /\ RowsAccount
    /\ OneModel

\* Nothing is asked between operations, nor for what the code does alone; what the
\* operations below ask for has a schema.
AloneOps == {"none", "generate", "score", "find", "card"}

TaskSound ==
    /\ task.op \in AloneOps => call.phase = "idle"
    /\ task.op = "question" /\ ~NeedsModel(task.question) => call.phase = "idle"
    /\ task.op \in MatchOps \cup {"question", "text", "review"} /\ call.phase # "idle"
         => call.ask.structured
    /\ task.op = "text" => task \in [op : {"text"}, try : {1, 2}]
    /\ task.op = "other" => task.ask \in Asks
    /\ task.op = "find" => task.board \in Boards
    /\ task.op = "score" => task.text \in ScoredTexts /\ task.posting \in JobTexts

IInv == LlmInv /\ TaskSound /\ FailsClosed

-----------------------------------------------------------------------------
(* Calls.                                                                  *)

LEMMA ChainsOfModels ==
    ASSUME NEW a \in Asks
    PROVE  /\ ModelChain(a) \in Seq(Models)
           /\ TaskModel(a) \in Models
           /\ a.routed => ModelChain(a) = <<TaskModel(a)>>
<1>1. TaskModel(a) \in Models /\ OwnModel \in Models /\ Primary \in Models
  BY DEF TaskModel, Models
<1>2. <<TaskModel(a)>> \in Seq(Models) /\ <<OwnModel>> \in Seq(Models)
      /\ <<Primary>> \in Seq(Models)
  BY <1>1
<1>3. <<Primary>> \o Fallbacks \in Seq(Models)
  BY <1>2, LlmAssumption, ConcatProperties
<1> QED
  BY <1>1, <1>2, <1>3 DEF ModelChain

\* The readable answers can be counted, and so can those up to one of them.
LEMMA PaidAreCounted ==
    ASSUME LlmTypeOK
    PROVE  /\ Paid \subseteq 1..Len(billed) /\ Len(billed) \in Nat /\ NumberPaid \in Nat
           /\ \A k \in Paid : Nth(k) \in Nat \ {0} /\ Nth(k) <= NumberPaid
           /\ Len(billed) \in Paid =>
                /\ Nth(Len(billed)) = NumberPaid
                /\ \A k \in Paid : Nth(k) = NumberPaid => k = Len(billed)
<1>1. DOMAIN billed = 1..Len(billed) /\ Len(billed) \in Nat
  BY LenProperties DEF LlmTypeOK
<1>2. Paid \subseteq 1..Len(billed)
  BY <1>1 DEF Paid
<1>0. 1 \in Int /\ Len(billed) \in Int /\ Paid \in SUBSET (1..Len(billed))
  BY <1>1, <1>2
<1>3. NumberPaid \in Nat
  BY <1>0, FS_Interval, FS_Subset, FS_CardinalityType, Zenon DEF NumberPaid
<1>4. ASSUME NEW k \in Paid
      PROVE  /\ Nth(k) \in Nat \ {0} /\ Nth(k) <= NumberPaid
             /\ Nth(k) = NumberPaid => {i \in Paid : i <= k} = Paid
  <2>1. {i \in Paid : i <= k} \in SUBSET Paid
    OBVIOUS
  <2>2. Nth(k) \in Nat
    BY <1>0, <2>1, FS_Interval, FS_Subset, FS_CardinalityType, Zenon DEF Nth
  <2>3. Nth(k) <= NumberPaid /\ (NumberPaid = Nth(k) => {i \in Paid : i <= k} = Paid)
    BY <1>0, <2>1, FS_Interval, FS_Subset, Zenon DEF Nth, NumberPaid
  <2>4. Nth(k) # 0
    <3>1. k \in {i \in Paid : i <= k}
      BY <1>1, <1>2
    <3> QED
      BY <1>0, <2>1, <3>1, FS_Interval, FS_Subset, FS_EmptySet, Zenon DEF Nth
  <2> QED
    BY <2>2, <2>3, <2>4
<1>5. ASSUME Len(billed) \in Paid
      PROVE  /\ Nth(Len(billed)) = NumberPaid
             /\ \A k \in Paid : Nth(k) = NumberPaid => k = Len(billed)
  <2>1. \A k \in Paid : k \in Nat /\ k <= Len(billed)
    BY <1>1, <1>2
  <2>2. {i \in Paid : i <= Len(billed)} = Paid
    BY <2>1
  <2>3. Nth(Len(billed)) = NumberPaid
    BY <2>2, Zenon DEF Nth, NumberPaid
  <2>4. ASSUME NEW k \in Paid, Nth(k) = NumberPaid PROVE k = Len(billed)
    <3>1. {i \in Paid : i <= k} = Paid
      BY <1>4, <2>4
    <3>2. Len(billed) <= k
      BY <1>5, <3>1
    <3> QED
      BY <1>1, <2>1, <3>2
  <2> QED
    BY <2>3, <2>4
<1> QED
  BY <1>1, <1>2, <1>3, <1>4, <1>5

\* A call that has not begun.
LEMMA HungKeeps ==
    ASSUME call' = Idle, billed' = << >>, usage' = << >>, lost' = 0
    PROVE  LlmInv'
<1>1. NoAsk \in Asks /\ << >> \in Seq(Models)
  BY DEF NoAsk, Asks
<1>2. LlmTypeOK'
  BY <1>1 DEF LlmTypeOK, Idle, Errors, Contents, None
<1>3. call'.phase = "idle"
  BY DEF Idle
<1> QED
  BY <1>2, <1>3 DEF LlmInv, CallSound, NothingIdle, PaidPerAttempt, RowsAccount, OneModel

\* A call begins on a fresh state.
LEMMA BeginKeeps ==
    ASSUME LlmInv, NEW a \in Asks, Begin(a)
    PROVE  LlmInv' /\ call'.ask = a /\ call'.phase = "asking"
<1>1. call' = [phase |-> "asking", ask |-> a, chain |-> ModelChain(a), attempt |-> 1,
               error |-> None, content |-> None]
  BY DEF Begin, Idle
<1>2. billed = << >> /\ usage = << >> /\ lost = 0 /\ UNCHANGED <<billed, usage, lost>>
  BY DEF Begin, LlmInv, NothingIdle
<1>3. LlmTypeOK'
  BY <1>1, <1>2, ChainsOfModels DEF LlmInv, LlmTypeOK, Errors, Contents, None
<1>4. Paid' = {} /\ NumberPaid' = 0
  <2>1. Paid' = {}
    BY <1>2 DEF Paid
  <2> QED
    BY <2>1, FS_EmptySet DEF NumberPaid
<1>5. CallSound' /\ NothingIdle'
  BY <1>1 DEF CallSound, NothingIdle, None
<1>6. PaidPerAttempt' /\ RowsAccount'
  BY <1>1, <1>2, <1>4 DEF PaidPerAttempt, RowsAccount
<1>7. OneModel'
  BY <1>1, <1>2, ChainsOfModels DEF OneModel
<1> QED
  BY <1>1, <1>3, <1>5, <1>6, <1>7 DEF LlmInv

\* An answer without choices: the next model is asked.
LEMMA HollowKeeps ==
    ASSUME LlmInv, Answer("hollow")
    PROVE  LlmInv'
<1> DEFINE answer == [model |-> Head(call.chain), content |-> "hollow"]
<1>1. /\ call.phase = "asking" /\ call.chain # << >> /\ call.chain \in Seq(Models)
      /\ billed' = Append(billed, answer)
      /\ call' = [call EXCEPT !.chain = Tail(call.chain), !.error = "provider"]
      /\ UNCHANGED <<usage, lost>>
  BY DEF Answer, LlmInv, LlmTypeOK
<1>2. Head(call.chain) \in Models /\ Tail(call.chain) \in Seq(Models)
  BY <1>1, HeadTailProperties
<1>3. answer \in [model : Models, content : Contents] /\ "provider" \in Errors
  BY <1>2 DEF Contents, Errors
<1>4. /\ billed \in Seq([model : Models, content : Contents]) /\ Len(billed) \in Nat
      /\ billed' \in Seq([model : Models, content : Contents])
      /\ Len(billed') = Len(billed) + 1
      /\ DOMAIN billed = 1..Len(billed) /\ DOMAIN billed' = 1..(Len(billed) + 1)
      /\ \A k \in 1..Len(billed) : billed'[k] = billed[k]
      /\ billed'[Len(billed) + 1] = answer
  <2>1. billed \in Seq([model : Models, content : Contents])
    BY DEF LlmInv, LlmTypeOK
  <2> HIDE DEF answer
  <2> QED
    BY <1>1, <1>3, <2>1, AppendProperties, LenProperties
<1>5. /\ call' \in [phase : {"idle", "asking", "recording", "answered", "failed"},
                    ask : Asks, chain : Seq(Models), attempt : {1, 2},
                    error : Errors \cup {None}, content : Contents \cup {None}]
      /\ call'.phase = "asking" /\ call'.ask = call.ask /\ call'.attempt = call.attempt
      /\ call'.content = call.content /\ call'.chain = Tail(call.chain)
  BY <1>1, <1>2, <1>3 DEF LlmInv, LlmTypeOK
<1>6. LlmTypeOK'
  BY <1>1, <1>4, <1>5 DEF LlmInv, LlmTypeOK
<1>7. Paid' = Paid
  <2>1. answer.content = "hollow"
    OBVIOUS
  <2> HIDE DEF answer
  <2> QED
    BY <1>4, <2>1 DEF Paid
<1>8. /\ NumberPaid' = NumberPaid
      /\ \A k \in Paid : Nth(k)' = Nth(k) /\ billed'[k] = billed[k]
  BY <1>4, <1>7, PaidAreCounted DEF LlmInv, Nth, NumberPaid
<1>9. CallSound' /\ NothingIdle' /\ PaidPerAttempt'
  BY <1>1, <1>5, <1>8 DEF LlmInv, CallSound, NothingIdle, PaidPerAttempt
<1>10. RowsAccount'
  BY <1>1, <1>5, <1>7, <1>8 DEF LlmInv, RowsAccount
<1>11. OneModel'
  <2> SUFFICES ASSUME call.ask.routed
               PROVE  /\ Len(billed') <= call.attempt
                      /\ \A k \in DOMAIN billed' : billed'[k].model = TaskModel(call.ask)
                      /\ Tail(call.chain) = << >>
    BY <1>5 DEF OneModel, TaskModel
  <2>1. /\ call.chain = <<TaskModel(call.ask)>> /\ Len(billed) <= call.attempt - 1
        /\ \A k \in DOMAIN billed : billed[k].model = TaskModel(call.ask)
    BY <1>1 DEF LlmInv, OneModel
  <2>2. Head(call.chain) = TaskModel(call.ask) /\ Tail(call.chain) = << >>
    BY <2>1
  <2>3. call.attempt \in {1, 2} /\ answer.model = TaskModel(call.ask)
    BY <2>2 DEF LlmInv, LlmTypeOK
  <2> HIDE DEF answer
  <2> QED
    BY <1>4, <2>1, <2>2, <2>3
<1> QED
  BY <1>6, <1>9, <1>10, <1>11 DEF LlmInv

\* Nothing is paid for: what is said of the rows and of the answers stands.
LEMMA UnpaidStands ==
    ASSUME LlmTypeOK, UNCHANGED billed
    PROVE  /\ Paid' = Paid /\ NumberPaid' = NumberPaid
           /\ \A k \in Paid : Nth(k)' = Nth(k)
  BY DEF Paid, NumberPaid, Nth

\* An answer with a text, which is going to be recorded.
LEMMA TextKeeps ==
    ASSUME LlmInv, NEW content \in {"good", "malformed"}, Answer(content)
    PROVE  LlmInv'
<1> DEFINE answer == [model |-> Head(call.chain), content |-> content]
<1>0. PICK n \in Nat : n = Len(billed)
  BY LenProperties DEF LlmInv, LlmTypeOK
<1>1. /\ call.phase = "asking" /\ call.chain # << >> /\ call.chain \in Seq(Models)
      /\ billed' = Append(billed, answer)
      /\ call' = [call EXCEPT !.phase = "recording", !.content = content]
      /\ UNCHANGED <<usage, lost>>
  BY DEF Answer, LlmInv, LlmTypeOK
<1>2. Head(call.chain) \in Models
  BY <1>1, HeadTailProperties
<1>3. answer \in [model : Models, content : Contents]
  BY <1>2 DEF Contents
<1>4. /\ billed \in Seq([model : Models, content : Contents]) /\ Len(billed) = n
      /\ billed' \in Seq([model : Models, content : Contents])
      /\ Len(billed') = n + 1
      /\ DOMAIN billed = 1..n /\ DOMAIN billed' = 1..(n + 1)
      /\ \A k \in 1..n : billed'[k] = billed[k]
      /\ billed'[n + 1] = answer
  <2>1. billed \in Seq([model : Models, content : Contents])
    BY DEF LlmInv, LlmTypeOK
  <2> HIDE DEF answer
  <2> QED
    BY <1>0, <1>1, <1>3, <2>1, AppendProperties, LenProperties
<1>5. /\ call' \in [phase : {"idle", "asking", "recording", "answered", "failed"},
                    ask : Asks, chain : Seq(Models), attempt : {1, 2},
                    error : Errors \cup {None}, content : Contents \cup {None}]
      /\ call'.phase = "recording" /\ call'.ask = call.ask /\ call'.attempt = call.attempt
      /\ call'.content = content
  BY <1>1 DEF LlmInv, LlmTypeOK, Contents
<1>6. LlmTypeOK'
  BY <1>1, <1>4, <1>5 DEF LlmInv, LlmTypeOK
<1>7. answer.content = content /\ answer.model = Head(call.chain)
  OBVIOUS
<1> HIDE DEF answer
<1>8. Paid' = Paid \cup {n + 1} /\ n + 1 \notin Paid /\ Paid \subseteq 1..n
  <2>1. Paid \subseteq 1..n
    BY <1>4 DEF Paid
  <2> QED
    BY <1>4, <1>7, <2>1 DEF Paid
<1>9. /\ NumberPaid' = NumberPaid + 1 /\ NumberPaid \in Nat
      /\ \A k \in Paid : Nth(k)' = Nth(k) /\ billed'[k] = billed[k]
      /\ Nth(n + 1)' = NumberPaid + 1
  <2>1. 1 \in Int /\ n \in Int /\ Paid \in SUBSET (1..n)
    BY <1>4, <1>8
  <2>2. NumberPaid' = NumberPaid + 1
    BY <1>8, <2>1, FS_Interval, FS_Subset, FS_AddElement, Zenon DEF NumberPaid
  <2>3. ASSUME NEW k \in Paid PROVE Nth(k)' = Nth(k)
    <3>1. k \in Nat /\ k <= n
      BY <1>4, <1>8
    <3>2. {i \in Paid' : i <= k} = {i \in Paid : i <= k}
      BY <1>4, <1>8, <3>1
    <3> QED
      BY <3>2, Zenon DEF Nth
  <2>4. Nth(n + 1)' = NumberPaid'
    <3>1. \A i \in Paid' : i <= n + 1
      BY <1>4, <1>8
    <3>2. {i \in Paid' : i <= n + 1} = Paid'
      BY <3>1
    <3> QED
      BY <1>4, <3>2, Zenon DEF Nth, NumberPaid
  <2> QED
    BY <1>4, <1>8, <2>2, <2>3, <2>4, PaidAreCounted DEF LlmInv
<1>10. CallSound' /\ NothingIdle'
  BY <1>5 DEF CallSound, NothingIdle
<1>11. NumberPaid = call.attempt - 1 /\ call.attempt \in {1, 2} /\ lost \in Nat
       /\ Len(usage) \in Nat
  BY <1>1, LenProperties DEF LlmInv, PaidPerAttempt, LlmTypeOK
<1>12. PaidPerAttempt'
  BY <1>4, <1>5, <1>7, <1>8, <1>9, <1>11 DEF PaidPerAttempt
<1>13. RowsAccount'
  <2>1. Len(usage) + lost = IF call.ask.user THEN call.attempt - 1 ELSE 0
    BY <1>1, <1>11 DEF LlmInv, RowsAccount
  <2>2. ASSUME call.ask.user, lost = 0, call.ask.structured, NEW k \in Paid',
               Nth(k)' <= Len(usage)
        PROVE  usage[Nth(k)'] = [attempt |-> Nth(k)', failed |-> billed'[k].content = "malformed"]
    <3>1. CASE k \in Paid
      <4>1. Nth(k) <= Len(usage)
        BY <1>9, <2>2, <3>1
      <4>2. usage[Nth(k)] = [attempt |-> Nth(k), failed |-> billed[k].content = "malformed"]
        BY <1>1, <2>2, <3>1, <4>1 DEF LlmInv, RowsAccount
      <4> QED
        BY <1>9, <3>1, <4>2
    <3>2. CASE k = n + 1
      BY <1>9, <1>11, <2>1, <2>2, <3>2
    <3> QED
      BY <1>8, <3>1, <3>2
  <2> QED
    BY <1>1, <1>5, <2>1, <2>2 DEF RowsAccount
<1>14. OneModel'
  <2> SUFFICES ASSUME call.ask.routed
               PROVE  /\ Len(billed') <= call.attempt
                      /\ \A k \in DOMAIN billed' : billed'[k].model = TaskModel(call.ask)
    BY <1>5 DEF OneModel, TaskModel
  <2>1. /\ call.chain = <<TaskModel(call.ask)>> /\ Len(billed) <= call.attempt - 1
        /\ \A k \in DOMAIN billed : billed[k].model = TaskModel(call.ask)
    BY <1>1 DEF LlmInv, OneModel
  <2>2. Head(call.chain) = TaskModel(call.ask)
    BY <2>1
  <2> QED
    BY <1>4, <1>7, <1>11, <2>1, <2>2
<1> QED
  BY <1>6, <1>10, <1>12, <1>13, <1>14 DEF LlmInv

LEMMA RefuseKeeps ==
    ASSUME LlmInv, NEW error \in Errors, Refuse(error)
    PROVE  LlmInv'
<1>1. /\ call.phase = "asking" /\ call.chain # << >> /\ call.chain \in Seq(Models)
      /\ call' = [call EXCEPT !.chain = Tail(call.chain), !.error = error]
      /\ UNCHANGED <<billed, usage, lost>>
  BY DEF Refuse, LlmInv, LlmTypeOK
<1>2. Tail(call.chain) \in Seq(Models)
  BY <1>1, HeadTailProperties
<1>3. /\ call' \in [phase : {"idle", "asking", "recording", "answered", "failed"},
                    ask : Asks, chain : Seq(Models), attempt : {1, 2},
                    error : Errors \cup {None}, content : Contents \cup {None}]
      /\ call'.phase = "asking" /\ call'.ask = call.ask /\ call'.attempt = call.attempt
      /\ call'.content = call.content /\ call'.chain = Tail(call.chain)
  BY <1>1, <1>2 DEF LlmInv, LlmTypeOK
<1>4. /\ Paid' = Paid /\ NumberPaid' = NumberPaid
      /\ \A k \in Paid : Nth(k)' = Nth(k)
  BY <1>1, UnpaidStands DEF LlmInv
<1>5. LlmTypeOK'
  BY <1>1, <1>3 DEF LlmInv, LlmTypeOK
<1>6. CallSound' /\ NothingIdle' /\ PaidPerAttempt'
  BY <1>1, <1>3, <1>4 DEF LlmInv, CallSound, NothingIdle, PaidPerAttempt
<1>7. RowsAccount'
  BY <1>1, <1>3, <1>4 DEF LlmInv, RowsAccount
<1>8. OneModel'
  <2> SUFFICES ASSUME call.ask.routed
               PROVE  /\ Len(billed) <= call.attempt
                      /\ \A k \in DOMAIN billed : billed[k].model = TaskModel(call.ask)
                      /\ Tail(call.chain) = << >>
    BY <1>1, <1>3 DEF OneModel, TaskModel
  <2>1. /\ call.chain = <<TaskModel(call.ask)>> /\ Len(billed) <= call.attempt
        /\ \A k \in DOMAIN billed : billed[k].model = TaskModel(call.ask)
    BY <1>1 DEF LlmInv, OneModel
  <2> QED
    BY <2>1
<1> QED
  BY <1>5, <1>6, <1>7, <1>8 DEF LlmInv

LEMMA ExhaustedKeeps ==
    ASSUME LlmInv, Exhausted
    PROVE  LlmInv'
<1>1. /\ call.phase = "asking" /\ call' = [call EXCEPT !.phase = "failed"]
      /\ UNCHANGED <<billed, usage, lost>>
  BY DEF Exhausted
<1>2. /\ call' \in [phase : {"idle", "asking", "recording", "answered", "failed"},
                    ask : Asks, chain : Seq(Models), attempt : {1, 2},
                    error : Errors \cup {None}, content : Contents \cup {None}]
      /\ call'.phase = "failed" /\ call'.ask = call.ask /\ call'.attempt = call.attempt
      /\ call'.content = call.content
  BY <1>1 DEF LlmInv, LlmTypeOK
<1>3. /\ Paid' = Paid /\ NumberPaid' = NumberPaid
      /\ \A k \in Paid : Nth(k)' = Nth(k)
  BY <1>1, UnpaidStands DEF LlmInv
<1>4. LlmTypeOK'
  BY <1>1, <1>2 DEF LlmInv, LlmTypeOK
<1>5. CallSound' /\ NothingIdle' /\ PaidPerAttempt'
  BY <1>1, <1>2, <1>3 DEF LlmInv, CallSound, NothingIdle, PaidPerAttempt
<1>6. RowsAccount'
  BY <1>1, <1>2, <1>3 DEF LlmInv, RowsAccount
<1>7. OneModel'
  BY <1>1, <1>2 DEF LlmInv, OneModel, TaskModel
<1> QED
  BY <1>4, <1>5, <1>6, <1>7 DEF LlmInv

\* The row of a readable answer is written or lost; then the answer is good enough, or
\* it is repaired, or the call has failed.
LEMMA RecordKeeps ==
    ASSUME LlmInv, NEW stored \in BOOLEAN, Record(stored)
    PROVE  LlmInv'
<1>0. PICK n \in Nat : n = Len(usage)
  BY LenProperties DEF LlmInv, LlmTypeOK
<1>1. /\ call.phase = "recording" /\ call' = Parsed /\ UNCHANGED billed
      /\ call.content \in {"good", "malformed"} /\ call.attempt \in {1, 2}
      /\ call.ask \in Asks /\ lost \in Nat
      /\ usage \in Seq([attempt : {1, 2}, failed : BOOLEAN])
  BY DEF Record, LlmInv, CallSound, LlmTypeOK
<1>2. /\ Paid' = Paid /\ NumberPaid' = NumberPaid /\ NumberPaid = call.attempt
      /\ \A k \in Paid : Nth(k)' = Nth(k)
      /\ Len(billed) \in Paid /\ billed[Len(billed)].content = call.content
  BY <1>1, UnpaidStands DEF LlmInv, PaidPerAttempt
<1>3. /\ call' \in [phase : {"idle", "asking", "recording", "answered", "failed"},
                    ask : Asks, chain : Seq(Models), attempt : {1, 2},
                    error : Errors \cup {None}, content : Contents \cup {None}]
      /\ call'.ask = call.ask /\ call'.content = call.content
      /\ \/ /\ call'.phase = "answered" /\ call'.attempt = call.attempt /\ ~Unparsed
         \/ /\ call'.phase = "asking" /\ call.attempt = 1 /\ call'.attempt = 2
            /\ call'.chain = ModelChain(call.ask) /\ call.content = "malformed"
         \/ /\ call'.phase = "failed" /\ call'.attempt = call.attempt
            /\ call.content = "malformed"
  <2>1. ModelChain(call.ask) \in Seq(Models) /\ "provider" \in Errors
    BY <1>1, ChainsOfModels DEF Errors
  <2>2. CASE ~Unparsed
    BY <1>1, <2>2 DEF Parsed, LlmInv, LlmTypeOK
  <2>3. CASE Unparsed /\ call.ask.routed /\ call.attempt = 1
    BY <1>1, <2>1, <2>3 DEF Parsed, LlmInv, LlmTypeOK, Unparsed
  <2>4. CASE Unparsed /\ ~(call.ask.routed /\ call.attempt = 1)
    BY <1>1, <2>1, <2>4 DEF Parsed, LlmInv, LlmTypeOK, Unparsed
  <2> QED
    BY <2>2, <2>3, <2>4
<1>4. UsageRow \in [attempt : {1, 2}, failed : BOOLEAN]
  BY <1>1 DEF UsageRow, Unparsed
<1>5. /\ usage' \in Seq([attempt : {1, 2}, failed : BOOLEAN]) /\ lost' \in Nat
      /\ n + lost = IF call.ask.user THEN call.attempt - 1 ELSE 0
      /\ Len(usage') + lost' = IF call.ask.user THEN call.attempt ELSE 0
      /\ \A k \in 1..n : usage'[k] = usage[k]
      /\ call.ask.user /\ lost' = 0 => /\ lost = 0 /\ n + 1 = call.attempt
                                       /\ Len(usage') = n + 1 /\ usage'[n + 1] = UsageRow
  <2>1. n + lost = IF call.ask.user THEN call.attempt - 1 ELSE 0
    BY <1>0, <1>1 DEF LlmInv, RowsAccount
  <2>2. call.ask.user \in BOOLEAN
    BY <1>1 DEF Asks
  <2>3. CASE call.ask.user /\ stored
    <3>1. usage' = Append(usage, UsageRow) /\ lost' = lost
      BY <2>3 DEF Record
    <3>2. /\ usage' \in Seq([attempt : {1, 2}, failed : BOOLEAN])
          /\ Len(usage') = Len(usage) + 1
          /\ \A k \in 1..Len(usage) : usage'[k] = usage[k]
          /\ usage'[Len(usage) + 1] = UsageRow
      BY <1>1, <1>4, <3>1, AppendProperties
    <3> QED
      BY <1>0, <1>1, <2>1, <2>3, <3>1, <3>2
  <2>4. CASE call.ask.user /\ ~stored
    <3>1. usage' = usage /\ lost' = lost + 1
      BY <2>4 DEF Record
    <3> QED
      BY <1>0, <1>1, <2>1, <2>4, <3>1
  <2>5. CASE ~call.ask.user
    <3>1. usage' = usage /\ lost' = lost
      BY <2>5 DEF Record
    <3> QED
      BY <1>0, <1>1, <2>1, <2>5, <3>1
  <2> QED
    BY <2>2, <2>3, <2>4, <2>5
<1>6. LlmTypeOK'
  BY <1>1, <1>3, <1>5 DEF LlmInv, LlmTypeOK
<1>7. CallSound' /\ NothingIdle'
  BY <1>1, <1>3 DEF CallSound, NothingIdle, Unparsed
<1>8. PaidPerAttempt'
  BY <1>1, <1>2, <1>3 DEF PaidPerAttempt
<1>9. RowsAccount'
  <2>1. ASSUME call.ask.user, lost' = 0, call.ask.structured, NEW k \in Paid,
               Nth(k) <= Len(usage')
        PROVE  usage'[Nth(k)] = [attempt |-> Nth(k), failed |-> billed[k].content = "malformed"]
    <3>1. lost = 0 /\ n + 1 = call.attempt /\ Len(usage') = n + 1 /\ usage'[n + 1] = UsageRow
      BY <1>5, <2>1
    <3>2. Nth(k) \in Nat \ {0} /\ (Nth(k) = NumberPaid => k = Len(billed))
      BY <1>2, PaidAreCounted DEF LlmInv
    <3>3. CASE Nth(k) = n + 1
      <4>1. billed[k].content = call.content
        BY <1>2, <3>1, <3>2, <3>3
      <4>2. UsageRow = [attempt |-> call.attempt, failed |-> call.content = "malformed"]
        BY <2>1 DEF UsageRow, Unparsed
      <4> QED
        BY <3>1, <3>3, <4>1, <4>2
    <3>4. CASE Nth(k) # n + 1
      <4>1. Nth(k) <= Len(usage)
        BY <1>0, <2>1, <3>1, <3>2, <3>4
      <4>2. usage[Nth(k)] = [attempt |-> Nth(k), failed |-> billed[k].content = "malformed"]
        BY <1>1, <2>1, <3>1, <4>1 DEF LlmInv, RowsAccount
      <4>3. Nth(k) \in 1..n
        BY <1>0, <3>2, <4>1
      <4> QED
        BY <1>5, <4>2, <4>3
    <3> QED
      BY <3>3, <3>4
  <2>2. call'.phase # "recording" /\ call.phase # "idle"
    BY <1>1, <1>3
  <2>3. Len(usage') + lost' = IF ~call'.ask.user THEN 0 ELSE NumberPaid'
    BY <1>1, <1>2, <1>3, <1>5
  <2>4. call'.ask.user /\ lost' = 0 /\ call'.ask.structured =>
          \A k \in Paid' : Nth(k)' <= Len(usage') =>
            usage'[Nth(k)'] = [attempt |-> Nth(k)', failed |-> billed'[k].content = "malformed"]
    BY <1>1, <1>2, <1>3, <2>1
  <2> QED
    BY <2>2, <2>3, <2>4 DEF RowsAccount
<1>10. OneModel'
  <2> SUFFICES ASSUME call.ask.routed
               PROVE  /\ Len(billed) <= call'.attempt
                      /\ \A k \in DOMAIN billed : billed[k].model = TaskModel(call.ask)
                      /\ call'.phase = "asking" =>
                           call'.chain = <<TaskModel(call.ask)>> /\ Len(billed) <= call'.attempt - 1
    BY <1>1, <1>3 DEF OneModel, TaskModel
  <2>1. /\ Len(billed) <= call.attempt
        /\ \A k \in DOMAIN billed : billed[k].model = TaskModel(call.ask)
    BY <1>1 DEF LlmInv, OneModel
  <2>2. Len(billed) \in Nat
    BY LenProperties DEF LlmInv, LlmTypeOK
  <2> QED
    BY <1>1, <1>3, <2>1, <2>2, ChainsOfModels
<1> QED
  BY <1>6, <1>7, <1>8, <1>9, <1>10 DEF LlmInv

\* Each step of a call.
LEMMA CallKeeps ==
    ASSUME LlmInv, LlmStep
    PROVE  /\ LlmInv' /\ call'.ask = call.ask /\ call.phase # "idle" /\ call'.phase # "idle"
<1>1. ASSUME NEW content \in Contents, Answer(content)
      PROVE  LlmInv' /\ call'.ask = call.ask /\ call.phase # "idle" /\ call'.phase # "idle"
  <2>1. LlmInv'
    <3>1. CASE content = "hollow"
      BY <1>1, <3>1, HollowKeeps
    <3>2. CASE content \in {"good", "malformed"}
      BY <1>1, <3>2, TextKeeps
    <3> QED
      BY <1>1, <3>1, <3>2 DEF Contents
  <2> QED
    BY <1>1, <2>1 DEF Answer, LlmInv, LlmTypeOK
<1>2. ASSUME NEW error \in Errors, Refuse(error)
      PROVE  LlmInv' /\ call'.ask = call.ask /\ call.phase # "idle" /\ call'.phase # "idle"
  BY <1>2, RefuseKeeps DEF Refuse, LlmInv, LlmTypeOK
<1>3. ASSUME Exhausted
      PROVE  LlmInv' /\ call'.ask = call.ask /\ call.phase # "idle" /\ call'.phase # "idle"
  BY <1>3, ExhaustedKeeps DEF Exhausted, LlmInv, LlmTypeOK
<1>4. ASSUME NEW stored \in BOOLEAN, Record(stored)
      PROVE  LlmInv' /\ call'.ask = call.ask /\ call.phase # "idle" /\ call'.phase # "idle"
  BY <1>4, RecordKeeps DEF Record, Parsed, LlmInv, LlmTypeOK
<1> QED
  BY <1>1, <1>2, <1>3, <1>4 DEF LlmStep

-----------------------------------------------------------------------------
(* Operations.                                                             *)

LEMMA LlmStands ==
    ASSUME LlmInv, UNCHANGED llmVars
    PROVE  LlmInv'
<1>1. UNCHANGED call /\ UNCHANGED billed /\ UNCHANGED usage /\ UNCHANGED lost
  BY DEF llmVars
<1>2. /\ Paid' = Paid /\ NumberPaid' = NumberPaid
      /\ \A k \in Paid : Nth(k)' = Nth(k)
  BY <1>1, UnpaidStands DEF LlmInv
<1>3. LlmTypeOK' /\ CallSound' /\ NothingIdle'
  BY <1>1 DEF LlmInv, LlmTypeOK, CallSound, NothingIdle, Unparsed
<1>4. PaidPerAttempt'
  BY <1>1, <1>2 DEF LlmInv, PaidPerAttempt
<1>5. RowsAccount'
  BY <1>1, <1>2 DEF LlmInv, RowsAccount
<1>6. OneModel'
  BY <1>1 DEF LlmInv, OneModel, TaskModel
<1> QED
  BY <1>3, <1>4, <1>5, <1>6 DEF LlmInv

LEMMA ResultStands ==
    ASSUME FailsClosed, UNCHANGED result
    PROVE  FailsClosed'
  BY DEF FailsClosed

\* Every other operation returns something FailsClosed says nothing about.
LEMMA ResultElse ==
    ASSUME result'.op \notin {"match", "question", "text", "review"}
    PROVE  FailsClosed'
  BY DEF FailsClosed

LEMMA StartKeeps ==
    ASSUME IInv, NEW t, Start(t),
           t.op = "text" => t = [op |-> "text", try |-> 1],
           t.op = "other" => t.ask \in Asks,
           t.op = "find" => t.board \in Boards,
           t.op = "score" => t.text \in ScoredTexts /\ t.posting \in JobTexts
    PROVE  IInv'
<1>1. /\ task = NoTask /\ task' = t /\ result' = NoResult
      /\ UNCHANGED llmVars /\ UNCHANGED call
  BY DEF Start, llmVars
<1>2. call.phase = "idle"
  BY <1>1 DEF IInv, TaskSound, NoTask, AloneOps
<1>3. LlmInv'
  BY <1>1, LlmStands DEF IInv
<1>4. TaskSound'
  <2>1. t.op = "text" => t \in [op : {"text"}, try : {1, 2}]
    OBVIOUS
  <2> QED
    BY <1>1, <1>2, <2>1 DEF TaskSound
<1>5. FailsClosed'
  BY <1>1, ResultElse DEF NoResult
<1> QED
  BY <1>3, <1>4, <1>5 DEF IInv

\* An operation asks, for itself and with a schema if it is one of those.
LEMMA AskKeeps ==
    ASSUME IInv, NEW a \in Asks, Begin(a), UNCHANGED task,
           task.op \notin AloneOps,
           task.op = "question" => NeedsModel(task.question),
           task.op \in MatchOps \cup {"question", "text", "review"} => a.structured
    PROVE  LlmInv' /\ TaskSound'
<1>1. LlmInv' /\ call'.ask = a
  BY BeginKeeps DEF IInv
<1> QED
  BY <1>1 DEF IInv, TaskSound

LEMMA RouterAsks ==
    ASSUME NEW bound \in BOOLEAN, NEW keyed \in BOOLEAN, keyed => bound
    PROVE  RouterAsk(bound, keyed) \in Asks /\ RouterAsk(bound, keyed).structured
  BY DEF RouterAsk, Asks

\* An operation ends, or its call does.
LEMMA EndKeeps ==
    ASSUME IInv, \/ Hung
                 \/ UNCHANGED llmVars /\ call.phase = "idle",
           \/ task' = NoTask
           \/ UNCHANGED task
           \/ task.op = "text" /\ task' = [task EXCEPT !.try = 2]
    PROVE  LlmInv' /\ TaskSound'
<1>1. LlmInv' /\ call'.phase = "idle"
  BY HungKeeps, LlmStands DEF Hung, Idle, IInv, llmVars
<1>2. CASE task' = NoTask
  BY <1>1, <1>2 DEF TaskSound, NoTask
<1>3. CASE UNCHANGED task
  BY <1>1, <1>3 DEF IInv, TaskSound
<1>4. CASE task.op = "text" /\ task' = [task EXCEPT !.try = 2]
  <2>1. task' = [op |-> "text", try |-> 2]
    BY <1>4 DEF IInv, TaskSound
  <2> QED
    BY <1>1, <2>1 DEF TaskSound
<1> QED
  BY <1>1, <1>2, <1>3, <1>4

\* The answer to a call with a schema could be read, or the call has failed.
LEMMA GoodIfAnswered ==
    ASSUME IInv, Over, task.op \in MatchOps \cup {"question", "text", "review"}
    PROVE  /\ call.phase \in {"answered", "failed"}
           /\ call.phase = "answered" <=> call.content = "good"
<1>1. call.phase \in {"answered", "failed"} /\ call.ask.structured
  BY DEF Over, IInv, TaskSound
<1> QED
  BY <1>1 DEF IInv, LlmInv, CallSound, Unparsed

\* What a match, an answer, a text and a review become.
LEMMA MatchedKeeps ==
    ASSUME IInv, Matched
    PROVE  IInv'
<1>1. task' = NoTask /\ Hung
  BY DEF Matched, MatchEnds, Finish
<1>2. LlmInv' /\ TaskSound'
  BY <1>1, EndKeeps
<1>3. call.phase = "answered" <=> call.content = "good"
  BY GoodIfAnswered DEF Matched
<1>4. FailsClosed'
  <2>1. CASE call.phase = "failed"
    <3>1. /\ result'.op = "match"
          /\ result'.match = MatchFailed(task.candidate, JobView)
      BY <2>1 DEF Matched, MatchEnds, Finish
    <3>2. /\ MatchFailed(task.candidate, JobView).verdict = "INSUFFICIENT_DATA"
          /\ MatchFailed(task.candidate, JobView).score = NoScore
      BY DEF MatchFailed
    <3> QED
      BY <3>1, <3>2 DEF FailsClosed
  <2>2. CASE call.phase # "failed"
    <3>1. result'.op = "match" /\ result'.content = call.content
      BY <2>2 DEF Matched, MatchEnds, Finish
    <3>2. call.content = "good"
      BY <1>3, <2>2 DEF Matched, Over
    <3> QED
      BY <3>1, <3>2 DEF FailsClosed
  <2> QED
    BY <2>1, <2>2
<1> QED
  BY <1>2, <1>4 DEF IInv

LEMMA AnsweredAloneKeeps ==
    ASSUME IInv, AnsweredAlone
    PROVE  IInv'
<1>1. /\ task.op = "question" /\ ~NeedsModel(task.question) /\ task' = NoTask
      /\ result'.op = "question"
      /\ result'.answer = Deterministic(task.profile, task.question)
      /\ UNCHANGED llmVars
  BY DEF AnsweredAlone, AnswerEnds, Finish
<1>2. LlmInv' /\ TaskSound'
  BY <1>1, EndKeeps DEF IInv, TaskSound
<1>3. Deterministic(task.profile, task.question).answer[1] # "model"
  BY DEF Deterministic, Resolved, FromProfile
<1>4. FailsClosed'
  BY <1>1, <1>3 DEF FailsClosed
<1> QED
  BY <1>2, <1>4 DEF IInv

LEMMA AnsweredKeeps ==
    ASSUME IInv, Answered
    PROVE  IInv'
<1>1. task' = NoTask /\ Hung
  BY DEF Answered, AnswerEnds, Finish
<1>2. LlmInv' /\ TaskSound'
  BY <1>1, EndKeeps
<1>3. call.phase = "answered" <=> call.content = "good"
  BY GoodIfAnswered DEF Answered
<1>4. FailsClosed'
  <2>1. CASE call.phase = "failed"
    <3>1. result'.op = "question" /\ result'.answer = Unanswered
      BY <2>1 DEF Answered, AnswerEnds, Finish
    <3>2. Unanswered.answer[1] # "model"
      BY DEF Unanswered, Resolved
    <3> QED
      BY <3>1, <3>2 DEF FailsClosed
  <2>2. CASE call.phase # "failed"
    <3>1. PICK r \in Replies :
            result' = [op |-> "question", content |-> call.content,
                       answer |-> ByModel(task.profile, r), profile |-> task.profile]
      BY <2>2 DEF Answered, AnswerEnds, Finish
    <3>2. call.content = "good"
      BY <1>3, <2>2 DEF Answered, Over
    <3>3. ASSUME ByModel(task.profile, r).answer[1] = "model"
          PROVE  /\ ByModel(task.profile, r).ids # {}
                 /\ ByModel(task.profile, r).ids \subseteq ValidIds(task.profile)
      <4>1. IsValid(task.profile, r) /\ r.confidence >= 70
        BY <3>3 DEF ByModel, Resolved
      <4>2. ByModel(task.profile, r).ids = CitedIds(r)
        BY <4>1 DEF ByModel, Resolved
      <4>3. r.confidence > 0
        BY <4>1, AssessmentAssumption
      <4> QED
        BY <4>1, <4>2, <4>3 DEF IsValid, CitedIds
    <3>4. /\ result'.op = "question" /\ result'.content = "good"
          /\ result'.answer = ByModel(task.profile, r) /\ result'.profile = task.profile
      BY <3>1, <3>2
    <3> QED
      BY <3>3, <3>4 DEF FailsClosed
  <2> QED
    BY <2>1, <2>2
<1> QED
  BY <1>2, <1>4 DEF IInv

LEMMA WrittenKeeps ==
    ASSUME IInv, Written
    PROVE  IInv'
<1>1. task.op = "text" /\ Hung /\ Over
  BY DEF Written
<1>2. task' = NoTask \/ task' = [task EXCEPT !.try = 2]
  BY DEF Written, Finish
<1>3. LlmInv' /\ TaskSound'
  BY <1>1, <1>2, EndKeeps
<1>4. call.phase = "answered" <=> call.content = "good"
  BY <1>1, GoodIfAnswered
<1>5. /\ result'.op = "text" /\ result'.content = call.content
      /\ call.phase = "failed" => result'.accepted = FALSE
  <2>1. CASE call.phase = "failed"
    BY <2>1 DEF Written, Finish, Text
  <2>2. CASE call.phase # "failed"
    <3>1. PICK d \in Drafts :
            result' = Text(d.words, Restored(d.words, Names),
                           Faultless(d, Restored(d.words, Names)))
      BY <2>2 DEF Written, Finish
    <3> QED
      BY <2>2, <3>1 DEF Text
  <2> QED
    BY <2>1, <2>2
<1>6. FailsClosed'
  BY <1>1, <1>4, <1>5 DEF FailsClosed, Over
<1> QED
  BY <1>3, <1>6 DEF IInv

LEMMA ReviewedKeeps ==
    ASSUME IInv, Reviewed
    PROVE  IInv'
<1>1. task' = NoTask /\ Hung /\ Over /\ task.op = "review"
  BY DEF Reviewed, ReviewEnds, Finish
<1>2. LlmInv' /\ TaskSound'
  BY <1>1, EndKeeps
<1>3. /\ call.phase \in {"answered", "failed"}
      /\ call.phase = "answered" <=> call.content = "good"
  BY <1>1, GoodIfAnswered
<1>4. PICK verdict, severities :
        /\ result' = [op |-> "review", content |-> call.content, found |-> task.found,
                      severities |-> severities, verdict |-> QAVerdictOf(verdict, severities)]
        /\ task.found \subseteq severities
        /\ call.phase = "failed" => "warning" \in severities
  <2>1. CASE call.phase = "failed"
    <3>1. ReviewEnds("WARNING", task.found \cup {"warning"})
      BY <2>1 DEF Reviewed
    <3> QED
      BY <3>1 DEF ReviewEnds, Finish
  <2>2. CASE call.phase # "failed"
    <3>1. PICK v \in {"PASS", "WARNING", "BLOCKED"}, issues \in Findings :
            ReviewEnds(v, task.found \cup
                          {i.severity : i \in {j \in issues : ~Overruled(j, Degrees, Now)}})
      BY <2>2 DEF Reviewed
    <3> QED
      BY <2>2, <3>1 DEF ReviewEnds, Finish
  <2> QED
    BY <2>1, <2>2
<1>5. /\ result'.op = "review" /\ result'.content = call.content
      /\ result'.found = task.found /\ result'.severities = severities
      /\ result'.verdict = QAVerdictOf(verdict, severities)
  BY <1>4
<1>6. FailsClosed'
  BY <1>3, <1>4, <1>5 DEF FailsClosed, QAVerdictOf
<1> QED
  BY <1>2, <1>6 DEF IInv

LEMMA AssessmentKeeps ==
    ASSUME IInv, Next
    PROVE  IInv'
<1>1. ASSUME NEW op \in MatchOps, NEW c \in Candidates, StartMatch(op, c)
      PROVE  IInv'
  <2> DEFINE t == [op |-> op, candidate |-> c]
  <2>1. Start(t) /\ t.op \notin {"text", "other", "find", "score"}
    BY <1>1 DEF StartMatch, MatchOps
  <2> QED
    BY <2>1, StartKeeps
<1>2. ASSUME NEW keyed \in BOOLEAN, AskMatch(keyed)
      PROVE  IInv'
  <2> DEFINE bound == task.op = "analyse"
  <2>1. /\ task.op \in {"search", "analyse"} /\ UNCHANGED <<task, result>>
        /\ Begin(RouterAsk(bound, keyed /\ bound))
    BY <1>2 DEF AskMatch, Ask, MatchOps
  <2>2. RouterAsk(bound, keyed /\ bound) \in Asks /\ RouterAsk(bound, keyed /\ bound).structured
    BY RouterAsks
  <2>3. LlmInv' /\ TaskSound'
    BY <2>1, <2>2, AskKeeps DEF AloneOps
  <2> QED
    BY <2>1, <2>3, ResultStands DEF IInv
<1>3. ASSUME Normalised
      PROVE  IInv'
  <2>1. Hung /\ UNCHANGED task /\ UNCHANGED result
    BY <1>3 DEF Normalised
  <2> QED
    BY <2>1, EndKeeps, ResultStands DEF IInv
<1>4. ASSUME Matched PROVE IInv'
  BY <1>4, MatchedKeeps
<1>5. ASSUME NEW p \in Profiles, NEW q \in FormQuestions, StartQuestion(p, q)
      PROVE  IInv'
  <2> DEFINE t == [op |-> "question", profile |-> p, question |-> q]
  <2>1. Start(t) /\ t.op \notin {"text", "other", "find", "score"}
    BY <1>5 DEF StartQuestion, StartApart
  <2> QED
    BY <2>1, StartKeeps
<1>6. ASSUME AnsweredAlone PROVE IInv'
  BY <1>6, AnsweredAloneKeeps
<1>7. ASSUME AskAnswer
      PROVE  IInv'
  <2>1. /\ task.op = "question" /\ NeedsModel(task.question) /\ UNCHANGED <<task, result>>
        /\ Begin(RouterAsk(FALSE, FALSE))
    BY <1>7 DEF AskAnswer, Ask
  <2>2. LlmInv' /\ TaskSound'
    BY <2>1, RouterAsks, AskKeeps DEF AloneOps
  <2> QED
    BY <2>1, <2>2, ResultStands DEF IInv
<1>8. ASSUME Answered PROVE IInv'
  BY <1>8, AnsweredKeeps
<1>9. ASSUME StartText
      PROVE  IInv'
  <2>1. Start([op |-> "text", try |-> 1])
    BY <1>9 DEF StartText, StartApart
  <2> QED
    BY <2>1, StartKeeps
<1>10. ASSUME NEW keyed \in BOOLEAN, AskText(keyed)
       PROVE  IInv'
  <2>1. /\ task.op = "text" /\ UNCHANGED task /\ Begin(RouterAsk(TRUE, keyed))
        /\ result' = NoResult
    BY <1>10 DEF AskText
  <2>2. LlmInv' /\ TaskSound'
    BY <2>1, RouterAsks, AskKeeps DEF AloneOps
  <2>3. FailsClosed'
    BY <2>1, ResultElse DEF NoResult
  <2> QED
    BY <2>2, <2>3 DEF IInv
<1>11. ASSUME Written PROVE IInv'
  BY <1>11, WrittenKeeps
<1>12. ASSUME NEW found \in SUBSET {"warning", "blocker"}, StartReview(found)
       PROVE  IInv'
  <2> DEFINE t == [op |-> "review", found |-> found]
  <2>1. Start(t) /\ t.op \notin {"text", "other", "find", "score"}
    BY <1>12 DEF StartReview, StartApart
  <2> QED
    BY <2>1, StartKeeps
<1>13. ASSUME NEW keyed \in BOOLEAN, AskReview(keyed)
       PROVE  IInv'
  <2>1. /\ task.op = "review" /\ UNCHANGED <<task, result>> /\ Begin(RouterAsk(TRUE, keyed))
    BY <1>13 DEF AskReview, Ask
  <2>2. LlmInv' /\ TaskSound'
    BY <2>1, RouterAsks, AskKeeps DEF AloneOps
  <2> QED
    BY <2>1, <2>2, ResultStands DEF IInv
<1>14. ASSUME Reviewed PROVE IInv'
  BY <1>14, ReviewedKeeps
<1>15. ASSUME NEW a \in Asks, StartOther(a)
       PROVE  IInv'
  <2> DEFINE t == [op |-> "other", ask |-> a]
  <2>1. Start(t) /\ t.op # "text" /\ t.ask \in Asks
    BY <1>15 DEF StartOther, StartApart
  <2> QED
    BY <2>1, StartKeeps
<1>16. ASSUME AskOther
       PROVE  IInv'
  <2>1. task.op = "other" /\ UNCHANGED <<task, result>> /\ Begin(task.ask)
    BY <1>16 DEF AskOther, Ask
  <2>2. task.ask \in Asks /\ task.op \notin MatchOps
    BY <2>1 DEF IInv, TaskSound, MatchOps
  <2>3. LlmInv' /\ TaskSound'
    BY <2>1, <2>2, AskKeeps DEF AloneOps
  <2> QED
    BY <2>1, <2>3, ResultStands DEF IInv
<1>17. ASSUME OtherEnds
       PROVE  IInv'
  <2>1. Hung /\ task' = NoTask /\ result'.op = "other"
    BY <1>17 DEF OtherEnds, Finish
  <2> QED
    BY <2>1, EndKeeps, ResultElse DEF IInv
<1>18. ASSUME CallStep
       PROVE  IInv'
  <2>1. LlmStep /\ UNCHANGED task /\ UNCHANGED result
    BY <1>18 DEF CallStep
  <2>2. /\ LlmInv' /\ call'.ask = call.ask /\ call.phase # "idle" /\ call'.phase # "idle"
    BY <2>1, CallKeeps DEF IInv
  <2>3. TaskSound'
    BY <2>1, <2>2 DEF IInv, TaskSound
  <2> QED
    BY <2>1, <2>2, <2>3, ResultStands DEF IInv
<1> QED
  BY <1>1, <1>2, <1>3, <1>4, <1>5, <1>6, <1>7, <1>8, <1>9, <1>10, <1>11, <1>12, <1>13,
     <1>14, <1>15, <1>16, <1>17, <1>18 DEF Next

\* An operation that asks nothing ends.
LEMMA AloneKeeps ==
    ASSUME IInv, NEW op, Alone(op), call.phase = "idle", task' = NoTask,
           result'.op \notin {"match", "question", "text", "review"}
    PROVE  IInv'
<1>1. UNCHANGED llmVars
  BY DEF Alone
<1>2. LlmInv' /\ TaskSound'
  BY <1>1, EndKeeps
<1> QED
  BY <1>2, ResultElse DEF IInv

LEMMA WorkKeeps ==
    ASSUME IInv, [WorkNext]_vars
    PROVE  IInv'
<1>1. ASSUME Next PROVE IInv'
  BY <1>1, AssessmentKeeps
<1>2. ASSUME NEW lines \in Resumes, NEW at \in Gluings(lines), StartGenerate(lines, at)
      PROVE  IInv'
  <2> DEFINE t == [op |-> "generate", lines |-> lines, text |-> Glued(lines, at)]
  <2>1. Start(t) /\ t.op \notin {"text", "other", "find", "score"}
    BY <1>2 DEF StartGenerate, StartAlone, StartApart
  <2> QED
    BY <2>1, StartKeeps
<1>3. ASSUME NEW rendered \in BOOLEAN, Generated(rendered)
      PROVE  IInv'
  <2>1. /\ Alone("generate") /\ task.op = "generate" /\ task' = NoTask
        /\ result'.op \in {"failed", "generate"}
    BY <1>3 DEF Generated, Finish, Alone
  <2>2. call.phase = "idle"
    BY <2>1 DEF IInv, TaskSound, AloneOps
  <2> QED
    BY <2>1, <2>2, AloneKeeps
<1>4. ASSUME NEW text \in Uploads, StartImport(text)
      PROVE  IInv'
  <2> DEFINE t == [op |-> "import", parsed |-> Parse(text)]
  <2>1. Start(t) /\ t.op \notin {"text", "other", "find", "score"}
    BY <1>4 DEF StartImport, StartAlone, StartApart
  <2> QED
    BY <2>1, StartKeeps
<1>5. ASSUME AskImport
      PROVE  IInv'
  <2> DEFINE a == [RouterAsk(FALSE, FALSE) EXCEPT !.heavy = FALSE]
  <2>1. task.op = "import" /\ UNCHANGED <<task, result>> /\ Begin(a)
    BY <1>5 DEF AskImport, Ask
  <2>2. a \in Asks /\ task.op \notin MatchOps
    BY <2>1 DEF RouterAsk, Asks, MatchOps
  <2>3. LlmInv' /\ TaskSound'
    BY <2>1, <2>2, AskKeeps DEF AloneOps
  <2> QED
    BY <2>1, <2>3, ResultStands DEF IInv
<1>6. ASSUME Imported
      PROVE  IInv'
  <2>1. Hung /\ task' = NoTask /\ result'.op = "import"
    BY <1>6 DEF Imported, ImportEnds, Finish
  <2> QED
    BY <2>1, EndKeeps, ResultElse DEF IInv
<1>7. ASSUME Edited
      PROVE  IInv'
  <2>1. /\ Alone("import") /\ task' = NoTask /\ call.phase = "idle" /\ result'.op = "profile"
    BY <1>7 DEF Edited, Finish, Idle
  <2> QED
    BY <2>1, AloneKeeps
<1>8. ASSUME NEW text \in ScoredTexts, NEW posting \in JobTexts, StartScoring(text, posting)
      PROVE  IInv'
  <2> DEFINE t == [op |-> "score", text |-> text, posting |-> posting]
  <2>1. Start(t) /\ t.op = "score" /\ t.text = text /\ t.posting = posting
    BY <1>8 DEF StartScoring, StartAlone, StartApart
  <2> QED
    BY <2>1, StartKeeps
<1>9. ASSUME NEW engine \in BOOLEAN, NEW similarity \in Similarities,
             ScoreEnds(engine, similarity)
      PROVE  IInv'
  <2>1. Alone("score") /\ task.op = "score" /\ task' = NoTask /\ result'.op = "score"
    BY <1>9 DEF ScoreEnds, Finish, Alone
  <2>2. call.phase = "idle"
    BY <2>1 DEF IInv, TaskSound, AloneOps
  <2> QED
    BY <2>1, <2>2, AloneKeeps
<1>10. ASSUME NEW text \in ScoredTexts, NEW posting \in JobTexts, NEW engine \in BOOLEAN,
              StartOptimize(text, posting, engine)
       PROVE  IInv'
  <2> DEFINE t == [op |-> "optimize", text |-> text, posting |-> posting, engine |-> engine]
  <2>1. Start(t) /\ t.op \notin {"text", "other", "find", "score"}
    BY <1>10 DEF StartOptimize, StartAlone, StartApart
  <2> QED
    BY <2>1, StartKeeps
<1>11. ASSUME NEW keyed \in BOOLEAN, AskOptimize(keyed)
       PROVE  IInv'
  <2> DEFINE a == [user |-> TRUE, keyed |-> keyed, routed |-> FALSE, heavy |-> FALSE,
                   structured |-> TRUE]
  <2>1. task.op = "optimize" /\ UNCHANGED <<task, result>> /\ Begin(a)
    BY <1>11 DEF AskOptimize, Ask
  <2>2. a \in Asks /\ task.op \notin MatchOps
    BY <2>1 DEF Asks, MatchOps
  <2>3. LlmInv' /\ TaskSound'
    BY <2>1, <2>2, AskKeeps DEF AloneOps
  <2> QED
    BY <2>1, <2>3, ResultStands DEF IInv
<1>12. ASSUME NEW rendered \in BOOLEAN, Optimised(rendered)
       PROVE  IInv'
  <2>1. Hung /\ task' = NoTask /\ result'.op \in {"failed", "optimize"}
    BY <1>12 DEF Optimised, Finish
  <2> QED
    BY <2>1, EndKeeps, ResultElse DEF IInv
<1>13. ASSUME NEW board \in Boards, StartFind(board)
       PROVE  IInv'
  <2> DEFINE t == [op |-> "find", board |-> board]
  <2>1. Start(t) /\ t.op = "find" /\ t.board = board
    BY <1>13 DEF StartFind, StartAlone, StartApart
  <2> QED
    BY <2>1, StartKeeps
<1>14. ASSUME Found
       PROVE  IInv'
  <2>1. Alone("find") /\ task.op = "find" /\ task' = NoTask /\ result'.op = "find"
    BY <1>14 DEF Found, Finish, Alone
  <2>2. call.phase = "idle"
    BY <2>1 DEF IInv, TaskSound, AloneOps
  <2> QED
    BY <2>1, <2>2, AloneKeeps
<1>15. ASSUME NEW card \in Cards, NEW advert \in Adverts, StartCard(card, advert)
       PROVE  IInv'
  <2> DEFINE t == [op |-> "card", card |-> card, advert |-> advert]
  <2>1. Start(t) /\ t.op \notin {"text", "other", "find", "score"}
    BY <1>15 DEF StartCard, StartAlone, StartApart
  <2> QED
    BY <2>1, StartKeeps
<1>16. ASSUME Drawn
       PROVE  IInv'
  <2>1. Alone("card") /\ task.op = "card" /\ task' = NoTask /\ result'.op = "card"
    BY <1>16 DEF Drawn, Finish, Alone
  <2>2. call.phase = "idle"
    BY <2>1 DEF IInv, TaskSound, AloneOps
  <2> QED
    BY <2>1, <2>2, AloneKeeps
<1>17. ASSUME UNCHANGED vars
       PROVE  IInv'
  <2>1. UNCHANGED llmVars /\ UNCHANGED call /\ UNCHANGED task /\ UNCHANGED result
    BY <1>17 DEF vars, llmVars
  <2>2. LlmInv'
    BY <2>1, LlmStands DEF IInv
  <2>3. TaskSound'
    BY <2>1 DEF IInv, TaskSound
  <2> QED
    BY <2>1, <2>2, <2>3, ResultStands DEF IInv
<1> QED
  BY <1>1, <1>2, <1>3, <1>4, <1>5, <1>6, <1>7, <1>8, <1>9, <1>10, <1>11, <1>12, <1>13,
     <1>14, <1>15, <1>16, <1>17 DEF WorkNext

-----------------------------------------------------------------------------
(* Recursion over the natural numbers.                                     *)

LEMMA LeastOne ==
    ASSUME NEW T \in SUBSET Nat, T # {}
    PROVE  \E m \in T : \A k \in Nat : k < m => k \notin T
<1>1. PICK m \in T : \A k \in T : ~(<<k, m>> \in OpToRel(<, Nat))
  BY NatLessThanWellFounded, WFMin
<1>2. \A k \in T : ~(k < m)
  BY <1>1 DEF OpToRel
<1> QED
  BY <1>2

\* A function g follows the steps from a up to n.
Follows(g, n, a, step) ==
    g[0] = a /\ \A i \in 1..n : g[i] = step[g[i - 1]][i]

\* A function g on the natural numbers follows the steps from a.
Recurs(g, a, step) == \A n \in Nat : g[n] = IF n = 0 THEN a ELSE step[g[n - 1]][n]

\* The steps from a define a function on the natural numbers.
LEMMA Recursion ==
    ASSUME NEW S, NEW a \in S, NEW step \in [S -> [Nat -> S]]
    PROVE  \E f \in [Nat -> S] : Recurs(f, a, step)
<1>1. \A n \in Nat : \E g \in [0..n -> S] : Follows(g, n, a, step)
  <2> DEFINE T == {n \in Nat : ~\E g \in [0..n -> S] : Follows(g, n, a, step)}
  <2> SUFFICES ASSUME T # {} PROVE FALSE
    OBVIOUS
  <2>1. PICK m \in T : \A k \in Nat : k < m => k \notin T
    BY LeastOne
  <2>2. CASE m = 0
    <3> DEFINE g == [i \in 0..0 |-> a]
    <3>1. g \in [0..0 -> S] /\ Follows(g, 0, a, step)
      BY DEF Follows
    <3> QED
      BY <2>1, <2>2, <3>1
  <2>3. CASE m # 0
    <3>1. m \in Nat /\ m - 1 \in Nat /\ m - 1 < m
      BY <2>3
    <3>2. PICK g \in [0..(m - 1) -> S] : Follows(g, m - 1, a, step)
      BY <2>1, <3>1
    <3> DEFINE h == [i \in 0..m |-> IF i = m THEN step[g[m - 1]][m] ELSE g[i]]
    <3>3. h \in [0..m -> S]
      <4>1. g[m - 1] \in S /\ step[g[m - 1]][m] \in S
        BY <3>1
      <4>2. \A i \in 0..m : i # m => g[i] \in S
        BY <3>1
      <4> QED
        BY <4>1, <4>2
    <3>4. \A i \in 0..(m - 1) : h[i] = g[i]
      BY <3>1
    <3>5. Follows(h, m, a, step)
      <4>1. h[0] = a
        BY <2>3, <3>1, <3>2, <3>4 DEF Follows
      <4>2. ASSUME NEW i \in 1..m PROVE h[i] = step[h[i - 1]][i]
        <5>1. i - 1 \in 0..(m - 1) /\ h[i - 1] = g[i - 1]
          BY <3>1, <3>4
        <5>2. CASE i = m
          BY <3>1, <5>1, <5>2
        <5>3. CASE i # m
          BY <3>1, <3>2, <3>4, <5>1, <5>3 DEF Follows
        <5> QED
          BY <5>2, <5>3
      <4> HIDE DEF h
      <4> QED
        BY <4>1, <4>2 DEF Follows
    <3> QED
      BY <2>1, <3>3, <3>5
  <2> QED
    BY <2>2, <2>3
<1>2. ASSUME NEW n \in Nat, NEW m \in Nat, n <= m, NEW g, NEW h,
             Follows(g, n, a, step), Follows(h, m, a, step)
      PROVE  g[n] = h[n]
  <2> DEFINE T == {i \in 0..n : g[i] # h[i]}
  <2>0. T \subseteq Nat /\ n \in 0..n
    OBVIOUS
  <2> SUFFICES ASSUME T # {} PROVE FALSE
    BY <2>0
  <2>1. PICK i \in T : \A k \in Nat : k < i => k \notin T
    <3> HIDE DEF T
    <3> QED
      BY <2>0, LeastOne
  <2>2. CASE i = 0
    BY <1>2, <2>2 DEF Follows
  <2>3. CASE i # 0
    <3>1. i \in 1..n /\ i \in 1..m /\ i - 1 \in 0..n /\ i - 1 \in Nat /\ i - 1 < i
      BY <1>2, <2>3
    <3>2. g[i - 1] = h[i - 1]
      BY <2>1, <3>1
    <3>3. g[i] = h[i]
      BY <1>2, <3>1, <3>2 DEF Follows
    <3> QED
      BY <2>1, <3>3
  <2> QED
    BY <2>2, <2>3
<1> DEFINE up(n) == CHOOSE g \in [0..n -> S] : Follows(g, n, a, step)
           f == [n \in Nat |-> up(n)[n]]
<1>3. \A n \in Nat : up(n) \in [0..n -> S] /\ Follows(up(n), n, a, step)
  BY <1>1
<1> HIDE DEF up
<1>4. f \in [Nat -> S]
  BY <1>3
<1>5. ASSUME NEW n \in Nat PROVE f[n] = IF n = 0 THEN a ELSE step[f[n - 1]][n]
  <2>1. CASE n = 0
    BY <1>3, <2>1 DEF Follows
  <2>2. CASE n # 0
    <3>1. n - 1 \in Nat /\ n - 1 <= n /\ n \in 1..n
      BY <2>2
    <3>2. up(n)[n] = step[up(n)[n - 1]][n]
      BY <1>3, <3>1 DEF Follows
    <3>3. Follows(up(n - 1), n - 1, a, step) /\ Follows(up(n), n, a, step)
      BY <1>3, <3>1
    <3>4. up(n - 1)[n - 1] = up(n)[n - 1]
      BY <1>2, <3>1, <3>3
    <3> QED
      BY <2>2, <3>1, <3>2, <3>4
  <2> QED
    BY <2>1, <2>2
<1> QED
  BY <1>4, <1>5 DEF Recurs

\* A function h takes the steps up to last, and ends where any other does that takes them.
Unfolds(h, S, last, a, step) ==
    /\ h \in [0..last -> S] /\ h[0] = a
    /\ \A n \in 1..last : n - 1 \in 0..last /\ h[n] = step[h[n - 1]][n]
    /\ \A g : /\ g[0] = a
              /\ \A n \in 1..last : g[n - 1] \in S => g[n] = step[g[n - 1]][n]
              => g[last] = h[last]

LEMMA Unfolding ==
    ASSUME NEW S, NEW last \in Nat, NEW a \in S, NEW step \in [S -> [1..last -> S]]
    PROVE  \E h : Unfolds(h, S, last, a, step)
<1> DEFINE next(m, n) == IF n \in 1..last THEN step[m][n] ELSE m
           steps == [m \in S |-> [n \in Nat |-> next(m, n)]]
<1>1. \A m \in S, n \in Nat : next(m, n) \in S
  OBVIOUS
<1> HIDE DEF next
<1>2. steps \in [S -> [Nat -> S]]
  BY <1>1
<1> HIDE DEF steps
<1>3. PICK f \in [Nat -> S] : Recurs(f, a, steps)
  BY <1>2, Recursion, ZenonT(30)
<1> DEFINE h == [n \in 0..last |-> f[n]]
<1>4. h \in [0..last -> S] /\ h[0] = a
  BY <1>3 DEF Recurs
<1>5. ASSUME NEW n \in 1..last
      PROVE  n - 1 \in 0..last /\ h[n] = step[h[n - 1]][n]
  <2>1. n - 1 \in 0..last /\ n - 1 \in Nat /\ n \in Nat /\ n # 0 /\ n \in 0..last
    OBVIOUS
  <2>2. f[n - 1] \in S
    BY <2>1
  <2>3. f[n] = steps[f[n - 1]][n]
    BY <1>3, <2>1 DEF Recurs
  <2>4. steps[f[n - 1]][n] = step[f[n - 1]][n]
    BY <2>1, <2>2 DEF steps, next
  <2> QED
    BY <2>1, <2>3, <2>4
<1> HIDE DEF h
<1>6. ASSUME NEW g, g[0] = a,
             \A n \in 1..last : g[n - 1] \in S => g[n] = step[g[n - 1]][n]
      PROVE  g[last] = h[last]
  <2> DEFINE U == {n \in 0..last : g[n] # h[n]}
  <2>1. U \subseteq Nat /\ last \in 0..last
    OBVIOUS
  <2> SUFFICES ASSUME U # {} PROVE FALSE
    BY <2>1
  <2>2. PICK n \in U : \A k \in Nat : k < n => k \notin U
    <3> HIDE DEF U
    <3> QED
      BY <2>1, LeastOne
  <2>3. n # 0
    BY <1>4, <1>6
  <2>4. n \in 1..last /\ n - 1 \in Nat /\ n - 1 < n /\ n - 1 \in 0..last
    <3> HIDE DEF h
    <3>1. n \in 0..last
      OBVIOUS
    <3> HIDE DEF U
    <3> QED
      BY <2>3, <3>1
  <2>5. g[n - 1] = h[n - 1]
    BY <2>2, <2>4
  <2>6. g[n] = step[g[n - 1]][n]
    BY <1>4, <1>6, <2>4, <2>5
  <2> QED
    BY <1>5, <2>4, <2>5, <2>6
<1> QED
  BY <1>4, <1>5, <1>6 DEF Unfolds

\* A sum is the last of the partial sums.
LEMMA SumUnfolds ==
    ASSUME NEW last \in Nat, NEW ns \in [1..last -> Int]
    PROVE  \E f \in [0..last -> Int] :
               /\ f[0] = 0
               /\ \A n \in 1..last : n - 1 \in 0..last /\ f[n] = f[n - 1] + ns[n]
               /\ SumOf(ns) = f[last]
<1> DEFINE next(m, n) == IF n \in 1..last THEN m + ns[n] ELSE m
           step == [m \in Int |-> [n \in Nat |-> next(m, n)]]
           Sums(g) == g = [n \in 0..last |-> IF n = 0 THEN 0 ELSE g[n - 1] + ns[n]]
<1>1. Len(ns) = last
  BY LenProperties
<1>2. \A m \in Int, n \in Nat : next(m, n) \in Int
  OBVIOUS
<1>3. SumOf(ns) = (CHOOSE g : Sums(g))[last]
  BY <1>1 DEF SumOf
<1> HIDE DEF next
<1>4. step \in [Int -> [Nat -> Int]]
  BY <1>2
<1> HIDE DEF step
<1>5. PICK f \in [Nat -> Int] : Recurs(f, 0, step)
  <2> HIDE DEF Sums
  <2>1. 0 \in Int
    OBVIOUS
  <2> QED
    BY <1>4, <2>1, Recursion, ZenonT(30)
<1>6. \A n \in 1..last : n - 1 \in 0..last /\ f[n] = f[n - 1] + ns[n]
  <2> TAKE n \in 1..last
  <2>1. n - 1 \in 0..last /\ n - 1 \in Nat /\ n \in Nat /\ n # 0
    OBVIOUS
  <2>2. f[n - 1] \in Int
    BY <2>1
  <2>3. step[f[n - 1]][n] = next(f[n - 1], n)
    BY <2>1, <2>2 DEF step
  <2>4. f[n] = step[f[n - 1]][n]
    BY <1>5, <2>1 DEF Recurs
  <2> QED
    BY <2>1, <2>3, <2>4 DEF next
<1> DEFINE h == [n \in 0..last |-> f[n]]
<1>7. h \in [0..last -> Int] /\ h[0] = 0 /\ 0 \in 0..last /\ last \in 0..last
  BY <1>5 DEF Recurs
<1>8. \A n \in 1..last : n \in 0..last /\ n - 1 \in 0..last /\ h[n] = h[n - 1] + ns[n]
  BY <1>6
<1> HIDE DEF h
<1>9. Sums(h)
  <2>1. \A n \in 0..last : n # 0 => n \in 1..last
    OBVIOUS
  <2> QED
    BY <1>7, <1>8, <2>1
<1>10. ASSUME NEW g, Sums(g) PROVE g[last] = h[last]
  <2> DEFINE T == {n \in 0..last : g[n] # h[n]}
  <2>1. T \subseteq Nat
    OBVIOUS
  <2> SUFFICES ASSUME T # {} PROVE FALSE
    BY <1>7
  <2>2. PICK n \in T : \A k \in Nat : k < n => k \notin T
    <3> HIDE DEF T
    <3> QED
      BY <2>1, LeastOne
  <2>3. n # 0
    BY <1>7, <1>10
  <2>4. n \in 1..last /\ n - 1 \in Nat /\ n - 1 < n /\ n - 1 \in 0..last
    BY <2>3
  <2>5. g[n - 1] = h[n - 1]
    BY <2>2, <2>4
  <2>6. g[n] = g[n - 1] + ns[n]
    BY <1>10, <2>3
  <2> QED
    BY <1>8, <2>4, <2>5, <2>6
<1>11. SumOf(ns) = h[last]
  <2> HIDE DEF Sums
  <2> QED
    BY <1>3, <1>9, <1>10
<1> QED
  BY <1>7, <1>8, <1>11

\* A sum is a whole number, and one of positive numbers is positive.
LEMMA SumsOfNumbers ==
    ASSUME NEW last \in Nat, NEW ns \in [1..last -> Int]
    PROVE  /\ SumOf(ns) \in Int
           /\ last # 0 /\ (\A n \in 1..last : ns[n] > 0) => SumOf(ns) > 0
<1>1. PICK f \in [0..last -> Int] :
         /\ f[0] = 0
         /\ \A n \in 1..last : n - 1 \in 0..last /\ f[n] = f[n - 1] + ns[n]
         /\ SumOf(ns) = f[last]
  BY SumUnfolds
<1>2. SumOf(ns) \in Int
  BY <1>1
<1>3. ASSUME last # 0, \A n \in 1..last : ns[n] > 0 PROVE f[last] > 0
  <2> DEFINE T == {n \in 1..last : ~(f[n] > 0)}
  <2>1. T \subseteq Nat
    OBVIOUS
  <2> SUFFICES ASSUME T # {} PROVE FALSE
    BY <1>3
  <2>2. PICK n \in T : \A k \in Nat : k < n => k \notin T
    <3> HIDE DEF T
    <3> QED
      BY <2>1, LeastOne
  <2>3. n - 1 \in Nat /\ n - 1 < n /\ f[n] = f[n - 1] + ns[n] /\ ns[n] \in Int /\ ns[n] > 0
    BY <1>1, <1>3, <2>2
  <2>4. f[n - 1] \in Int /\ f[n - 1] >= 0
    <3>1. CASE n = 1
      BY <1>1, <3>1
    <3>2. CASE n # 1
      <4>1. n - 1 \in 1..last /\ n - 1 \in 0..last /\ f[n - 1] > 0
        BY <2>2, <2>3, <3>2
      <4> QED
        BY <1>1, <4>1
    <3> QED
      BY <3>1, <3>2
  <2>5. f[n] > 0
    BY <2>3, <2>4
  <2> QED
    BY <2>2, <2>5
<1> QED
  BY <1>1, <1>2, <1>3

\* A requirement of the source is represented, and whatever was stays.
LEMMA RepresentedKeeps ==
    ASSUME NEW T, NEW I, NEW reqs \in Seq(Requirement(T, I)), NEW text \in T
    PROVE  LET new == Represented(reqs, text) IN
           /\ new \in Seq(Requirement(T, I))
           /\ reqs # << >> => new # << >>
           /\ text \in Texts(new) /\ Texts(reqs) \subseteq Texts(new)
<1>1. CASE Uncovered(reqs, text)
  <2>1. Omitted(text) \in Requirement(T, I) /\ Omitted(text).text = text
    BY DEF Omitted, Requirement, DefaultImportance
  <2>2. PICK n \in Nat : n = Len(reqs) /\ DOMAIN reqs = 1..n
    BY LenProperties
  <2>3. PICK new : new = Represented(reqs, text)
    OBVIOUS
  <2>4. /\ new \in Seq(Requirement(T, I)) /\ DOMAIN new = 1..(n + 1)
        /\ \A k \in 1..n : new[k] = reqs[k]
        /\ new[n + 1] = Omitted(text)
    BY <1>1, <2>1, <2>2, <2>3, AppendProperties, LenProperties DEF Represented
  <2>5. text \in Texts(new)
    <3>1. n + 1 \in DOMAIN new /\ new[n + 1].text = text
      BY <2>1, <2>4
    <3> QED
      BY <3>1 DEF Texts
  <2>6. Texts(reqs) \subseteq Texts(new)
    <3>1. \A k \in DOMAIN reqs : k \in DOMAIN new /\ new[k].text = reqs[k].text
      BY <2>2, <2>4
    <3> QED
      BY <3>1 DEF Texts
  <2>7. new # << >>
    BY <2>4
  <2> QED
    BY <2>3, <2>4, <2>5, <2>6, <2>7
<1>2. CASE ~Uncovered(reqs, text)
  BY <1>2 DEF Represented, Uncovered
<1> QED
  BY <1>1, <1>2

\* A function f represents the requirements of the source one by one.
Represents(f, reqs, source, last) ==
    /\ f[0] = reqs
    /\ \A n \in 1..last : n - 1 \in 0..last /\ f[n] = Represented(f[n - 1], source[n])
    /\ reqs # << >> => Covered(reqs, source) = f[last]

\* The analysis that has been covered is the last of a sequence, one for each requirement
\* of the source.
LEMMA CoveredUnfolds ==
    ASSUME NEW T, NEW I, NEW R, R = Requirement(T, I), NEW reqs \in Seq(R),
           NEW last \in Nat, NEW source \in [1..last -> T]
    PROVE  \E f \in [0..last -> Seq(R)] : Represents(f, reqs, source, last)
<1> DEFINE S == Seq(R)
           next(m, n) == IF n \in 1..last THEN Represented(m, source[n]) ELSE m
           step == [m \in S |-> [n \in Nat |-> next(m, n)]]
           Covers(g) == g = [n \in 0..last |-> IF n = 0 THEN reqs
                                               ELSE Represented(g[n - 1], source[n])]
<1>1. Len(source) = last
  BY LenProperties
<1>2. \A m \in S, n \in Nat : next(m, n) \in S
  BY RepresentedKeeps
<1>3. reqs # << >> => Covered(reqs, source) = (CHOOSE g : Covers(g))[last]
  BY <1>1 DEF Covered
<1>4. reqs \in S
  OBVIOUS
<1> HIDE DEF next, S
<1>5. step \in [S -> [Nat -> S]]
  BY <1>2
<1> HIDE DEF step
<1>6. PICK f \in [Nat -> S] : Recurs(f, reqs, step)
  <2> HIDE DEF Covers
  <2> QED
    BY <1>4, <1>5, Recursion, ZenonT(30)
<1>7. \A n \in 1..last : n - 1 \in 0..last /\ f[n] = Represented(f[n - 1], source[n])
  <2> TAKE n \in 1..last
  <2>1. n - 1 \in 0..last /\ n - 1 \in Nat /\ n \in Nat /\ n # 0
    OBVIOUS
  <2>2. f[n - 1] \in S
    BY <2>1
  <2>3. step[f[n - 1]][n] = next(f[n - 1], n)
    BY <2>1, <2>2 DEF step
  <2>4. f[n] = step[f[n - 1]][n]
    BY <1>6, <2>1 DEF Recurs
  <2> QED
    BY <2>1, <2>3, <2>4 DEF next
<1> DEFINE h == [n \in 0..last |-> f[n]]
<1>8. h \in [0..last -> S] /\ h[0] = reqs /\ 0 \in 0..last /\ last \in 0..last
  BY <1>6 DEF Recurs
<1>9. \A n \in 1..last : /\ n \in 0..last /\ n - 1 \in 0..last
                         /\ h[n] = Represented(h[n - 1], source[n])
  BY <1>7
<1> HIDE DEF h
<1>10. Covers(h)
  <2>1. \A n \in 0..last : n # 0 => n \in 1..last
    OBVIOUS
  <2> QED
    BY <1>8, <1>9, <2>1
<1>11. ASSUME NEW g, Covers(g) PROVE g[last] = h[last]
  <2> DEFINE U == {n \in 0..last : g[n] # h[n]}
  <2>1. U \subseteq Nat
    OBVIOUS
  <2> SUFFICES ASSUME U # {} PROVE FALSE
    BY <1>8
  <2>2. PICK n \in U : \A k \in Nat : k < n => k \notin U
    <3> HIDE DEF U
    <3> QED
      BY <2>1, LeastOne
  <2>3. n # 0
    BY <1>8, <1>11
  <2>4. n \in 1..last /\ n - 1 \in Nat /\ n - 1 < n /\ n - 1 \in 0..last
    BY <2>3
  <2>5. g[n - 1] = h[n - 1]
    BY <2>2, <2>4
  <2>6. g[n] = Represented(g[n - 1], source[n])
    BY <1>11, <2>3
  <2> QED
    BY <1>9, <2>4, <2>5, <2>6
<1>12. reqs # << >> => Covered(reqs, source) = h[last]
  <2> HIDE DEF Covers
  <2> QED
    BY <1>3, <1>10, <1>11
<1> QED
  BY <1>8, <1>9, <1>12 DEF S, Represents

\* Whatever the model has left out is in the analysis.
LEMMA CoveredKeeps ==
    ASSUME NEW T, NEW I, NEW reqs \in Seq(Requirement(T, I)), reqs # << >>,
           NEW last \in Nat, NEW source \in [1..last -> T]
    PROVE  LET new == Covered(reqs, source) IN
           /\ new \in Seq(Requirement(T, I)) /\ new # << >>
           /\ \A k \in 1..last : source[k] \in Texts(new)
<1>0. PICK R : R = Requirement(T, I)
  OBVIOUS
<1>1. PICK f \in [0..last -> Seq(R)] : Represents(f, reqs, source, last)
  BY <1>0, CoveredUnfolds
<1> DEFINE Good(n) == f[n] # << >> /\ \A k \in 1..n : source[k] \in Texts(f[n])
           U == {n \in 0..last : ~Good(n)}
<1>2. Good(0)
  BY <1>1 DEF Represents
<1>3. ASSUME NEW n \in 1..last, Good(n - 1) PROVE Good(n)
  <2>1. /\ n - 1 \in 0..last /\ f[n - 1] \in Seq(Requirement(T, I)) /\ source[n] \in T
        /\ f[n] = Represented(f[n - 1], source[n])
    BY <1>0, <1>1 DEF Represents
  <2>2. /\ f[n] # << >> /\ source[n] \in Texts(f[n])
        /\ Texts(f[n - 1]) \subseteq Texts(f[n])
    BY <1>3, <2>1, RepresentedKeeps
  <2>3. \A k \in 1..n : k = n \/ k \in 1..(n - 1)
    OBVIOUS
  <2> QED
    BY <1>3, <2>2, <2>3
<1>4. U = {}
  <2>1. U \subseteq Nat
    OBVIOUS
  <2> SUFFICES ASSUME U # {} PROVE FALSE
    OBVIOUS
  <2>2. PICK n \in U : \A k \in Nat : k < n => k \notin U
    <3> HIDE DEF U
    <3> QED
      BY <2>1, LeastOne
  <2> HIDE DEF Good
  <2>3. n \in 0..last /\ ~Good(n) /\ n # 0
    BY <1>2
  <2>4. n \in 1..last /\ n - 1 \in Nat /\ n - 1 < n /\ n - 1 \in 0..last
    BY <2>3
  <2>5. Good(n - 1)
    BY <2>2, <2>4
  <2> QED
    BY <1>3, <2>3, <2>4, <2>5
<1>5. last \in 0..last /\ Good(last)
  <2>1. last \in 0..last
    OBVIOUS
  <2> HIDE DEF Good
  <2> QED
    BY <1>4, <2>1
<1> QED
  BY <1>0, <1>1, <1>5 DEF Represents

-----------------------------------------------------------------------------
(* Credit.                                                                 *)

\* What a requirement cites in the end is the candidate's own, and nothing earns credit
\* that cites nothing.
EvidenceOf(evidence) == {evidence[k].id : k \in DOMAIN evidence}

LEMMA GroundedSound ==
    ASSUME NEW T, NEW I, NEW req \in Requirement(T, I), NEW evidence
    PROVE  LET g == Grounded(req, evidence) IN
           /\ g \in Requirement(T, EvidenceOf(evidence))
           /\ g.text = req.text
           /\ g.ids = {} => g.type = "NONE"
<1> DEFINE direct == SkillMatches(req.text, evidence)
           cited == Own(req.ids, evidence)
           any == TransferableMatches(req.text, evidence)
<1>1. direct \subseteq EvidenceOf(evidence) /\ any \subseteq EvidenceOf(evidence)
  BY DEF SkillMatches, TransferableMatches, FirstThree, EvidenceOf
<1>2. cited \subseteq EvidenceOf(evidence)
  BY DEF Own, EvidenceOf
<1>3. /\ CitedType(req) \in {"DIRECT", "TRANSFERABLE", "WEAK", "NONE", "UNKNOWN"}
      /\ req \in [text : T, importance : {"CRITICAL", "HIGH", "MEDIUM", "LOW"},
                  status : {"MATCH", "PARTIAL", "GAP", "UNKNOWN"},
                  type : {"DIRECT", "TRANSFERABLE", "WEAK", "NONE", "UNKNOWN"}, ids : SUBSET I]
  BY DEF CitedType, Requirement
<1>4. ASSUME NEW ids \in SUBSET EvidenceOf(evidence),
             NEW status \in {"MATCH", "PARTIAL", "GAP", "UNKNOWN"},
             NEW type \in {"DIRECT", "TRANSFERABLE", "WEAK", "NONE", "UNKNOWN"},
             ids = {} => type = "NONE"
      PROVE  LET g == Ground(req, ids, status, type) IN
             /\ g \in Requirement(T, EvidenceOf(evidence)) /\ g.text = req.text
             /\ g.ids = {} => g.type = "NONE"
  BY <1>3, <1>4 DEF Ground, Requirement
<1>5. PICK ids \in SUBSET EvidenceOf(evidence),
           status \in {"MATCH", "PARTIAL", "GAP", "UNKNOWN"},
           type \in {"DIRECT", "TRANSFERABLE", "WEAK", "NONE", "UNKNOWN"} :
        /\ Grounded(req, evidence) = Ground(req, ids, status, type)
        /\ ids = {} => type = "NONE"
  <2> HIDE DEF direct, cited, any
  <2>1. CASE direct # {}
    <3>1. \/ Grounded(req, evidence) = Ground(req, direct, "PARTIAL", "WEAK")
          \/ Grounded(req, evidence) = Ground(req, direct, "MATCH", "DIRECT")
      BY <2>1 DEF Grounded, direct
    <3> QED
      BY <1>1, <2>1, <3>1
  <2>2. CASE direct = {} /\ cited # {}
    <3>1. Grounded(req, evidence) = Ground(req, cited, req.status, CitedType(req))
      BY <2>2 DEF Grounded, direct, cited
    <3> QED
      BY <1>2, <1>3, <2>2, <3>1
  <2>3. CASE direct = {} /\ cited = {}
    <3>1. \/ any # {} /\ Grounded(req, evidence) = Ground(req, any, "PARTIAL", "TRANSFERABLE")
          \/ Grounded(req, evidence) = Ground(req, {}, req.status, "NONE")
      BY <2>3 DEF Grounded, direct, cited, any
    <3> QED
      BY <1>1, <1>3, <3>1
  <2> QED
    BY <2>1, <2>2, <2>3
<1> QED
  BY <1>4, <1>5

LEMMA RoundedIsWhole ==
    ASSUME NEW n \in Int, NEW d \in Nat \ {0}
    PROVE  Rounded(n, d) \in Int /\ Rounded(0, d) = 0
<1>1. n \div d \in Int /\ n % d \in Int
  OBVIOUS
<1>2. 0 \div d = 0 /\ 0 % d = 0
  OBVIOUS
<1> QED
  BY <1>1, <1>2 DEF Rounded

\* An analysis is scored requirement by requirement, with nothing for a type that earns
\* nothing, and the score is a percentage.
LEMMA ScoredSound ==
    ASSUME NEW T, NEW I, NEW last \in Nat, last # 0,
           NEW reqs \in [1..last -> Requirement(T, I)]
    PROVE  LET scored == Scored(reqs) IN
           /\ DOMAIN scored = 1..last
           /\ \A k \in 1..last : /\ scored[k].req = reqs[k]
                                 /\ reqs[k].type = "NONE" => scored[k].contribution = 0
           /\ RequirementScore(scored) \in 0..100
<1> DEFINE weights == [k \in 1..last |-> Weight(reqs[k])]
           total == SumOf(weights)
           parts == [k \in 1..last |-> Contribution(reqs[k], total)]
<1>1. \A k \in 1..last : /\ Weight(reqs[k]) \in {1, 2, 3, 4}
                         /\ Credit(reqs[k]) \in {0, 25, 55, 100}
                         /\ reqs[k].type = "NONE" => Credit(reqs[k]) = 0
  BY DEF Weight, Credit, Requirement
<1>2. weights \in [1..last -> Int] /\ \A k \in 1..last : weights[k] > 0
  BY <1>1
<1>3. total \in Nat \ {0}
  <2> HIDE DEF weights
  <2>1. total \in Int /\ total > 0
    BY <1>2, SumsOfNumbers
  <2> QED
    BY <2>1
<1>4. \A k \in 1..last : /\ Contribution(reqs[k], total) \in Int
                         /\ reqs[k].type = "NONE" => Contribution(reqs[k], total) = 0
  <2> TAKE k \in 1..last
  <2> HIDE DEF total
  <2>1. Weight(reqs[k]) * 10000 \in Int
    BY <1>1
  <2>2. Rounded(Weight(reqs[k]) * 10000, total) \in Int
    BY <1>3, <2>1, RoundedIsWhole
  <2>3. PICK m \in Int : m = Rounded(Weight(reqs[k]) * 10000, total)
    BY <2>2
  <2>4. m * Credit(reqs[k]) \in Int /\ (Credit(reqs[k]) = 0 => m * Credit(reqs[k]) = 0)
    BY <1>1
  <2>5. 100 \in Nat \ {0}
    OBVIOUS
  <2>6. Contribution(reqs[k], total) = Rounded(m * Credit(reqs[k]), 100)
    BY <2>3 DEF Contribution
  <2>7. Rounded(m * Credit(reqs[k]), 100) \in Int /\ Rounded(0, 100) = 0
    BY <2>4, <2>5, RoundedIsWhole
  <2> QED
    BY <1>1, <2>4, <2>6, <2>7
<1>5. Scored(reqs) = [k \in 1..last |-> [req |-> reqs[k],
                                         contribution |-> Contribution(reqs[k], total)]]
  BY DEF Scored
<1>6. RequirementScore(Scored(reqs)) = Clamped(Rounded(SumOf(parts), 100))
  <2>1. [k \in DOMAIN Scored(reqs) |-> Scored(reqs)[k].contribution] = parts
    <3> HIDE DEF total
    <3> QED
      BY <1>5
  <2> HIDE DEF parts
  <2> QED
    BY <2>1 DEF RequirementScore
<1>7. Clamped(Rounded(SumOf(parts), 100)) \in 0..100
  <2>1. parts \in [1..last -> Int]
    BY <1>4
  <2> HIDE DEF parts
  <2>2. SumOf(parts) \in Int
    BY <2>1, SumsOfNumbers
  <2>3. Rounded(SumOf(parts), 100) \in Int
    BY <2>2, RoundedIsWhole
  <2>4. \A s \in Int : Clamped(s) \in 0..100
    BY DEF Clamped
  <2> QED
    BY <2>3, <2>4
<1> HIDE DEF total
<1> QED
  BY <1>4, <1>5, <1>6, <1>7

\* What CreditNeedsEvidence says of one match.
Credited(m, evidence, requirements) ==
    /\ \A k \in DOMAIN m.analysis :
         m.analysis[k].contribution > 0 =>
           m.analysis[k].req.ids # {} /\ m.analysis[k].req.ids \subseteq EvidenceOf(evidence)
    /\ m.analysis # << >> =>
         /\ \A k \in DOMAIN requirements :
              \E i \in DOMAIN m.analysis : m.analysis[i].req.text = requirements[k]
         /\ m.score \in 0..100

\* Whatever the model proposes, credit rests on evidence.
LEMMA AnsweredIsCredited ==
    ASSUME NEW c, NEW j, NEW p, IsAnalysis(p.reqs), IsSequence(j.requirements)
    PROVE  Credited(MatchAnswered(c, j, p), c.evidence, j.requirements)
<1> DEFINE T == Texts(p.reqs) \cup {j.requirements[k] : k \in DOMAIN j.requirements}
           I == Cited(p.reqs)
           E == EvidenceOf(c.evidence)
           reqs == Covered(p.reqs, j.requirements)
           grounded == [k \in DOMAIN reqs |-> Grounded(reqs[k], c.evidence)]
           m == MatchAnswered(c, j, p)
<1>1. p.reqs \in Seq(Requirement(T, I))
  <2>1. Requirement(Texts(p.reqs), I) \subseteq Requirement(T, I)
    BY DEF Requirement
  <2>2. p.reqs \in Seq(Requirement(Texts(p.reqs), I))
    BY DEF IsAnalysis
  <2> HIDE DEF T, I
  <2> QED
    BY <2>1, <2>2
<1>2. PICK last \in Nat : last = Len(j.requirements) /\ j.requirements \in [1..last -> T]
  <2>1. j.requirements \in Seq(T)
    <3>1. {j.requirements[k] : k \in DOMAIN j.requirements} \subseteq T
      OBVIOUS
    <3> HIDE DEF T
    <3> QED
      BY <3>1 DEF IsSequence
  <2> HIDE DEF T
  <2> QED
    BY <2>1, LenProperties
<1>3. m.analysis = Scored(grounded)
      /\ (reqs # << >> => m.score = RequirementScore(Scored(grounded)))
  BY DEF MatchAnswered
<1>4. CASE p.reqs = << >>
  <2>1. reqs = << >>
    BY <1>4 DEF Covered
  <2>2. grounded = << >>
    BY <2>1
  <2>3. Scored(grounded) = << >>
    <3> HIDE DEF grounded
    <3> QED
      BY <2>2 DEF Scored
  <2>4. m.analysis = << >>
    BY <1>3, <2>3
  <2>5. DOMAIN m.analysis = {}
    <3> HIDE DEF m
    <3> QED
      BY <2>4
  <2>6. Credited(m, c.evidence, j.requirements)
    <3> HIDE DEF m
    <3> QED
      BY <2>4, <2>5 DEF Credited
  <2> QED
    BY <2>6
<1>5. CASE p.reqs # << >>
  <2>1. /\ reqs \in Seq(Requirement(T, I)) /\ reqs # << >>
        /\ \A k \in 1..last : j.requirements[k] \in Texts(reqs)
    <3> HIDE DEF T, I
    <3> QED
      BY <1>1, <1>2, <1>5, CoveredKeeps
  <2>2. PICK n \in Nat : n # 0 /\ DOMAIN reqs = 1..n
    <3> HIDE DEF reqs, T, I
    <3> QED
      BY <2>1, LenProperties, EmptySeq
  <2>3. \A k \in 1..n : reqs[k] \in Requirement(T, I)
    <3> HIDE DEF reqs, T, I
    <3> QED
      BY <2>1, <2>2
  <2>4. \A k \in 1..n : LET g == Grounded(reqs[k], c.evidence) IN
                          /\ g \in Requirement(T, E) /\ g.text = reqs[k].text
                          /\ g.ids = {} => g.type = "NONE"
    <3> HIDE DEF reqs, T, I
    <3> QED
      BY <2>3, GroundedSound
  <2>5. /\ grounded \in [1..n -> Requirement(T, E)]
        /\ \A k \in 1..n : /\ grounded[k].text = reqs[k].text
                           /\ grounded[k].ids = {} => grounded[k].type = "NONE"
    <3> HIDE DEF reqs, T, E
    <3> QED
      BY <2>2, <2>4
  <2>6. /\ DOMAIN m.analysis = 1..n
        /\ \A k \in 1..n : /\ m.analysis[k].req = grounded[k]
                           /\ grounded[k].type = "NONE" => m.analysis[k].contribution = 0
        /\ m.score \in 0..100
    <3> HIDE DEF grounded, T, E, m, reqs
    <3>1. grounded \in [1..n -> Requirement(T, E)] /\ n \in Nat /\ n # 0
      BY <2>2, <2>5
    <3>2. /\ DOMAIN Scored(grounded) = 1..n
          /\ \A k \in 1..n : /\ Scored(grounded)[k].req = grounded[k]
                             /\ grounded[k].type = "NONE" => Scored(grounded)[k].contribution = 0
          /\ RequirementScore(Scored(grounded)) \in 0..100
      BY <3>1, ScoredSound
    <3>3. m.analysis = Scored(grounded) /\ m.score = RequirementScore(Scored(grounded))
      BY <1>3, <2>1
    <3> QED
      BY <3>2, <3>3
  <2>7. ASSUME NEW k \in 1..n, m.analysis[k].contribution > 0
        PROVE  m.analysis[k].req.ids # {} /\ m.analysis[k].req.ids \subseteq E
    <3>1. grounded[k] \in Requirement(T, E)
      <4> HIDE DEF grounded, T, E, m
      <4> QED
        BY <2>5
    <3>2. m.analysis[k].req = grounded[k]
      BY <2>6
    <3>3. grounded[k].ids \subseteq E
      <4> HIDE DEF grounded, T, E, m
      <4> QED
        BY <3>1 DEF Requirement
    <3>4. grounded[k].ids # {}
      <4> HIDE DEF grounded, T, E, m
      <4> QED
        BY <2>5, <2>6, <2>7
    <3> HIDE DEF grounded, m, E
    <3> QED
      BY <3>2, <3>3, <3>4
  <2>8. ASSUME NEW k \in DOMAIN j.requirements
        PROVE  \E i \in DOMAIN m.analysis : m.analysis[i].req.text = j.requirements[k]
    <3>1. j.requirements[k] \in Texts(reqs)
      <4> HIDE DEF T, reqs
      <4> QED
        BY <1>2, <2>1
    <3>2. PICK i \in 1..n : reqs[i].text = j.requirements[k]
      <4> HIDE DEF reqs
      <4> QED
        BY <2>2, <3>1 DEF Texts
    <3> HIDE DEF grounded, m, reqs
    <3> QED
      BY <2>5, <2>6, <3>2
  <2>9. Credited(m, c.evidence, j.requirements)
    <3> HIDE DEF m
    <3> QED
      BY <2>6, <2>7, <2>8 DEF Credited
  <2> QED
    BY <2>9
<1> QED
  BY <1>4, <1>5

LEMMA FailedIsCredited ==
    ASSUME NEW c, NEW j
    PROVE  Credited(MatchFailed(c, j), c.evidence, j.requirements)
<1>1. MatchFailed(c, j).analysis = << >>
  BY DEF MatchFailed
<1> HIDE DEF MatchFailed
<1> QED
  BY <1>1 DEF Credited

\* The job stays one of the postings, whatever becomes of its score.
JobKnown == "posting" \in DOMAIN job /\ job.posting \in Postings

CreditInv == JobKnown /\ CreditNeedsEvidence

LEMMA CreditedIsEnough ==
    CreditNeedsEvidence
      <=> (result.op = "match" =>
             Credited(result.match, result.candidate.evidence, job.posting.requirements))
BY DEF CreditNeedsEvidence, Credited, EvidenceOf

LEMMA MatchedIsCredited ==
    ASSUME JobKnown, Matched
    PROVE  CreditInv'
<1> DEFINE asked == job.posting.requirements
<1>1. JobView.requirements = asked /\ IsSequence(asked)
  BY AssessmentAssumption DEF JobView, JobKnown
<1>2. PICK match : /\ Credited(match, task.candidate.evidence, asked)
                   /\ MatchEnds(match)
  <2>1. CASE call.phase = "failed"
    <3>1. MatchEnds(MatchFailed(task.candidate, JobView))
      BY <2>1 DEF Matched
    <3>2. Credited(MatchFailed(task.candidate, JobView), task.candidate.evidence, asked)
      BY <1>1, FailedIsCredited
    <3> QED
      BY <3>1, <3>2
  <2>2. CASE call.phase # "failed"
    <3>1. PICK p \in Proposals : MatchEnds(MatchAnswered(task.candidate, JobView, p))
      BY <2>2 DEF Matched
    <3>2. IsAnalysis(p.reqs)
      BY AssessmentAssumption
    <3>3. Credited(MatchAnswered(task.candidate, JobView, p), task.candidate.evidence, asked)
      BY <1>1, <3>2, AnsweredIsCredited
    <3> QED
      BY <3>1, <3>3
  <2> QED
    BY <2>1, <2>2
<1>3. /\ result' = [op |-> "match", content |-> call.content, match |-> match,
                    candidate |-> task.candidate]
      /\ job' = Kept(match)
  BY <1>2 DEF MatchEnds, Finish
<1>4. DOMAIN job' = DOMAIN job /\ ("posting" \in DOMAIN job => job'.posting = job.posting)
  BY <1>3 DEF Kept
<1>5. JobKnown' /\ job'.posting.requirements = asked
  BY <1>4 DEF JobKnown
<1>6. Credited(result'.match, result'.candidate.evidence, job'.posting.requirements)
  BY <1>2, <1>3, <1>5
<1>7. CreditNeedsEvidence'
  BY <1>6, CreditedIsEnough DEF CreditNeedsEvidence, Credited, EvidenceOf
<1> QED
  BY <1>5, <1>7 DEF CreditInv

LEMMA CreditStands ==
    ASSUME CreditInv, UNCHANGED job, result' = result \/ result'.op # "match"
    PROVE  CreditInv'
<1>1. JobKnown'
  BY DEF CreditInv, JobKnown
<1>2. CASE result' = result
  BY <1>1, <1>2 DEF CreditInv, CreditNeedsEvidence
<1>3. CASE result'.op # "match"
  BY <1>1, <1>3 DEF CreditInv, CreditNeedsEvidence
<1> QED
  BY <1>2, <1>3

\* The results that the properties below are about.
Told == {"match", "text", "find", "score"}

Scoring == \E engine \in BOOLEAN, similarity \in Similarities : ScoreEnds(engine, similarity)

LEMMA ScoringLeavesTheJob ==
    ASSUME Scoring
    PROVE  UNCHANGED job /\ result'.op = "score"
BY DEF Scoring, ScoreEnds, Alone, Finish

\* Only a normalisation and a match touch the job, and only a match returns one.
LEMMA OthersLeaveTheJob ==
    ASSUME WorkNext \/ UNCHANGED vars, ~Normalised, ~Matched, ~Written, ~Found, ~Scoring
    PROVE  UNCHANGED job /\ (result' = result \/ result'.op \notin Told)
<1> USE DEF Told
<1>1. ASSUME NEW t, Start(t)
      PROVE  UNCHANGED job /\ result'.op \notin Told
  BY <1>1 DEF Start, NoResult
<1>2. CASE Next
  <2>1. ASSUME NEW op \in MatchOps, NEW c \in Candidates, StartMatch(op, c)
        PROVE  UNCHANGED job /\ result'.op \notin Told
    BY <1>1, <2>1 DEF StartMatch
  <2>2. ASSUME NEW p \in Profiles, NEW q \in FormQuestions, StartQuestion(p, q)
        PROVE  UNCHANGED job /\ result'.op \notin Told
    BY <1>1, <2>2 DEF StartQuestion, StartApart
  <2>3. CASE StartText
    BY <1>1, <2>3 DEF StartText, StartApart
  <2>4. ASSUME NEW found \in SUBSET {"warning", "blocker"}, StartReview(found)
        PROVE  UNCHANGED job /\ result'.op \notin Told
    BY <1>1, <2>4 DEF StartReview, StartApart
  <2>5. ASSUME NEW a \in Asks, StartOther(a)
        PROVE  UNCHANGED job /\ result'.op \notin Told
    BY <1>1, <2>5 DEF StartOther, StartApart
  <2>6. ASSUME NEW keyed \in BOOLEAN,
               AskMatch(keyed) \/ AskAnswer \/ AskReview(keyed) \/ AskOther \/ CallStep
        PROVE  UNCHANGED job /\ result' = result
    BY <2>6 DEF AskMatch, AskAnswer, AskReview, AskOther, CallStep, Ask
  <2>7. ASSUME NEW keyed \in BOOLEAN, AskText(keyed)
        PROVE  UNCHANGED job /\ result'.op \notin Told
    BY <2>7 DEF AskText, NoResult
  <2>8. CASE AnsweredAlone \/ Answered \/ OtherEnds
    BY <2>8 DEF AnsweredAlone, Answered, AnswerEnds, OtherEnds, Finish
  <2>9. CASE Reviewed
    <3>1. PICK verdict, severities : ReviewEnds(verdict, severities)
      BY <2>9 DEF Reviewed
    <3>2. result'.op = "review"
      BY <3>1 DEF ReviewEnds, Finish
    <3> QED
      BY <2>9, <3>2 DEF Reviewed
  <2> QED
    BY <1>2, <2>1, <2>2, <2>3, <2>4, <2>5, <2>6, <2>7, <2>8, <2>9 DEF Next
<1>3. ASSUME NEW text, NEW posting, NEW engine,
             \/ StartImport(text) \/ StartScoring(text, posting)
             \/ StartOptimize(text, posting, engine)
             \/ StartFind(text) \/ StartCard(text, posting) \/ StartGenerate(text, posting)
      PROVE  UNCHANGED job /\ result'.op \notin Told
  BY <1>1, <1>3 DEF StartImport, StartScoring, StartOptimize, StartFind, StartCard,
                    StartGenerate, StartAlone, StartApart
<1>4. ASSUME NEW keyed, AskImport \/ AskOptimize(keyed)
      PROVE  UNCHANGED job /\ result' = result
  BY <1>4 DEF AskImport, AskOptimize, Ask
<1>5. ASSUME NEW rendered, Generated(rendered) \/ Optimised(rendered)
      PROVE  UNCHANGED job /\ result'.op \notin Told
  BY <1>5 DEF Generated, Optimised, Alone, Finish
<1>6. CASE Imported \/ Edited \/ Drawn
  <2>1. CASE Imported
    BY <2>1 DEF Imported, ImportEnds, Finish
  <2>2. CASE Edited \/ Drawn
    BY <2>2 DEF Edited, Drawn, Alone, Finish
  <2> QED
    BY <1>6, <2>1, <2>2
<1>7. CASE UNCHANGED vars
  BY <1>7 DEF vars
<1> QED
  BY <1>2, <1>3, <1>4, <1>5, <1>6, <1>7 DEF WorkNext, Scoring

-----------------------------------------------------------------------------
(* Protected names.                                                        *)

LEMMA SpanProperties ==
    ASSUME NEW text \in Seq(Vocabulary), NEW n \in Nat, NEW at \in Starts(text, n)
    PROVE  /\ at \in 1..Len(text) + 1 /\ at + n - 1 <= Len(text)
           /\ Span(text, at, n) \in Seq(Vocabulary) /\ Len(Span(text, at, n)) = n
           /\ \A k \in 1..n : Span(text, at, n)[k] = text[at + k - 1]
<1>1. Len(text) \in Nat /\ \A i \in 1..Len(text) : text[i] \in Vocabulary
  BY LenProperties, ElementOfSeq
<1>2. at \in Nat /\ at >= 1 /\ at <= Len(text) - n + 1
  BY <1>1 DEF Starts
<1>3. \A i \in at..(at + n - 1) : text[i] \in Vocabulary
  BY <1>1, <1>2
<1>4. at \in Int /\ at + n - 1 \in Int /\ (at + n - 1) - at + 1 = n
  BY <1>2
<1>5. /\ Span(text, at, n) \in Seq(Vocabulary)
      /\ Len(Span(text, at, n)) = IF at <= at + n - 1 THEN (at + n - 1) - at + 1 ELSE 0
      /\ \A k \in 1..((at + n - 1) - at + 1) : Span(text, at, n)[k] = text[at + k - 1]
  BY <1>3, <1>4, SubSeqProperties DEF Span
<1> QED
  BY <1>1, <1>2, <1>4, <1>5

\* Equal, or a letter or two apart.
Close(v, w) == v = w \/ {v, w} \in Alike

\* A name that is near another one is so word for word.
LEMMA Ratios ==
    ASSUME NEW s \in Seq(Vocabulary), NEW t \in Seq(Vocabulary), Len(s) = Len(t), Len(s) > 0
    PROVE  /\ Ratio(s, t) \in Int /\ Ratio(s, t) <= 100
           /\ Ratio(s, t) # 0 => \A k \in 1..Len(s) : Close(Fold(s)[k], Fold(t)[k])
           /\ Ratio(s, s) = 100
<1> DEFINE n == Len(s)
           drifted(u) == {k \in DOMAIN s : Fold(s)[k] # Fold(u)[k]}
           share(u) == (10 * Cardinality(drifted(u))) \div n
<1>1. n \in Nat /\ n > 0 /\ DOMAIN s = 1..n
  BY LenProperties
<1>2. IsFiniteSet(drifted(t)) /\ Cardinality(drifted(t)) \in Nat
  <2>1. IsFiniteSet(DOMAIN s)
    BY <1>1, FS_Interval
  <2>2. IsFiniteSet(drifted(t))
    BY <2>1, FS_Subset
  <2> QED
    BY <2>2, FS_CardinalityType
<1>3. share(t) \in Int /\ share(t) >= 0
  <2>1. PICK m \in Nat : m = 10 * Cardinality(drifted(t))
    <3> HIDE DEF drifted
    <3>1. 10 * Cardinality(drifted(t)) \in Nat
      BY <1>2
    <3> QED
      BY <3>1
  <2>2. m \div n \in Int /\ m \div n >= 0
    <3> HIDE DEF n
    <3> QED
      BY <1>1
  <2> QED
    BY <2>1, <2>2
<1>4. \/ Ratio(s, t) = 0
      \/ /\ Ratio(s, t) = 100 - share(t)
         /\ \A k \in drifted(t) : {Fold(s)[k], Fold(t)[k]} \in Alike
  BY DEF Ratio
<1>5. Ratio(s, s) = 100
  <2>1. drifted(s) = {}
    OBVIOUS
  <2>2. Cardinality(drifted(s)) = 0
    BY <2>1, FS_EmptySet
  <2>3. (10 * Cardinality(drifted(s))) \div n = 0
    BY <1>1, <2>2
  <2>4. Ratio(s, s) = 100 - share(s)
    BY <2>1 DEF Ratio
  <2> QED
    BY <2>3, <2>4
<1>6. Ratio(s, t) \in Int /\ Ratio(s, t) <= 100
  <2> HIDE DEF share
  <2> QED
    BY <1>3, <1>4
<1>7. ASSUME Ratio(s, t) # 0, NEW k \in 1..Len(s)
      PROVE  Close(Fold(s)[k], Fold(t)[k])
  <2>1. Fold(s)[k] # Fold(t)[k] => k \in drifted(t)
    BY <1>1
  <2> HIDE DEF drifted
  <2> QED
    BY <1>4, <1>7, <2>1 DEF Close
<1> QED
  BY <1>5, <1>6, <1>7

LEMMA NearIsClose ==
    \A s, t \in Seq(Vocabulary) : Len(s) = Len(t) /\ Len(s) > 0 /\ Ratio(s, t) # 0
        => \A k \in 1..Len(s) : Close(Fold(s)[k], Fold(t)[k])
BY Ratios

LEMMA MinIsMember ==
    ASSUME NEW T \in SUBSET Nat, T # {}
    PROVE  Min(T) \in T
<1>1. PICK m \in T : \A k \in Nat : k < m => k \notin T
  BY LeastOne
<1>2. \A k \in T : m <= k
  BY <1>1
<1>3. \E x \in T : \A y \in T : x <= y
  BY <1>2
<1> QED
  BY <1>3 DEF Min

\* What is written over is a span that is the name in other letters, or near it and
\* near no other name.
LEMMA VariantIsASpan ==
    ASSUME NEW text \in Seq(Vocabulary), NEW d \in Seq(Vocabulary), Len(d) > 0, NEW C,
           EntityVariant(text, d, C).safe
    PROVE  LET at == EntityVariant(text, d, C).at
               span == Span(text, at, Len(d))
           IN  /\ at \in Starts(text, Len(d))
               /\ \/ Fold(span) = Fold(d)
                  \/ Ratio(span, d) >= NearRatio /\ Unambiguous(span, Ratio(span, d), C)
<1> DEFINE width == Len(d)
           ratio(at) == Ratio(Span(text, at, width), d)
           recased == {at \in Starts(text, width) : Fold(Span(text, at, width)) = Fold(d)}
           near == {at \in Starts(text, width) : ratio(at) >= NearRatio}
           best == {at \in near : \A other \in near : ratio(other) <= ratio(at)}
<1>1. width \in Nat /\ Len(text) \in Nat /\ Starts(text, width) \in SUBSET Nat
  <2>1. width \in Nat /\ Len(text) \in Nat
    BY LenProperties
  <2> QED
    BY <2>1 DEF Starts
<1>2. ~NoVariant.safe
  BY DEF NoVariant
<1>3. CASE recased # {}
  <2>1. Min(recased) \in recased
    BY <1>1, <1>3, MinIsMember
  <2>2. EntityVariant(text, d, C)
          = [at |-> Min(recased), safe |-> TRUE, difference |-> "CASING", ratio |-> 100]
    BY <1>2, <1>3 DEF EntityVariant
  <2> HIDE DEF EntityVariant
  <2> QED
    BY <2>1, <2>2
<1>4. CASE recased = {}
  <2>1. near # {}
    BY <1>2, <1>4 DEF EntityVariant
  <2>2. \A at \in near : ratio(at) \in Int /\ ratio(at) <= 100
    <3> TAKE at \in near
    <3>1. at \in Starts(text, width)
      OBVIOUS
    <3>2. Span(text, at, width) \in Seq(Vocabulary) /\ Len(Span(text, at, width)) = width
      BY <1>1, <3>1, SpanProperties
    <3>3. Ratio(Span(text, at, width), d) \in Int /\ Ratio(Span(text, at, width), d) <= 100
      <4> HIDE DEF near
      <4> QED
        BY <3>2, Ratios
    <3> QED
      BY <3>3
  <2>3. best # {}
    <3> DEFINE gaps == {100 - ratio(at) : at \in near}
    <3>1. gaps \in SUBSET Nat /\ gaps # {}
      <4> HIDE DEF near, ratio
      <4> QED
        BY <2>1, <2>2
    <3>2. PICK g \in gaps : \A k \in Nat : k < g => k \notin gaps
      <4> HIDE DEF gaps
      <4> QED
        BY <3>1, LeastOne
    <3>3. PICK at \in near : g = 100 - ratio(at)
      <4> HIDE DEF near, ratio
      <4> QED
        BY <3>2
    <3>4. ASSUME NEW other \in near
          PROVE  ratio(other) <= ratio(at)
      <4>1. 100 - ratio(other) \in gaps
        OBVIOUS
      <4> HIDE DEF near, ratio
      <4>2. ratio(other) \in Int /\ ratio(at) \in Int
        BY <2>2
      <4>3. 100 - ratio(other) \in Nat
        BY <2>2
      <4>4. ~(100 - ratio(other) < g)
        BY <3>2, <4>1, <4>3
      <4> QED
        BY <3>3, <4>2, <4>4
    <3>5. at \in best
      <4> HIDE DEF near, ratio
      <4> QED
        BY <3>4
    <3> QED
      BY <3>5
  <2>4. Min(best) \in best
    <3>1. best \in SUBSET Nat
      BY <1>1
    <3> HIDE DEF best
    <3> QED
      BY <2>3, <3>1, MinIsMember
  <2>5. LET at == Min(best) IN
        EntityVariant(text, d, C)
          = [at |-> at, difference |-> "TYPO", ratio |-> ratio(at),
             safe |-> Unambiguous(Span(text, at, width), ratio(at), C)]
    BY <1>2, <1>4 DEF EntityVariant
  <2>6. PICK at \in near : EntityVariant(text, d, C)
          = [at |-> at, difference |-> "TYPO", ratio |-> ratio(at),
             safe |-> Unambiguous(Span(text, at, width), ratio(at), C)]
    <3> HIDE DEF EntityVariant, near, ratio
    <3> QED
      BY <2>4, <2>5
  <2>7. /\ EntityVariant(text, d, C).at = at
        /\ Unambiguous(Span(text, at, width), ratio(at), C)
    <3> HIDE DEF EntityVariant, ratio
    <3> QED
      BY <2>6
  <2> HIDE DEF EntityVariant
  <2> QED
    BY <2>6, <2>7
<1> QED
  BY <1>3, <1>4

\* A replaced span, word by word.
LEMMA ReplacedWords ==
    ASSUME NEW text \in Seq(Vocabulary), NEW d \in Seq(Vocabulary), Len(d) > 0,
           NEW at \in Starts(text, Len(d))
    PROVE  LET r == Replaced(text, at, d) IN
           /\ r \in Seq(Vocabulary) /\ Len(r) = Len(text)
           /\ \A i \in 1..Len(text) : i < at \/ at + Len(d) - 1 < i => r[i] = text[i]
<1> DEFINE n == Len(d)
           front == SubSeq(text, 1, at - 1)
           back == SubSeq(text, at + n, Len(text))
<1>1. n \in Nat /\ n > 0 /\ Len(text) \in Nat /\ \A i \in 1..Len(text) : text[i] \in Vocabulary
  BY LenProperties, ElementOfSeq
<1>2. at \in Nat /\ at >= 1 /\ at + n - 1 <= Len(text)
  BY <1>1 DEF Starts
<1>3. /\ front \in Seq(Vocabulary) /\ Len(front) = at - 1
      /\ \A i \in 1..(at - 1) : front[i] = text[i]
  <2>1. 1 \in Int /\ at - 1 \in Int /\ \A i \in 1..(at - 1) : text[i] \in Vocabulary
    BY <1>1, <1>2
  <2>2. /\ front \in Seq(Vocabulary)
        /\ Len(front) = IF 1 <= at - 1 THEN (at - 1) - 1 + 1 ELSE 0
        /\ \A i \in 1..((at - 1) - 1 + 1) : front[i] = text[1 + i - 1]
    BY <2>1, SubSeqProperties
  <2> HIDE DEF front
  <2>3. Len(front) = at - 1 /\ (at - 1) - 1 + 1 = at - 1
    BY <1>2, <2>2
  <2>4. \A i \in 1..(at - 1) : 1 + i - 1 = i
    BY <1>2
  <2> QED
    BY <2>2, <2>3, <2>4
<1>4. /\ back \in Seq(Vocabulary) /\ Len(back) = Len(text) - (at + n - 1)
      /\ \A i \in 1..(Len(text) - (at + n - 1)) : back[i] = text[at + n - 1 + i]
  <2>1. at + n \in Int /\ Len(text) \in Int /\ \A i \in (at + n)..Len(text) : text[i] \in Vocabulary
    BY <1>1, <1>2
  <2>2. /\ back \in Seq(Vocabulary)
        /\ Len(back) = IF at + n <= Len(text) THEN Len(text) - (at + n) + 1 ELSE 0
        /\ \A i \in 1..(Len(text) - (at + n) + 1) : back[i] = text[(at + n) + i - 1]
    BY <2>1, SubSeqProperties
  <2> HIDE DEF back, n
  <2>3. /\ Len(back) = Len(text) - (at + n - 1)
        /\ Len(text) - (at + n) + 1 = Len(text) - (at + n - 1)
    <3>1. PICK last \in Nat : last = Len(text)
      BY <1>1
    <3>2. /\ at + n <= last => last - (at + n) + 1 = last - (at + n - 1)
          /\ ~(at + n <= last) => 0 = last - (at + n - 1)
          /\ last - (at + n) + 1 = last - (at + n - 1)
      BY <1>1, <1>2, <3>1
    <3>3. Len(back) = IF at + n <= last THEN last - (at + n) + 1 ELSE 0
      BY <2>2, <3>1
    <3> QED
      BY <3>1, <3>2, <3>3
  <2>4. \A i \in 1..(Len(text) - (at + n - 1)) : (at + n) + i - 1 = at + n - 1 + i
    BY <1>1, <1>2
  <2> QED
    BY <2>2, <2>3, <2>4
<1>5. Replaced(text, at, d) = (front \o d) \o back
  BY DEF Replaced
<1> HIDE DEF front, back
<1>6. /\ front \o d \in Seq(Vocabulary) /\ Len(front \o d) = at - 1 + n
      /\ \A i \in 1..(at - 1 + n) : i <= at - 1 => (front \o d)[i] = front[i]
  <2>1. /\ front \o d \in Seq(Vocabulary) /\ Len(front \o d) = Len(front) + Len(d)
        /\ \A i \in 1..(Len(front) + Len(d)) :
             (front \o d)[i] = IF i <= Len(front) THEN front[i] ELSE d[i - Len(front)]
    BY <1>3, ConcatProperties
  <2>2. Len(front) = at - 1
    BY <1>3
  <2> HIDE DEF n
  <2> QED
    BY <2>1, <2>2 DEF n
<1>7. /\ (front \o d) \o back \in Seq(Vocabulary)
      /\ Len((front \o d) \o back) = (at - 1 + n) + (Len(text) - (at + n - 1))
      /\ \A i \in 1..((at - 1 + n) + (Len(text) - (at + n - 1))) :
           ((front \o d) \o back)[i] = IF i <= at - 1 + n THEN (front \o d)[i]
                                       ELSE back[i - (at - 1 + n)]
  <2> DEFINE both == front \o d
  <2>1. both \in Seq(Vocabulary) /\ Len(both) = at - 1 + n
    BY <1>6
  <2> HIDE DEF both
  <2>2. /\ both \o back \in Seq(Vocabulary) /\ Len(both \o back) = Len(both) + Len(back)
        /\ \A i \in 1..(Len(both) + Len(back)) :
             (both \o back)[i] = IF i <= Len(both) THEN both[i] ELSE back[i - Len(both)]
    <3>1. back \in Seq(Vocabulary)
      BY <1>4
    <3>2. both \in Seq(Vocabulary)
      BY <2>1
    <3> QED
      BY <3>1, <3>2, ConcatProperties
  <2>3. Len(back) = Len(text) - (at + n - 1)
    BY <1>4
  <2>4. /\ both \o back \in Seq(Vocabulary)
        /\ Len(both \o back) = (at - 1 + n) + (Len(text) - (at + n - 1))
        /\ \A i \in 1..((at - 1 + n) + (Len(text) - (at + n - 1))) :
             (both \o back)[i] = IF i <= at - 1 + n THEN both[i] ELSE back[i - (at - 1 + n)]
    BY <2>1, <2>2, <2>3
  <2> QED
    BY <2>4 DEF both
<1>8. (at - 1 + n) + (Len(text) - (at + n - 1)) = Len(text)
  BY <1>1, <1>2
<1>9. ASSUME NEW i \in 1..Len(text), i < at \/ at + n - 1 < i
      PROVE  ((front \o d) \o back)[i] = text[i]
  <2>1. CASE i < at
    <3>1. i <= at - 1 + n /\ i <= at - 1 /\ i \in 1..(at - 1) /\ i \in 1..(at - 1 + n)
      BY <1>1, <1>2, <2>1
    <3> QED
      BY <1>3, <1>6, <1>7, <1>8, <3>1
  <2>2. CASE at + n - 1 < i
    <3>1. /\ ~(i <= at - 1 + n) /\ i - (at - 1 + n) \in 1..(Len(text) - (at + n - 1))
          /\ at + n - 1 + (i - (at - 1 + n)) = i
      BY <1>1, <1>2, <2>2
    <3> QED
      BY <1>4, <1>7, <1>8, <3>1
  <2> QED
    BY <1>9, <2>1, <2>2
<1> QED
  BY <1>5, <1>7, <1>8, <1>9

LEMMA RestoreOneTyped ==
    ASSUME NEW text \in Seq(Vocabulary), NEW d \in Seq(Vocabulary), NEW C
    PROVE  RestoreOne(text, d, C) \in Seq(Vocabulary)
<1>1. CASE Mentions(text, d) \/ ~EntityVariant(text, d, C).safe
  BY <1>1 DEF RestoreOne
<1>2. CASE ~Mentions(text, d) /\ EntityVariant(text, d, C).safe
  <2>1. Len(d) \in Nat /\ Len(text) \in Nat
    BY LenProperties
  <2>2. Len(d) # 0
    <3> SUFFICES ASSUME Len(d) = 0
                 PROVE  Mentions(text, d)
      BY <1>2
    <3>1. d = << >>
      BY EmptySeq
    <3>2. Span(text, 1, 0) = << >>
      <4>1. 1 \in Int /\ 1 + 0 - 1 \in Int /\ 1 + 0 - 1 < 1
        OBVIOUS
      <4> QED
        BY <4>1, SubSeqEmpty DEF Span
    <3>3. 1 \in Starts(text, 0)
      BY <2>1 DEF Starts
    <3> QED
      BY <3>1, <3>2, <3>3 DEF Mentions, Occurrences
  <2>3. EntityVariant(text, d, C).at \in Starts(text, Len(d)) /\ Len(d) > 0
    BY <1>2, <2>1, <2>2, VariantIsASpan
  <2>4. Replaced(text, EntityVariant(text, d, C).at, d) \in Seq(Vocabulary)
    BY <2>3, ReplacedWords
  <2> QED
    BY <1>2, <2>4 DEF RestoreOne
<1> QED
  BY <1>1, <1>2

\* A name that stands in the text still does when another, apart from it, is restored.
LEMMA RestoreOneKeeps ==
    ASSUME NEW text \in Seq(Vocabulary), NEW C \in SUBSET Seq(Vocabulary), IsFiniteSet(C),
           NEW c \in C, NEW d \in C, Mentions(text, c), d # c => Apart(c, d)
    PROVE  /\ RestoreOne(text, d, C) \in Seq(Vocabulary)
           /\ Mentions(RestoreOne(text, d, C), c)
<1> DEFINE n == Len(c)
           at == EntityVariant(text, d, C).at
           span == Span(text, at, n)
<1>1. CASE Mentions(text, d) \/ ~EntityVariant(text, d, C).safe
  BY <1>1 DEF RestoreOne
<1>2. CASE ~Mentions(text, d) /\ EntityVariant(text, d, C).safe
  <2>1. /\ d # c /\ Len(d) = n /\ Fold(c) # Fold(d)
        /\ \A i, k \in 1..n : i # k => /\ Fold(c)[i] # Fold(d)[k]
                                       /\ {Fold(c)[i], Fold(d)[k]} \notin Alike
        /\ n \in Nat /\ DOMAIN c = 1..n /\ DOMAIN d = 1..n
    BY <1>2, LenProperties DEF Apart
  <2>2. n > 0
    <3>1. n = 0 => c = << >> /\ d = << >>
      BY <2>1, EmptySeq
    <3> QED
      BY <2>1, <3>1
  <2>3. /\ at \in Starts(text, n)
        /\ \/ Fold(span) = Fold(d)
           \/ Ratio(span, d) >= NearRatio /\ Unambiguous(span, Ratio(span, d), C)
    BY <1>2, <2>1, <2>2, VariantIsASpan
  <2> HIDE DEF at
  <2>4. /\ at \in 1..Len(text) + 1 /\ at + n - 1 <= Len(text) /\ Len(text) \in Nat
        /\ span \in Seq(Vocabulary) /\ Len(span) = n /\ DOMAIN span = 1..n
        /\ \A k \in 1..n : span[k] = text[at + k - 1]
    BY <2>1, <2>3, SpanProperties, LenProperties
  <2>5. PICK p \in Starts(text, n) : Span(text, p, n) = c
    BY DEF Mentions, Occurrences
  <2>6. /\ p \in 1..Len(text) + 1 /\ p + n - 1 <= Len(text)
        /\ \A i \in 1..n : c[i] = text[p + i - 1]
    <3>1. n \in Nat
      BY <2>1
    <3> HIDE DEF n, span
    <3>2. /\ p \in 1..Len(text) + 1 /\ p + n - 1 <= Len(text)
          /\ \A i \in 1..n : Span(text, p, n)[i] = text[p + i - 1]
      BY <2>5, <3>1, SpanProperties
    <3> QED
      BY <2>5, <3>2
  <2>7. \A k \in 1..n : Close(Fold(span)[k], Fold(d)[k])
    <3>1. CASE Fold(span) = Fold(d)
      BY <3>1 DEF Close
    <3>2. CASE Ratio(span, d) >= NearRatio
      <4>1. Ratio(span, d) # 0
        BY <3>2 DEF NearRatio
      <4>2. /\ span \in Seq(Vocabulary) /\ d \in Seq(Vocabulary)
            /\ Len(span) = Len(d) /\ Len(span) > 0 /\ Len(span) = n
        BY <2>1, <2>2, <2>4
      <4> HIDE DEF span, n
      <4>3. \A k \in 1..Len(span) : Close(Fold(span)[k], Fold(d)[k])
        BY <4>1, <4>2, NearIsClose, Zenon
      <4> QED
        BY <4>2, <4>3
    <3> QED
      BY <2>3, <3>1, <3>2
  <2>8. /\ \A k \in 1..n : Fold(span)[k] = Folded[span[k]]
        /\ \A i \in 1..n : Fold(c)[i] = Folded[c[i]]
    BY <2>1, <2>4 DEF Fold
  \* The span and the occurrence of c cannot overlap.
  <2>9. at + n - 1 < p \/ p + n - 1 < at
    <3> SUFFICES ASSUME p <= at + n - 1, at <= p + n - 1
                 PROVE  FALSE
      BY <2>1, <2>4, <2>6
    <3>1. CASE at = p
      <4>1. span = c
        BY <2>5, <3>1
      <4>2. Ratio(c, d) >= NearRatio /\ Unambiguous(c, Ratio(c, d), C)
        BY <2>1, <2>3, <4>1
      <4>3. Ratio(c, c) = 100 /\ Ratio(c, d) \in Int /\ Ratio(c, d) <= 100
        BY <2>1, <2>2, Ratios
      <4>4. c \in Plausible(c, Ratio(c, d), C) /\ d \in Plausible(c, Ratio(c, d), C)
        BY <2>1, <4>2, <4>3 DEF Plausible, NearRatio
      <4>5. Plausible(c, Ratio(c, d), C) \subseteq C
        BY DEF Plausible
      <4>6. IsFiniteSet(Plausible(c, Ratio(c, d), C))
        BY <4>5, FS_Subset
      <4>7. PICK x : Plausible(c, Ratio(c, d), C) = {x}
        BY <4>2, <4>6, FS_Singleton DEF Unambiguous
      <4> QED
        BY <2>1, <4>4, <4>7
    <3>2. CASE at # p
      <4>1. PICK j \in Int : j >= at /\ j >= p /\ j <= at + n - 1 /\ j <= p + n - 1
        <5>1. at \in Int /\ p \in Int
          BY <2>4, <2>6
        <5>2. CASE at <= p
          BY <2>1, <2>2, <5>1, <5>2
        <5>3. CASE p <= at
          BY <2>1, <2>2, <5>1, <5>3
        <5> QED
          BY <5>1, <5>2, <5>3
      <4>2. PICK i \in 1..n, k \in 1..n : i # k /\ p + i - 1 = j /\ at + k - 1 = j
        <5>1. /\ j - p + 1 \in 1..n /\ j - at + 1 \in 1..n /\ j - p + 1 # j - at + 1
              /\ p + (j - p + 1) - 1 = j /\ at + (j - at + 1) - 1 = j
          BY <2>1, <2>4, <2>6, <3>2, <4>1
        <5> QED
          BY <5>1
      <4>3. span[k] = c[i]
        BY <2>4, <2>6, <4>2
      <4>4. Fold(span)[k] = Fold(c)[i]
        BY <2>8, <4>2, <4>3
      <4> QED
        BY <2>1, <2>7, <4>2, <4>4 DEF Close
    <3> QED
      BY <3>1, <3>2
  <2>10. RestoreOne(text, d, C) = Replaced(text, at, d)
    BY <1>2 DEF RestoreOne, at
  <2> DEFINE r == Replaced(text, at, d)
  <2>11. /\ r \in Seq(Vocabulary) /\ Len(r) = Len(text)
         /\ \A i \in 1..Len(text) : i < at \/ at + n - 1 < i => r[i] = text[i]
    BY <2>1, <2>2, <2>3, ReplacedWords
  <2> HIDE DEF r
  <2>12. p \in Starts(r, n)
    BY <2>5, <2>11 DEF Starts
  <2>13. /\ Span(r, p, n) \in Seq(Vocabulary) /\ Len(Span(r, p, n)) = n
         /\ \A i \in 1..n : Span(r, p, n)[i] = r[p + i - 1]
    BY <2>1, <2>11, <2>12, SpanProperties
  <2>14. ASSUME NEW i \in 1..n PROVE Span(r, p, n)[i] = c[i]
    <3>1. p + i - 1 \in 1..Len(text) /\ (p + i - 1 < at \/ at + n - 1 < p + i - 1)
      BY <2>1, <2>4, <2>6, <2>9
    <3>2. r[p + i - 1] = text[p + i - 1]
      BY <2>11, <3>1
    <3> QED
      BY <2>6, <2>13, <3>2
  <2>15. Span(r, p, n) = c
    <3> DEFINE u == Span(r, p, n)
    <3>1. u \in Seq(Vocabulary) /\ Len(u) = Len(c) /\ \A i \in 1..Len(u) : u[i] = c[i]
      BY <2>13, <2>14
    <3> HIDE DEF u
    <3>2. u = c
      BY <3>1, SeqEqual
    <3> QED
      BY <3>2 DEF u
  <2>16. Mentions(r, c)
    BY <2>12, <2>15 DEF Mentions, Occurrences
  <2> QED
    BY <2>10, <2>11, <2>16 DEF r
<1> QED
  BY <1>1, <1>2

\* A function f restores the names one by one.
Restores(f, text, names) ==
    /\ f[0] = text
    /\ \A n \in DOMAIN names : f[n] = RestoreOne(f[n - 1], names[n], Range(names))
    /\ Restored(text, names) = f[Len(names)]

LEMMA RestoredUnfolds ==
    ASSUME NEW T, T = Seq(Vocabulary), NEW names \in Seq(T), NEW text \in T
    PROVE  \E f \in [0..Len(names) -> T] : Restores(f, text, names)
<1> DEFINE last == Len(names)
           C == Range(names)
           step == [m \in T |-> [n \in 1..last |-> RestoreOne(m, names[n], C)]]
           Steps(g) == g = [n \in 0..last |-> IF n = 0 THEN text
                                                ELSE RestoreOne(g[n - 1], names[n], C)]
<1>1. last \in Nat /\ DOMAIN names = 1..last
  BY LenProperties
<1>2. \A m \in T, n \in 1..last : RestoreOne(m, names[n], C) \in T
  <2> TAKE m \in T, n \in 1..last
  <2>1. names[n] \in T
    BY <1>1, ElementOfSeq
  <2> QED
    BY <2>1, RestoreOneTyped
<1>3. step \in [T -> [1..last -> T]]
  BY <1>2
<1>4. Restored(text, names) = (CHOOSE g : Steps(g))[last]
  BY DEF Restored
<1>5. \A m \in T, n \in 1..last : step[m][n] = RestoreOne(m, names[n], C)
  OBVIOUS
<1> HIDE DEF step, last
<1>6. PICK h : Unfolds(h, T, last, text, step)
  BY <1>1, <1>3, Unfolding
<1>7. \A n \in 1..last : h[n] = RestoreOne(h[n - 1], names[n], C)
  BY <1>5, <1>6 DEF Unfolds
<1>8. \A n \in 0..last : n # 0 => n \in 1..last
  BY <1>1
<1>9. Steps(h)
  BY <1>6, <1>7, <1>8 DEF Unfolds
<1>10. ASSUME NEW g, Steps(g) PROVE g[last] = h[last]
  <2>1. g[0] = text
    BY <1>1, <1>10
  <2>2. \A n \in 1..last : g[n] = RestoreOne(g[n - 1], names[n], C)
    BY <1>1, <1>10
  <2> HIDE DEF Steps
  <2>3. \A n \in 1..last : g[n - 1] \in T => g[n] = step[g[n - 1]][n]
    BY <1>5, <2>2
  <2> QED
    BY <1>6, <2>1, <2>3 DEF Unfolds
<1>11. Restored(text, names) = h[last]
  <2> HIDE DEF Steps
  <2> QED
    BY <1>4, <1>9, <1>10
<1> QED
  BY <1>1, <1>6, <1>7, <1>11 DEF Restores, Unfolds, last

\* However many names are restored, one that stood in the draft and is apart from all
\* others stands in the text.
LEMMA RestoredKeeps ==
    ASSUME NEW names \in Seq(Seq(Vocabulary)), NEW text \in Seq(Vocabulary),
           NEW c \in Range(names), Mentions(text, c),
           \A d \in Range(names) \ {c} : Apart(c, d)
    PROVE  Mentions(Restored(text, names), c)
<1> DEFINE last == Len(names)
           C == Range(names)
<1>1. last \in Nat /\ DOMAIN names = 1..last
  BY LenProperties
<1>2. C \in SUBSET Seq(Vocabulary) /\ IsFiniteSet(C)
  <2>1. C = {names[k] : k \in 1..last}
    BY <1>1 DEF Range
  <2>2. IsFiniteSet(1..last)
    BY <1>1, FS_Interval
  <2>3. names \in Surjection(1..last, C)
    BY <1>1, <2>1 DEF Surjection
  <2>4. IsFiniteSet(C)
    BY <2>2, <2>3, FS_Surjection
  <2>5. \A k \in 1..last : names[k] \in Seq(Vocabulary)
    BY <1>1, ElementOfSeq
  <2> QED
    BY <2>1, <2>4, <2>5
<1>3. PICK T : T = Seq(Vocabulary)
  OBVIOUS
<1>4. PICK f \in [0..last -> T] : Restores(f, text, names)
  BY <1>3, RestoredUnfolds
<1> DEFINE U == {n \in 0..last : ~Mentions(f[n], c)}
<1>5. ASSUME NEW n \in 1..last, Mentions(f[n - 1], c)
      PROVE  Mentions(f[n], c)
  <2>1. n - 1 \in 0..last /\ f[n - 1] \in Seq(Vocabulary) /\ names[n] \in C
    BY <1>1, <1>3 DEF Range
  <2>2. f[n] = RestoreOne(f[n - 1], names[n], C)
    BY <1>1, <1>4 DEF Restores
  <2>3. names[n] # c => Apart(c, names[n])
    BY <2>1
  <2> HIDE DEF C
  <2>4. c \in C
    BY DEF C
  <2> QED
    BY <1>2, <1>5, <2>1, <2>2, <2>3, <2>4, RestoreOneKeeps
<1>6. U = {}
  <2>1. U \subseteq Nat
    OBVIOUS
  <2> SUFFICES ASSUME U # {} PROVE FALSE
    OBVIOUS
  <2>2. PICK n \in U : \A k \in Nat : k < n => k \notin U
    <3> HIDE DEF U
    <3> QED
      BY <2>1, LeastOne
  <2>3. n # 0
    BY <1>4 DEF Restores
  <2>4. n \in 1..last /\ n - 1 \in Nat /\ n - 1 < n /\ n - 1 \in 0..last
    BY <1>1, <2>3
  <2>5. Mentions(f[n - 1], c)
    BY <2>2, <2>4
  <2> QED
    BY <1>5, <2>4, <2>5
<1>7. last \in 0..last
  BY <1>1
<1> QED
  BY <1>4, <1>6, <1>7 DEF Restores

\* A text is the draft with the names restored.
LEMMA WrittenKeepsNames ==
    ASSUME Written
    PROVE  result'.op = "text" /\ ExactNamesStay'
<1>1. CASE call.phase = "failed"
  <2>1. result' = Text(<< >>, << >>, FALSE)
    BY <1>1 DEF Written, Finish
  <2>2. result'.op = "text" /\ result'.draft = result'.text
    BY <2>1 DEF Text
  <2> QED
    BY <2>2 DEF ExactNamesStay
<1>2. CASE call.phase # "failed"
  <2>1. PICK d \in Drafts :
          result' = Text(d.words, Restored(d.words, Names), Faultless(d, Restored(d.words, Names)))
    BY <1>2 DEF Written, Finish
  <2>2. result'.op = "text" /\ result'.draft = d.words /\ result'.text = Restored(d.words, Names)
    BY <2>1 DEF Text
  <2>3. d.words \in Seq(Vocabulary) /\ Names \in Seq(Seq(Vocabulary))
    BY AssessmentAssumption
  <2>4. \A c \in Range(Names) :
          (Mentions(d.words, c) /\ \A e \in Range(Names) \ {c} : Apart(c, e))
            => Mentions(Restored(d.words, Names), c)
    BY <2>3, RestoredKeeps
  <2> QED
    BY <2>2, <2>4 DEF ExactNamesStay
<1> QED
  BY <1>1, <1>2

LEMMA MatchedIsAMatch ==
    ASSUME Matched
    PROVE  result'.op = "match"
BY DEF Matched, MatchEnds, Finish

-----------------------------------------------------------------------------
(* Listings.                                                               *)

\* What has been registered of the listings L, next to the rows E: each is shown, what is
\* shown is stored or about to be, and nothing is twice unless it has no identity.
Registered(s, K, E, L) ==
    /\ s \in [existing : {E}, added : Seq(K), shown : Seq(K)]
    /\ Range(s.shown) = {Key(l) : l \in L}
    /\ Range(s.added) \subseteq Range(s.shown)
    /\ Range(s.shown) \subseteq E \cup Range(s.added)
    /\ (\A l \in L : JobIdentity(l) # NoIdent) =>
         /\ IsInjective(s.shown)
         /\ IsInjective(s.added) /\ Range(s.added) \cap E = {}

LEMMA Appended ==
    ASSUME NEW K, NEW seq \in Seq(K), NEW k \in K
    PROVE  /\ Append(seq, k) \in Seq(K)
           /\ Range(Append(seq, k)) = Range(seq) \cup {k}
           /\ IsInjective(seq) /\ k \notin Range(seq) => IsInjective(Append(seq, k))
<1> DEFINE n == Len(seq)
           more == Append(seq, k)
<1>1. n \in Nat /\ DOMAIN seq = 1..n
  BY LenProperties
<1>2. /\ more \in Seq(K) /\ Len(more) = n + 1
      /\ \A i \in 1..n : more[i] = seq[i]
      /\ more[n + 1] = k
  BY AppendProperties
<1>3. DOMAIN more = 1..(n + 1)
  BY <1>2, LenProperties
<1>4. 1..(n + 1) = (1..n) \cup {n + 1}
  BY <1>1
<1> HIDE DEF more, n
<1>5. Range(more) = Range(seq) \cup {k}
  BY <1>1, <1>2, <1>3, <1>4 DEF Range
<1>6. IsInjective(seq) /\ k \notin Range(seq) => IsInjective(more)
  BY <1>1, <1>2, <1>3, <1>4 DEF Range, IsInjective
<1> QED
  BY <1>2, <1>5, <1>6 DEF more

LEMMA RegisterKeeps ==
    ASSUME NEW K, NEW E, NEW L, NEW s, Registered(s, K, E, L),
           NEW l, Key(l) \in K
    PROVE  Registered(Register(s, l), K, E, L \cup {l})
<1> DEFINE k == Key(l)
           t == Register(s, l)
<1>1. s \in [existing : {E}, added : Seq(K), shown : Seq(K)]
  BY DEF Registered
<1>2. {Key(m) : m \in L \cup {l}} = {Key(m) : m \in L} \cup {k}
  OBVIOUS
<1>3. /\ Append(s.shown, k) \in Seq(K) /\ Range(Append(s.shown, k)) = Range(s.shown) \cup {k}
      /\ IsInjective(s.shown) /\ k \notin Range(s.shown) => IsInjective(Append(s.shown, k))
  BY <1>1, Appended
<1>4. /\ Append(s.added, k) \in Seq(K) /\ Range(Append(s.added, k)) = Range(s.added) \cup {k}
      /\ IsInjective(s.added) /\ k \notin Range(s.added) => IsInjective(Append(s.added, k))
  BY <1>1, Appended
<1>5. CASE JobIdentity(l) = NoIdent
  <2>1. /\ t \in [existing : {E}, added : Seq(K), shown : Seq(K)]
        /\ t.added = Append(s.added, k) /\ t.shown = Append(s.shown, k)
    BY <1>1, <1>3, <1>4, <1>5 DEF Register
  <2> HIDE DEF t, k
  <2> QED
    BY <1>2, <1>3, <1>4, <1>5, <2>1 DEF Registered, t
<1>6. CASE JobIdentity(l) # NoIdent /\ k \in Range(s.shown)
  <2>1. t = s
    BY <1>6 DEF Register
  <2> HIDE DEF t, k
  <2> QED
    BY <1>2, <1>6, <2>1 DEF Registered, t
<1>7. CASE JobIdentity(l) # NoIdent /\ k \notin Range(s.shown)
  <2>1. /\ t \in [existing : {E}, added : Seq(K), shown : Seq(K)]
        /\ t.shown = Append(s.shown, k)
        /\ k \in E => t.added = s.added
        /\ k \notin E => t.added = Append(s.added, k)
    BY <1>1, <1>3, <1>4, <1>7 DEF Register
  <2> HIDE DEF t, k
  <2> QED
    BY <1>2, <1>3, <1>4, <1>7, <2>1 DEF Registered, t
<1> QED
  BY <1>5, <1>6, <1>7

\* A function f registers listings one by one, on top of s.
Registers(f, s, listings) ==
    /\ f[0] = s
    /\ \A n \in DOMAIN listings : f[n] = Register(f[n - 1], listings[n])
    /\ RegisterEach(s, listings) = f[Len(listings)]

\* The states of a search.
Board(K, E) == [existing : {E}, added : Seq(K), shown : Seq(K)]

LEMMA RegisterTyped ==
    ASSUME NEW K, NEW E, NEW s \in Board(K, E), NEW l, Key(l) \in K
    PROVE  Register(s, l) \in Board(K, E)
<1>1. Append(s.shown, Key(l)) \in Seq(K) /\ Append(s.added, Key(l)) \in Seq(K)
  BY AppendProperties DEF Board
<1> QED
  BY <1>1 DEF Register, Board

LEMMA RegisterEachUnfolds ==
    ASSUME NEW K, NEW E, NEW S, S = Board(K, E), NEW s \in S,
           NEW listings, IsSequence(listings), \A l \in Range(listings) : Key(l) \in K
    PROVE  \E f \in [0..Len(listings) -> S] : Registers(f, s, listings)
<1> DEFINE last == Len(listings)
           step == [m \in S |-> [n \in 1..last |-> Register(m, listings[n])]]
           Steps(g) == g = [n \in 0..last |-> IF n = 0 THEN s
                                                ELSE Register(g[n - 1], listings[n])]
<1>1. last \in Nat /\ DOMAIN listings = 1..last
  BY LenProperties DEF IsSequence
<1>2. \A m \in S, n \in 1..last : Register(m, listings[n]) \in S
  <2> TAKE m \in S, n \in 1..last
  <2>1. Key(listings[n]) \in K
    BY <1>1 DEF Range
  <2> QED
    BY <2>1, RegisterTyped
<1>3. step \in [S -> [1..last -> S]]
  BY <1>2
<1>4. RegisterEach(s, listings) = (CHOOSE g : Steps(g))[last]
  BY DEF RegisterEach
<1>5. \A m \in S, n \in 1..last : step[m][n] = Register(m, listings[n])
  OBVIOUS
<1> HIDE DEF step, last
<1>6. PICK h : Unfolds(h, S, last, s, step)
  BY <1>1, <1>3, Unfolding
<1>7. \A n \in 1..last : h[n] = Register(h[n - 1], listings[n])
  BY <1>5, <1>6 DEF Unfolds
<1>8. \A n \in 0..last : n # 0 => n \in 1..last
  BY <1>1
<1>9. Steps(h)
  BY <1>6, <1>7, <1>8 DEF Unfolds
<1>10. ASSUME NEW g, Steps(g) PROVE g[last] = h[last]
  <2>1. g[0] = s
    BY <1>1, <1>10
  <2>2. \A n \in 1..last : g[n] = Register(g[n - 1], listings[n])
    BY <1>1, <1>10
  <2> HIDE DEF Steps
  <2>3. \A n \in 1..last : g[n - 1] \in S => g[n] = step[g[n - 1]][n]
    BY <1>5, <2>2
  <2> QED
    BY <1>6, <2>1, <2>3 DEF Unfolds
<1>11. RegisterEach(s, listings) = h[last]
  <2> HIDE DEF Steps
  <2> QED
    BY <1>4, <1>9, <1>10
<1> QED
  BY <1>1, <1>6, <1>7, <1>11 DEF Registers, Unfolds, last

LEMMA RegisterEachKeeps ==
    ASSUME NEW K, NEW E, NEW L, NEW s, Registered(s, K, E, L),
           NEW listings, IsSequence(listings), \A l \in Range(listings) : Key(l) \in K
    PROVE  Registered(RegisterEach(s, listings), K, E, L \cup Range(listings))
<1> DEFINE last == Len(listings)
           upTo(n) == L \cup {listings[k] : k \in 1..n}
<1>1. last \in Nat /\ DOMAIN listings = 1..last
  BY LenProperties DEF IsSequence
<1>2. PICK S : S = Board(K, E)
  OBVIOUS
<1>3. s \in S
  BY <1>2 DEF Registered, Board
<1>4. PICK f \in [0..last -> S] : Registers(f, s, listings)
  BY <1>2, <1>3, RegisterEachUnfolds
<1> DEFINE U == {n \in 0..last : ~Registered(f[n], K, E, upTo(n))}
<1>5. ASSUME NEW n \in 1..last, Registered(f[n - 1], K, E, upTo(n - 1))
      PROVE  Registered(f[n], K, E, upTo(n))
  <2>1. f[n] = Register(f[n - 1], listings[n])
    BY <1>1, <1>4 DEF Registers
  <2>2. Key(listings[n]) \in K
    BY <1>1 DEF Range
  <2>3. upTo(n) = upTo(n - 1) \cup {listings[n]}
    <3>1. 1..n = (1..(n - 1)) \cup {n}
      BY <1>1
    <3> QED
      BY <3>1
  <2> HIDE DEF upTo
  <2> QED
    BY <1>5, <2>1, <2>2, <2>3, RegisterKeeps
<1>6. U = {}
  <2>1. U \subseteq Nat
    OBVIOUS
  <2> SUFFICES ASSUME U # {} PROVE FALSE
    OBVIOUS
  <2>2. PICK n \in U : \A k \in Nat : k < n => k \notin U
    <3> HIDE DEF U
    <3> QED
      BY <2>1, LeastOne
  <2>3. n # 0
    <3>1. upTo(0) = L
      OBVIOUS
    <3>2. f[0] = s
      BY <1>4 DEF Registers
    <3> HIDE DEF upTo
    <3> QED
      BY <3>1, <3>2
  <2>4. n \in 1..last /\ n - 1 \in Nat /\ n - 1 < n /\ n - 1 \in 0..last
    BY <1>1, <2>3
  <2> HIDE DEF upTo
  <2>5. Registered(f[n - 1], K, E, upTo(n - 1))
    BY <2>2, <2>4
  <2> QED
    BY <1>5, <2>4, <2>5
<1>7. Registered(f[last], K, E, upTo(last))
  <2>1. last \in 0..last
    BY <1>1
  <2> HIDE DEF upTo, last
  <2> QED
    BY <1>6, <2>1
<1>8. upTo(last) = L \cup Range(listings)
  BY <1>1 DEF Range
<1>9. RegisterEach(s, listings) = f[last]
  BY <1>4 DEF Registers
<1> HIDE DEF upTo, last
<1> QED
  BY <1>7, <1>8, <1>9

\* The board after the answer of a platform.
Heard(s, answer) == IF answer.failed THEN s ELSE RegisterEach(s, answer.listings)

\* What the first n platforms list.
Listed(platforms, n) ==
    UNION {Range(platforms[k].listings) : k \in {j \in 1..n : ~platforms[j].failed}}

\* A function f hears the platforms one by one.
Hears(f, E, platforms) ==
    /\ f[0] = [existing |-> E, added |-> << >>, shown |-> << >>]
    /\ \A n \in DOMAIN platforms : f[n] = Heard(f[n - 1], platforms[n])
    /\ RegisterAll(E, platforms) = f[Len(platforms)]

LEMMA RegisterEachTyped ==
    ASSUME NEW K, NEW E, NEW s \in Board(K, E),
           NEW listings, IsSequence(listings), \A l \in Range(listings) : Key(l) \in K
    PROVE  RegisterEach(s, listings) \in Board(K, E)
<1>1. PICK S : S = Board(K, E)
  OBVIOUS
<1>2. PICK f \in [0..Len(listings) -> S] : Registers(f, s, listings)
  BY <1>1, RegisterEachUnfolds
<1>3. Len(listings) \in 0..Len(listings)
  BY LenProperties DEF IsSequence
<1>4. f[Len(listings)] \in S
  BY <1>3
<1> QED
  BY <1>1, <1>2, <1>4 DEF Registers

\* Every answer is a list of listings with keys in K.
Keyed(platforms, K) ==
    /\ IsSequence(platforms)
    /\ \A a \in Range(platforms) :
         IsSequence(a.listings) /\ (~a.failed => \A l \in Range(a.listings) : Key(l) \in K)

LEMMA HeardTyped ==
    ASSUME NEW K, NEW E, NEW s \in Board(K, E), NEW platforms, Keyed(platforms, K),
           NEW a \in Range(platforms)
    PROVE  Heard(s, a) \in Board(K, E)
<1>1. CASE a.failed
  BY <1>1 DEF Heard
<1>2. CASE ~a.failed
  <2>1. IsSequence(a.listings) /\ \A l \in Range(a.listings) : Key(l) \in K
    BY <1>2 DEF Keyed
  <2>2. RegisterEach(s, a.listings) \in Board(K, E)
    BY <2>1, RegisterEachTyped
  <2> QED
    BY <1>2, <2>2 DEF Heard
<1> QED
  BY <1>1, <1>2

LEMMA RegisterAllUnfolds ==
    ASSUME NEW K, NEW E, NEW S, S = Board(K, E), NEW platforms, Keyed(platforms, K)
    PROVE  \E f \in [0..Len(platforms) -> S] : Hears(f, E, platforms)
<1> DEFINE last == Len(platforms)
           start == [existing |-> E, added |-> << >>, shown |-> << >>]
           step == [m \in S |-> [n \in 1..last |-> Heard(m, platforms[n])]]
           Steps(g) == g = [n \in 0..last |->
                              CASE n = 0 -> start
                                [] n # 0 /\ platforms[n].failed -> g[n - 1]
                                [] OTHER -> RegisterEach(g[n - 1], platforms[n].listings)]
<1>1. last \in Nat /\ DOMAIN platforms = 1..last
  BY LenProperties DEF IsSequence, Keyed
<1>2. \A m \in S, n \in 1..last : Heard(m, platforms[n]) \in S
  <2> TAKE m \in S, n \in 1..last
  <2>1. platforms[n] \in Range(platforms)
    BY <1>1 DEF Range
  <2> QED
    BY <2>1, HeardTyped
<1>3. step \in [S -> [1..last -> S]]
  BY <1>2
<1>4. RegisterAll(E, platforms) = (CHOOSE g : Steps(g))[last]
  BY DEF RegisterAll
<1>5. \A m \in S, n \in 1..last : step[m][n] = Heard(m, platforms[n])
  OBVIOUS
<1>6. start \in S
  <2>1. << >> \in Seq(K)
    BY EmptySeq
  <2> QED
    BY <2>1 DEF Board
<1> HIDE DEF step, last, start
<1>7. PICK h : Unfolds(h, S, last, start, step)
  BY <1>1, <1>3, <1>6, Unfolding
<1>8. \A n \in 1..last : h[n] = Heard(h[n - 1], platforms[n])
  BY <1>5, <1>7 DEF Unfolds
<1>9. \A n \in 0..last : n # 0 => n \in 1..last
  BY <1>1
<1>10. Steps(h)
  <2>1. ASSUME NEW n \in 0..last
        PROVE  h[n] = CASE n = 0 -> start
                        [] n # 0 /\ platforms[n].failed -> h[n - 1]
                        [] OTHER -> RegisterEach(h[n - 1], platforms[n].listings)
    <3>1. CASE n = 0
      BY <1>7, <3>1 DEF Unfolds
    <3>2. CASE n # 0
      <4>1. h[n] = Heard(h[n - 1], platforms[n])
        BY <1>8, <1>9, <3>2
      <4> QED
        BY <3>2, <4>1 DEF Heard
    <3> QED
      BY <3>1, <3>2
  <2>2. h \in [0..last -> S]
    BY <1>7 DEF Unfolds
  <2> QED
    BY <2>1, <2>2
<1>11. ASSUME NEW g, Steps(g) PROVE g[last] = h[last]
  <2>1. g[0] = start
    BY <1>1, <1>11
  <2>2. ASSUME NEW n \in 1..last PROVE g[n] = Heard(g[n - 1], platforms[n])
    <3>1. n \in 0..last /\ n # 0
      BY <1>1
    <3>2. g[n] = CASE n = 0 -> start
                   [] n # 0 /\ platforms[n].failed -> g[n - 1]
                   [] OTHER -> RegisterEach(g[n - 1], platforms[n].listings)
      BY <1>11, <3>1
    <3> QED
      BY <3>1, <3>2 DEF Heard
  <2> HIDE DEF Steps
  <2>3. \A n \in 1..last : g[n - 1] \in S => g[n] = step[g[n - 1]][n]
    BY <1>5, <2>2
  <2> QED
    BY <1>7, <2>1, <2>3 DEF Unfolds
<1>12. RegisterAll(E, platforms) = h[last]
  <2> HIDE DEF Steps
  <2> QED
    BY <1>4, <1>10, <1>11
<1> QED
  BY <1>1, <1>7, <1>8, <1>12 DEF Hears, Unfolds, last, start

LEMMA RegisterAllKeeps ==
    ASSUME NEW K, NEW E, NEW platforms, Keyed(platforms, K)
    PROVE  Registered(RegisterAll(E, platforms), K, E, Listed(platforms, Len(platforms)))
<1> DEFINE last == Len(platforms)
           upTo(n) == Listed(platforms, n)
<1>1. last \in Nat /\ DOMAIN platforms = 1..last
  BY LenProperties DEF IsSequence, Keyed
<1>2. PICK S : S = Board(K, E)
  OBVIOUS
<1>3. PICK f \in [0..last -> S] : Hears(f, E, platforms)
  BY <1>2, RegisterAllUnfolds
<1> DEFINE U == {n \in 0..last : ~Registered(f[n], K, E, upTo(n))}
<1>4. Registered(f[0], K, E, upTo(0))
  <2>1. f[0] = [existing |-> E, added |-> << >>, shown |-> << >>]
    BY <1>3 DEF Hears
  <2>2. upTo(0) = {}
    BY DEF Listed
  <2>3. << >> \in Seq(K) /\ DOMAIN << >> = {}
    BY EmptySeq
  <2>4. Range(<< >>) = {} /\ IsInjective(<< >>)
    BY <2>3 DEF Range, IsInjective
  <2> HIDE DEF upTo
  <2> QED
    BY <2>1, <2>2, <2>3, <2>4 DEF Registered
<1>5. ASSUME NEW n \in 1..last, Registered(f[n - 1], K, E, upTo(n - 1))
      PROVE  Registered(f[n], K, E, upTo(n))
  <2> DEFINE a == platforms[n]
  <2>1. f[n] = Heard(f[n - 1], a)
    BY <1>1, <1>3 DEF Hears
  <2>2. a \in Range(platforms) /\ IsSequence(a.listings)
    BY <1>1 DEF Keyed, Range
  <2>3. 1..n = (1..(n - 1)) \cup {n}
    BY <1>1
  <2>4. CASE a.failed
    <3>1. upTo(n) = upTo(n - 1)
      BY <2>3, <2>4 DEF Listed
    <3>2. f[n] = f[n - 1]
      BY <2>1, <2>4 DEF Heard
    <3> HIDE DEF upTo
    <3> QED
      BY <1>5, <3>1, <3>2
  <2>5. CASE ~a.failed
    <3>1. upTo(n) = upTo(n - 1) \cup Range(a.listings)
      BY <2>3, <2>5 DEF Listed
    <3>2. f[n] = RegisterEach(f[n - 1], a.listings)
      BY <2>1, <2>5 DEF Heard
    <3>3. \A l \in Range(a.listings) : Key(l) \in K
      BY <2>2, <2>5 DEF Keyed
    <3> HIDE DEF upTo, a
    <3> QED
      BY <1>5, <2>2, <3>1, <3>2, <3>3, RegisterEachKeeps
  <2> QED
    BY <2>4, <2>5
<1>6. U = {}
  <2>1. U \subseteq Nat
    OBVIOUS
  <2> SUFFICES ASSUME U # {} PROVE FALSE
    OBVIOUS
  <2>2. PICK n \in U : \A k \in Nat : k < n => k \notin U
    <3> HIDE DEF U
    <3> QED
      BY <2>1, LeastOne
  <2> HIDE DEF upTo
  <2>3. n # 0
    BY <1>4
  <2>4. n \in 1..last /\ n - 1 \in Nat /\ n - 1 < n /\ n - 1 \in 0..last
    BY <1>1, <2>3
  <2>5. Registered(f[n - 1], K, E, upTo(n - 1))
    BY <2>2, <2>4
  <2> QED
    BY <1>5, <2>4, <2>5
<1>7. Registered(f[last], K, E, upTo(last))
  <2>1. last \in 0..last
    BY <1>1
  <2> HIDE DEF upTo, last
  <2> QED
    BY <1>6, <2>1
<1>8. RegisterAll(E, platforms) = f[last]
  BY <1>3 DEF Hears
<1> QED
  BY <1>7, <1>8

LEMMA RangesAreFinite ==
    ASSUME NEW items, IsSequence(items)
    PROVE  IsFiniteSet(Range(items))
<1> DEFINE n == Len(items)
<1>1. n \in Nat /\ DOMAIN items = 1..n /\ items \in [1..n -> Range(items)]
  BY LenProperties DEF IsSequence, Range
<1>2. items \in Surjection(1..n, Range(items))
  BY <1>1 DEF Surjection, Range
<1>3. IsFiniteSet(1..n)
  BY <1>1, FS_Interval
<1> QED
  BY <1>2, <1>3, FS_Surjection

\* The same listing: by its id, or by its address when it has none.
Same(l, m) == l.platform = m.platform /\ l.id = m.id /\ (l.id = "" => l.url = m.url)

LEMMA Identities ==
    ASSUME NEW x, JobIdentity(x) # NoIdent
    PROVE  \/ x.id # "" /\ JobIdentity(x) = <<"id", x.id>>
           \/ x.id = "" /\ JobIdentity(x) = <<"url", x.url>>
<1>1. CASE x.id # ""
  BY <1>1 DEF JobIdentity
<1>2. CASE x.id = "" /\ x.url # ""
  BY <1>2 DEF JobIdentity
<1>3. CASE x.id = "" /\ x.url = ""
  BY <1>3 DEF JobIdentity
<1> QED
  BY <1>1, <1>2, <1>3

LEMMA SameKey ==
    ASSUME NEW l, NEW m, JobIdentity(l) # NoIdent, JobIdentity(m) # NoIdent
    PROVE  Key(l) = Key(m) <=> Same(l, m)
<1> DEFINE i == JobIdentity(l)
           j == JobIdentity(m)
<1>1. \/ l.id # "" /\ i = <<"id", l.id>>
      \/ l.id = "" /\ i = <<"url", l.url>>
  BY Identities
<1>2. \/ m.id # "" /\ j = <<"id", m.id>>
      \/ m.id = "" /\ j = <<"url", m.url>>
  BY Identities
<1>3. Key(l) = <<l.platform, i>> /\ Key(m) = <<m.platform, j>>
  BY DEF Key
<1> HIDE DEF i, j
<1>4. i = j <=> l.id = m.id /\ (l.id = "" => l.url = m.url)
  <2>1. CASE l.id # "" /\ m.id # ""
    <3>1. i = <<"id", l.id>> /\ j = <<"id", m.id>>
      BY <1>1, <1>2, <2>1
    <3>2. i = j <=> l.id = m.id
      BY <3>1
    <3> QED
      BY <2>1, <3>2
  <2>2. CASE l.id = "" /\ m.id = ""
    <3>1. i = <<"url", l.url>> /\ j = <<"url", m.url>>
      BY <1>1, <1>2, <2>2
    <3>2. i = j <=> l.url = m.url
      BY <3>1
    <3> QED
      BY <2>2, <3>2
  <2>3. CASE l.id # "" /\ m.id = ""
    <3>1. i = <<"id", l.id>> /\ j = <<"url", m.url>>
      BY <1>1, <1>2, <2>3
    <3>2. i[1] = "id" /\ j[1] = "url"
      BY <3>1
    <3> QED
      BY <2>3, <3>2
  <2>4. CASE l.id = "" /\ m.id # ""
    <3>1. i = <<"url", l.url>> /\ j = <<"id", m.id>>
      BY <1>1, <1>2, <2>4
    <3>2. i[1] = "url" /\ j[1] = "id"
      BY <3>1
    <3> QED
      BY <2>4, <3>2
  <2> QED
    BY <2>1, <2>2, <2>3, <2>4
<1>5. Key(l) = Key(m) <=> l.platform = m.platform /\ i = j
  BY <1>3
<1> QED
  BY <1>4, <1>5 DEF Same

\* As many keys as there are different listings.
LEMMA KeysTellApart ==
    ASSUME NEW L, IsFiniteSet({Key(l) : l \in L}), \A l \in L : JobIdentity(l) # NoIdent
    PROVE  Cardinality({Key(l) : l \in L}) = Cardinality({{m \in L : Same(l, m)} : l \in L})
<1> DEFINE K == {Key(l) : l \in L}
           C == {{m \in L : Same(l, m)} : l \in L}
           f == [k \in K |-> {m \in L : Key(m) = k}]
<1>1. \A l \in L : f[Key(l)] = {m \in L : Same(l, m)}
  BY SameKey
<1>2. \A l \in L : l \in f[Key(l)]
  OBVIOUS
<1>3. f \in [K -> C]
  <2>1. ASSUME NEW k \in K PROVE f[k] \in C
    BY <1>1
  <2>2. DOMAIN f = K /\ f = [k \in K |-> f[k]]
    OBVIOUS
  <2> HIDE DEF f, K, C
  <2> QED
    BY <2>1, <2>2
<1>4. \A j, k \in K : f[j] = f[k] => j = k
  <2> TAKE j, k \in K
  <2>1. PICK l \in L : Key(l) = j
    OBVIOUS
  <2>2. f[j] = f[k] => l \in f[k]
    BY <1>2, <2>1
  <2>3. l \in f[k] => Key(l) = k
    OBVIOUS
  <2> QED
    BY <2>1, <2>2, <2>3
<1>5. \A c \in C : \E k \in K : f[k] = c
  BY <1>1
<1>6. f \in Bijection(K, C)
  <2>1. DOMAIN f = K
    OBVIOUS
  <2> HIDE DEF f, K, C
  <2> QED
    BY <1>3, <1>4, <1>5, <2>1 DEF Bijection, Injection, Surjection, IsInjective
<1>7. Cardinality(C) = Cardinality(K)
  <2> HIDE DEF f, C
  <2> QED
    BY <1>6, FS_Bijection DEF ExistsBijection
<1> QED
  BY <1>7

\* What SearchKeepsListings says of a board and what a search has made of it.
KeptAll(board, rows, shown) ==
    LET answers  == {a \in Range(board.platforms) : ~a.failed}
        listings == UNION {Range(a.listings) : a \in answers}
    IN  /\ IsInjective(shown) \/ \E l \in listings : l.id = "" /\ l.url = ""
        /\ Range(shown) \subseteq rows
        /\ ~(\/ \E l \in listings : l.id = "" /\ l.url = ""
             \/ {Key(l) : l \in listings} \cap board.meanwhile # {})
             => Cardinality(Range(shown))
                  = Cardinality({{m \in listings : Same(l, m)} : l \in listings})

LEMMA FoundKeepsListings ==
    ASSUME Found, task.board \in Boards
    PROVE  result'.op = "find" /\ SearchKeepsListings'
<1> DEFINE b == task.board
           s == RegisterAll(b.existing, b.platforms)
           kept == Commit(s, b.meanwhile)
           L == UNION {Range(a.listings) : a \in {x \in Range(b.platforms) : ~x.failed}}
           K == {Key(l) : l \in L}
           blank == \E l \in L : l.id = "" /\ l.url = ""
<1>1. /\ result'.op = "find" /\ result'.board = b
      /\ result'.rows = kept.rows /\ result'.shown = kept.shown
  BY DEF Found, Finish
<1>2. /\ IsSequence(b.platforms)
      /\ \A a \in Range(b.platforms) : IsSequence(a.listings)
  BY ResumeWorkAssumption
<1>3. Keyed(b.platforms, K)
  BY <1>2 DEF Keyed
<1>4. Listed(b.platforms, Len(b.platforms)) = L
  <2>1. DOMAIN b.platforms = 1..Len(b.platforms)
    BY <1>2, LenProperties DEF IsSequence
  <2> QED
    BY <2>1 DEF Listed, Range
<1>5. Registered(s, K, b.existing, L)
  <2> HIDE DEF K, L
  <2> QED
    BY <1>3, <1>4, RegisterAllKeeps
<1>6. (\A l \in L : JobIdentity(l) # NoIdent) <=> ~blank
  <2>1. \A l : JobIdentity(l) = NoIdent <=> l.id = "" /\ l.url = ""
    <3>1. \A x : <<"id", x>> # NoIdent /\ <<"url", x>> # NoIdent
      BY DEF NoIdent
    <3> QED
      BY <3>1 DEF JobIdentity
  <2> HIDE DEF L
  <2> QED
    BY <2>1
<1>7. /\ s.added \in Seq(K) /\ s.shown \in Seq(K) /\ s.existing = b.existing
      /\ Range(s.shown) = K /\ Range(s.added) \subseteq K
      /\ Range(s.shown) \subseteq b.existing \cup Range(s.added)
      /\ ~blank => /\ IsInjective(s.shown) /\ IsInjective(s.added)
                   /\ Range(s.added) \cap b.existing = {}
  <2> HIDE DEF s, L, blank
  <2> QED
    BY <1>5, <1>6 DEF Registered
<1>8. DOMAIN << >> = {} /\ Range(<< >>) = {} /\ IsInjective(<< >>)
  <2>1. DOMAIN << >> = {}
    BY EmptySeq
  <2> QED
    BY <2>1 DEF Range, IsInjective
<1> DEFINE commits == /\ IsInjective(s.added)
                      /\ Range(s.added) \cap (s.existing \cup b.meanwhile) = {}
<1>9. /\ commits => /\ kept.shown = s.shown
                    /\ kept.rows = s.existing \cup b.meanwhile \cup Range(s.added)
      /\ ~commits => kept.shown = << >>
  BY DEF Commit
<1>10. IsInjective(kept.shown) \/ blank
  <2> HIDE DEF kept, s, commits, blank
  <2> QED
    BY <1>7, <1>8, <1>9
<1>11. Range(kept.shown) \subseteq kept.rows
  <2> HIDE DEF kept, s, commits, K, L, blank
  <2> QED
    BY <1>7, <1>8, <1>9
<1>12. ASSUME ~blank, K \cap b.meanwhile = {}
       PROVE  Cardinality(Range(kept.shown)) = Cardinality({{m \in L : Same(l, m)} : l \in L})
  <2>1. commits
    <3> HIDE DEF s, K, L, blank
    <3> QED
      BY <1>7, <1>12
  <2>2. Range(kept.shown) = K
    <3> HIDE DEF kept, s, K, L, blank, commits
    <3> QED
      BY <1>7, <1>9, <2>1
  <2>3. IsFiniteSet(K)
    <3>1. IsSequence(s.shown)
      <4> HIDE DEF s
      <4>1. \A k \in 1..Len(s.shown) : s.shown[k] \in {s.shown[j] : j \in DOMAIN s.shown}
        BY <1>7, LenProperties
      <4>2. s.shown = [k \in 1..Len(s.shown) |-> s.shown[k]] /\ Len(s.shown) \in Nat
        BY <1>7, LenProperties
      <4> QED
        BY <4>1, <4>2, IsASeq DEF IsSequence
    <3> HIDE DEF s, K, L, blank
    <3> QED
      BY <1>7, <3>1, RangesAreFinite
  <2>4. \A l \in L : JobIdentity(l) # NoIdent
    <3> HIDE DEF L, blank
    <3> QED
      BY <1>6, <1>12
  <2>5. Cardinality(K) = Cardinality({{m \in L : Same(l, m)} : l \in L})
    <3> HIDE DEF L
    <3> QED
      BY <2>3, <2>4, KeysTellApart
  <2> QED
    BY <2>2, <2>5
<1>13. KeptAll(b, kept.rows, kept.shown)
  <2> HIDE DEF kept, b
  <2> QED
    BY <1>10, <1>11, <1>12 DEF KeptAll, Same
<1>14. SearchKeepsListings'
  <2>1. (result'.op = "find" => KeptAll(result'.board, result'.rows, result'.shown))
           => SearchKeepsListings'
    BY DEF SearchKeepsListings, KeptAll, Same
  <2> HIDE DEF kept, b
  <2> QED
    BY <1>1, <1>13, <2>1
<1> QED
  BY <1>1, <1>14

-----------------------------------------------------------------------------
(* Scores.                                                                 *)

LEMMA Quotients ==
    ASSUME NEW a \in Nat, NEW b \in Nat, NEW d \in Nat \ {0}, a <= b
    PROVE  a \div d \in Nat /\ b \div d \in Nat /\ a \div d <= b \div d
OBVIOUS

LEMMA WholeQuotient ==
    ASSUME NEW d \in Nat \ {0}
    PROVE  (Full * d) \div d = Full
BY DEF Full

\* A larger share of the same whole is a larger part of Full.
LEMMA SharesGrow ==
    ASSUME NEW whole \in Nat \ {0}, NEW p \in 0..whole, NEW q \in p..whole
    PROVE  Share(p, whole) \in 0..Full /\ Share(q, whole) \in Share(p, whole)..Full
<1>1. p \in Nat /\ q \in Nat /\ p <= q /\ q <= whole
  OBVIOUS
<1>2. Full * p \in Nat /\ Full * q \in Nat /\ Full * whole \in Nat
      /\ Full * p <= Full * q /\ Full * q <= Full * whole /\ Full \in Nat
  BY <1>1 DEF Full
<1>3. (Full * p) \div whole <= (Full * q) \div whole /\ (Full * q) \div whole <= Full
      /\ (Full * p) \div whole \in Nat /\ (Full * q) \div whole \in Nat
  BY <1>2, Quotients, WholeQuotient
<1> QED
  BY <1>2, <1>3 DEF Share

LEMMA LeastGrows ==
    ASSUME NEW m \in Nat, NEW n \in Nat, m <= n
    PROVE  Least(m, Full) \in 0..Full /\ Least(n, Full) \in Least(m, Full)..Full
BY DEF Least, Full

\* No factor of the score falls when none of those it is put together from does.
LEMMA OverallGrows ==
    ASSUME NEW s \in 0..Full, NEW e \in 0..Full, NEW d \in 0..Full, NEW k \in 0..Full,
           NEW t \in s..Full, NEW l \in k..Full
    PROVE  OverallScore(s, e, d, k) \in 0..Full
           /\ OverallScore(t, e, d, l) \in OverallScore(s, e, d, k)..Full
<1> DEFINE m == 4 * s + 3 * e + 2 * d + k
           n == 4 * t + 3 * e + 2 * d + l
<1>1. m \in Nat /\ n \in Nat /\ m <= n
  BY DEF Full
<1> HIDE DEF m, n
<1>2. m \div 10 \in Nat /\ n \div 10 \in Nat /\ m \div 10 <= n \div 10
  BY <1>1, Quotients
<1>3. /\ Least(m \div 10, Full) \in 0..Full
      /\ Least(n \div 10, Full) \in Least(m \div 10, Full)..Full
  BY <1>2, LeastGrows
<1> QED
  BY <1>3 DEF OverallScore, m, n

\* One more term in a text.
LEMMA MoreIsIn ==
    ASSUME NEW text, IsSequence(text), NEW s
    PROVE  In(Append(text, s)) = In(text) \cup {s} /\ IsFiniteSet(In(text))
<1> DEFINE T == {text[k] : k \in DOMAIN text}
           U == T \cup {s}
<1>0. text \in Seq(T) /\ T \subseteq U /\ s \in U
  BY DEF IsSequence
<1> HIDE DEF T, U
<1>1. text \in Seq(U)
  BY <1>0, SeqMonotonic
<1>2. Range(Append(text, s)) = Range(text) \cup {s}
  BY <1>0, <1>1, Appended
<1> QED
  BY <1>2, RangesAreFinite DEF In

\* A text with more terms names no skill less, and a skill found is found with more.
LEMMA SkillsGrow ==
    ASSUME NEW less, NEW more, In(less) \subseteq In(more), NEW required,
           HasSkill(ExtractSkills(less), required)
    PROVE  HasSkill(ExtractSkills(more), required)
BY DEF HasSkill, ExtractSkills

\* A skill of the tables is found in a text that names it by a term that can be found.
LEMMA NamedSkill ==
    ASSUME NEW s \in Bounded, NormalizeSkill(s) \in DOMAIN Variations, NEW text, s \in In(text)
    PROVE  HasSkill(ExtractSkills(text), s)
<1> DEFINE t == NormalizeSkill(s)
<1>1. s \in Variations[t]
  BY AtsAssumption DEF NormalizeSkill
<1>2. t \in ExtractSkills(text)
  BY <1>1 DEF ExtractSkills
<1>3. NormalizeSkill(t) = t
  BY AtsAssumption DEF NormalizeSkill
<1> QED
  BY <1>2, <1>3 DEF HasSkill

\* A function f goes through the skills wanted and keeps those that are lacking.
Lacks(f, skills, wanted) ==
    /\ f[0] = << >>
    /\ \A n \in 1..Len(wanted) :
         /\ n - 1 \in 0..Len(wanted) /\ n \in 0..Len(wanted) /\ wanted[n] \in Range(wanted)
         /\ HasSkill(skills, wanted[n]) => f[n] = f[n - 1]
         /\ ~HasSkill(skills, wanted[n]) => f[n] = Append(f[n - 1], wanted[n])
    /\ Missing(skills, wanted) = f[Len(wanted)]

LEMMA MissingUnfolds ==
    ASSUME NEW wanted, IsSequence(wanted), NEW skills
    PROVE  \E f \in [0..Len(wanted) -> Seq(Range(wanted))] : Lacks(f, skills, wanted)
<1> DEFINE last == Len(wanted)
           S == Seq(Range(wanted))
           Next1(m, n) == IF HasSkill(skills, wanted[n]) THEN m ELSE Append(m, wanted[n])
           step == [m \in S |-> [n \in 1..last |-> Next1(m, n)]]
           Steps(g) == g = [n \in 0..last |-> IF n = 0 THEN << >>
                                                ELSE IF HasSkill(skills, wanted[n]) THEN g[n - 1]
                                                ELSE Append(g[n - 1], wanted[n])]
<1>1. last \in Nat /\ DOMAIN wanted = 1..last /\ << >> \in S
  BY LenProperties DEF IsSequence
<1>2. \A m \in S, n \in 1..last : Next1(m, n) \in S
  <2> TAKE m \in S, n \in 1..last
  <2>1. wanted[n] \in Range(wanted)
    BY <1>1 DEF Range
  <2> QED
    BY <2>1, AppendProperties
<1>3. step \in [S -> [1..last -> S]]
  <2> HIDE DEF Next1, S
  <2> QED
    BY <1>2
<1>4. Missing(skills, wanted) = (CHOOSE g : Steps(g))[last]
  BY DEF Missing
<1>5. \A m \in S, n \in 1..last : step[m][n] = Next1(m, n)
  OBVIOUS
<1> HIDE DEF step, last, S
<1>6. PICK h : Unfolds(h, S, last, << >>, step)
  BY <1>1, <1>3, Unfolding
<1>7. \A n \in 1..last : h[n] = Next1(h[n - 1], n)
  <2> HIDE DEF Next1
  <2> QED
    BY <1>5, <1>6 DEF Unfolds
<1>8. \A n \in 0..last : n # 0 => n \in 1..last
  BY <1>1
<1>9. Steps(h)
  BY <1>6, <1>7, <1>8 DEF Unfolds
<1>10. ASSUME NEW g, Steps(g) PROVE g[last] = h[last]
  <2>1. g[0] = << >>
    BY <1>1, <1>10
  <2>2. ASSUME NEW n \in 1..last PROVE g[n] = Next1(g[n - 1], n)
    <3>1. n \in 0..last /\ n # 0
      BY <1>1
    <3> QED
      BY <1>10, <3>1
  <2> HIDE DEF Steps, Next1
  <2>3. \A n \in 1..last : g[n - 1] \in S => g[n] = step[g[n - 1]][n]
    BY <1>5, <2>2
  <2> QED
    BY <1>6, <2>1, <2>3 DEF Unfolds
<1>11. Missing(skills, wanted) = h[last]
  <2> HIDE DEF Steps
  <2> QED
    BY <1>4, <1>9, <1>10
<1>12. \A n \in 1..last : n - 1 \in 0..last /\ n \in 0..last /\ wanted[n] \in Range(wanted)
  <2>1. \A n \in 1..last : wanted[n] \in Range(wanted)
    BY <1>1 DEF Range
  <2>2. \A n \in 1..last : n - 1 \in 0..last /\ n \in 0..last
    BY <1>1
  <2> QED
    BY <2>1, <2>2
<1>13. h \in [0..last -> S] /\ h[0] = << >>
  BY <1>6 DEF Unfolds
<1>14. Lacks(h, skills, wanted)
  BY <1>7, <1>11, <1>12, <1>13 DEF Lacks, last
<1> QED
  BY <1>13, <1>14 DEF last, S

\* With more skills, fewer are missing, and none that is there.
LEMMA MissingShrinks ==
    ASSUME NEW wanted, IsSequence(wanted), NEW few, NEW many,
           \A w \in Range(wanted) : HasSkill(few, w) => HasSkill(many, w)
    PROVE  /\ Len(Missing(few, wanted)) \in 0..Len(wanted) /\ Len(wanted) \in Nat
           /\ Len(Missing(many, wanted)) \in 0..Len(Missing(few, wanted))
           /\ \A w \in Range(Missing(many, wanted)) : ~HasSkill(many, w)
<1> DEFINE last == Len(wanted)
           K == Range(wanted)
<1>1. last \in Nat
  BY LenProperties DEF IsSequence
<1>2. PICK f \in [0..last -> Seq(K)] : Lacks(f, few, wanted)
  BY MissingUnfolds
<1>3. PICK g \in [0..last -> Seq(K)] : Lacks(g, many, wanted)
  BY MissingUnfolds
<1> DEFINE Good(n) == /\ Len(f[n]) \in 0..n /\ Len(g[n]) \in 0..Len(f[n])
                      /\ \A w \in Range(g[n]) : ~HasSkill(many, w)
           U == {n \in 0..last : ~Good(n)}
<1>4. Good(0)
  <2>1. f[0] = << >> /\ g[0] = << >>
    BY <1>2, <1>3 DEF Lacks
  <2>2. Range(<< >>) = {}
    BY DEF Range
  <2> QED
    BY <2>1, <2>2
<1>5. ASSUME NEW n \in 1..last, Good(n - 1) PROVE Good(n)
  <2>1. /\ n - 1 \in 0..last /\ n \in 0..last /\ wanted[n] \in K
        /\ HasSkill(few, wanted[n]) => f[n] = f[n - 1]
        /\ ~HasSkill(few, wanted[n]) => f[n] = Append(f[n - 1], wanted[n])
        /\ HasSkill(many, wanted[n]) => g[n] = g[n - 1]
        /\ ~HasSkill(many, wanted[n]) => g[n] = Append(g[n - 1], wanted[n])
        /\ HasSkill(few, wanted[n]) => HasSkill(many, wanted[n])
    BY <1>2, <1>3 DEF Lacks
  <2>2. f[n - 1] \in Seq(K) /\ g[n - 1] \in Seq(K)
    BY <2>1
  <2>3. /\ Len(Append(f[n - 1], wanted[n])) = Len(f[n - 1]) + 1
        /\ Len(Append(g[n - 1], wanted[n])) = Len(g[n - 1]) + 1
        /\ Range(Append(g[n - 1], wanted[n])) = Range(g[n - 1]) \cup {wanted[n]}
    BY <2>1, <2>2, AppendProperties, Appended
  <2>4. Len(f[n - 1]) \in 0..(n - 1) /\ Len(g[n - 1]) \in 0..Len(f[n - 1])
        /\ \A w \in Range(g[n - 1]) : ~HasSkill(many, w)
    BY <1>5
  <2> HIDE DEF Good, K
  <2>5. Len(f[n]) \in 0..n /\ Len(g[n]) \in 0..Len(f[n])
    BY <2>1, <2>3, <2>4
  <2>6. \A w \in Range(g[n]) : ~HasSkill(many, w)
    BY <2>1, <2>3, <2>4
  <2> QED
    BY <2>5, <2>6 DEF Good
<1> HIDE DEF Good
<1>6. ASSUME U # {} PROVE FALSE
  <2>1. U \in SUBSET Nat
    OBVIOUS
  <2>2. PICK n \in U : \A k \in Nat : k < n => k \notin U
    <3> HIDE DEF U
    <3> QED
      BY <1>6, <2>1, LeastOne
  <2>3. n \in 1..last /\ n - 1 \in Nat /\ n - 1 < n /\ n - 1 \in 0..last
    BY <1>1, <1>4
  <2>4. Good(n - 1)
    BY <2>2, <2>3
  <2> QED
    BY <1>5, <2>3, <2>4
<1>7. Good(last)
  BY <1>1, <1>6
<1> QED
  BY <1>1, <1>2, <1>3, <1>7 DEF Good, Lacks

\* The number g of a share or a score is in range, and the later m is no less.
Grown(g, m) == g \in 0..Full /\ m \in g..Full

LEMMA SkillShareGrows ==
    ASSUME NEW wanted, IsSequence(wanted), NEW few, NEW many,
           \A w \in Range(wanted) : HasSkill(few, w) => HasSkill(many, w)
    PROVE  Grown(SkillShare(few, wanted), SkillShare(many, wanted))
<1> DEFINE whole == IF wanted = << >> THEN 1 ELSE Len(wanted)
           p == Len(wanted) - Len(Missing(few, wanted))
           q == Len(wanted) - Len(Missing(many, wanted))
<1>1. /\ Len(Missing(few, wanted)) \in 0..Len(wanted) /\ Len(wanted) \in Nat
      /\ Len(Missing(many, wanted)) \in 0..Len(Missing(few, wanted))
  BY MissingShrinks
<1>2. wanted = << >> => Len(wanted) = 0
  OBVIOUS
<1>3. wanted # << >> => Len(wanted) \in Nat \ {0}
  BY EmptySeq DEF IsSequence
<1>4. whole \in Nat \ {0} /\ p \in 0..whole /\ q \in p..whole
  BY <1>1, <1>2, <1>3
<1> HIDE DEF whole, p, q
<1>5. Share(p, whole) \in 0..Full /\ Share(q, whole) \in Share(p, whole)..Full
  BY <1>4, SharesGrow
<1> QED
  BY <1>5 DEF whole, p, q, Grown, SkillShare

LEMMA SkillScoreGrows ==
    ASSUME NEW required, IsSequence(required), NEW preferred, IsSequence(preferred),
           NEW few, NEW many, \A w : HasSkill(few, w) => HasSkill(many, w)
    PROVE  Grown(SkillScore(few, required, preferred), SkillScore(many, required, preferred))
<1>1. /\ Grown(SkillShare(few, required), SkillShare(many, required))
      /\ Grown(SkillShare(few, preferred), SkillShare(many, preferred))
  BY SkillShareGrows
<1>2. CASE required = << >> /\ preferred = << >>
  <2>1. /\ SkillScore(few, required, preferred) = Full \div 2
        /\ SkillScore(many, required, preferred) = Full \div 2
    BY <1>2 DEF SkillScore
  <2> QED
    BY <2>1 DEF Grown, Full
<1>3. CASE required # << >> /\ preferred # << >>
  <2>1. ASSUME NEW a \in 0..Full, NEW b \in 0..Full, NEW c \in a..Full, NEW d \in b..Full
        PROVE  Grown((7 * a + 3 * b) \div 10, (7 * c + 3 * d) \div 10)
    <3> DEFINE m == 7 * a + 3 * b
               n == 7 * c + 3 * d
    <3>1. m \in Nat /\ n \in Nat /\ m <= n /\ n <= 100000
      BY DEF Full
    <3> HIDE DEF m, n
    <3>2. /\ m \div 10 \in Nat /\ n \div 10 \in Nat /\ m \div 10 <= n \div 10
          /\ n \div 10 <= 100000 \div 10 /\ 100000 \div 10 = 10000
      BY <3>1, Quotients
    <3> QED
      BY <3>2 DEF Grown, Full, m, n
  <2>2. /\ SkillScore(few, required, preferred)
             = (7 * SkillShare(few, required) + 3 * SkillShare(few, preferred)) \div 10
        /\ SkillScore(many, required, preferred)
             = (7 * SkillShare(many, required) + 3 * SkillShare(many, preferred)) \div 10
    BY <1>3, Zenon DEF SkillScore
  <2>3. /\ SkillShare(few, required) \in 0..Full
        /\ SkillShare(many, required) \in SkillShare(few, required)..Full
        /\ SkillShare(few, preferred) \in 0..Full
        /\ SkillShare(many, preferred) \in SkillShare(few, preferred)..Full
    BY <1>1, Zenon DEF Grown
  <2> QED
    BY <2>1, <2>2, <2>3
<1>4. CASE required # << >> /\ preferred = << >>
  <2>1. /\ SkillScore(few, required, preferred) = SkillShare(few, required)
        /\ SkillScore(many, required, preferred) = SkillShare(many, required)
    BY <1>4 DEF SkillScore
  <2> QED
    BY <1>1, <2>1
<1>5. CASE required = << >> /\ preferred # << >>
  <2>1. /\ SkillScore(few, required, preferred) = SkillShare(few, preferred)
        /\ SkillScore(many, required, preferred) = SkillShare(many, preferred)
    BY <1>5 DEF SkillScore
  <2> QED
    BY <1>1, <2>1
<1> QED
  BY <1>2, <1>3, <1>4, <1>5

\* A sum of larger numbers is larger.
LEMMA SumsGrow ==
    ASSUME NEW last \in Nat, NEW ns \in [1..last -> Int], NEW ms \in [1..last -> Int],
           \A n \in 1..last : 0 <= ns[n] /\ ns[n] <= ms[n]
    PROVE  SumOf(ns) \in Nat /\ SumOf(ms) \in Nat /\ SumOf(ns) <= SumOf(ms)
<1>1. PICK f \in [0..last -> Int] :
         /\ f[0] = 0
         /\ \A n \in 1..last : n - 1 \in 0..last /\ f[n] = f[n - 1] + ns[n]
         /\ SumOf(ns) = f[last]
  BY SumUnfolds
<1>2. PICK g \in [0..last -> Int] :
         /\ g[0] = 0
         /\ \A n \in 1..last : n - 1 \in 0..last /\ g[n] = g[n - 1] + ms[n]
         /\ SumOf(ms) = g[last]
  BY SumUnfolds
<1> DEFINE Good(n) == 0 <= f[n] /\ f[n] <= g[n]
           U == {n \in 0..last : ~Good(n)}
<1>3. Good(0)
  BY <1>1, <1>2
<1>4. ASSUME NEW n \in 1..last, Good(n - 1) PROVE Good(n)
  <2>1. n - 1 \in 0..last /\ n \in 0..last
    BY <1>1
  <2>2. /\ f[n - 1] \in Int /\ g[n - 1] \in Int /\ ns[n] \in Int /\ ms[n] \in Int
        /\ f[n] = f[n - 1] + ns[n] /\ g[n] = g[n - 1] + ms[n]
    BY <1>1, <1>2, <2>1
  <2> QED
    BY <1>4, <2>2
<1> HIDE DEF Good
<1>5. ASSUME U # {} PROVE FALSE
  <2>1. U \in SUBSET Nat
    OBVIOUS
  <2>2. PICK n \in U : \A k \in Nat : k < n => k \notin U
    <3> HIDE DEF U
    <3> QED
      BY <1>5, <2>1, LeastOne
  <2>3. n \in 1..last /\ n - 1 \in Nat /\ n - 1 < n /\ n - 1 \in 0..last
    BY <1>3
  <2>4. Good(n - 1)
    BY <2>2, <2>3
  <2> QED
    BY <1>4, <2>3, <2>4
<1>6. Good(last) /\ f[last] \in Int /\ g[last] \in Int
  BY <1>5
<1> QED
  BY <1>1, <1>2, <1>6 DEF Good

\* The elements of a finite set in some order.
LEMMA SetsInOrder ==
    ASSUME NEW S, IsFiniteSet(S)
    PROVE  /\ Cardinality(S) \in Nat /\ (S # {} => Cardinality(S) # 0)
           /\ SetToSeq(S) \in [1..Cardinality(S) -> S]
           /\ Range(SetToSeq(S)) \subseteq S
<1>1. Cardinality(S) \in Nat /\ ExistsBijection(1..Cardinality(S), S)
  BY FS_CardinalityType
<1>2. S # {} => Cardinality(S) # 0
  BY FS_EmptySet
<1>3. PICK f \in [1..Cardinality(S) -> S] : IsInjective(f)
  <2>1. PICK f : f \in Bijection(1..Cardinality(S), S)
    BY <1>1 DEF ExistsBijection
  <2>2. f \in [1..Cardinality(S) -> S] /\ IsInjective(f)
    BY <2>1 DEF Bijection, Injection, IsInjective
  <2> QED
    BY <2>2
<1>4. SetToSeq(S) \in [1..Cardinality(S) -> S]
  BY <1>3 DEF SetToSeq
<1> QED
  BY <1>1, <1>2, <1>4 DEF Range

\* More of the keywords weigh more, and none of them more than all.
LEMMA OverlapGrows ==
    ASSUME NEW keywords, IsFiniteSet(DOMAIN keywords), DOMAIN keywords # {},
           \A k \in DOMAIN keywords : keywords[k] \in DOMAIN FrequencyWeight,
           NEW less, NEW more, In(less) \subseteq In(more)
    PROVE  Grown(TfidfOverlap(less, keywords), TfidfOverlap(more, keywords))
<1> DEFINE last == Cardinality(DOMAIN keywords)
           order == SetToSeq(DOMAIN keywords)
           weight(k) == FrequencyWeight[keywords[k]]
           Weights(ks) == [n \in 1..last |-> IF order[n] \in ks THEN weight(order[n]) ELSE 0]
<1>1. last \in Nat \ {0} /\ order \in [1..last -> DOMAIN keywords]
  BY SetsInOrder
<1>2. \A k \in DOMAIN keywords : weight(k) \in Nat \ {0}
  BY AtsAssumption
<1>3. /\ TfidfOverlap(less, keywords)
           = Share(SumOf(Weights(In(less))), SumOf(Weights(DOMAIN keywords)))
      /\ TfidfOverlap(more, keywords)
           = Share(SumOf(Weights(In(more))), SumOf(Weights(DOMAIN keywords)))
  BY <1>1 DEF TfidfOverlap
<1> HIDE DEF last, order, weight
<1>4. \A n \in 1..last : order[n] \in DOMAIN keywords /\ weight(order[n]) \in Nat \ {0}
  BY <1>1, <1>2
<1>5. \A ks : Weights(ks) \in [1..last -> Int]
  BY <1>4
<1>6. \A n \in 1..last : Weights(DOMAIN keywords)[n] > 0
  BY <1>4
<1>7. \A n \in 1..last : /\ 0 <= Weights(In(less))[n]
                         /\ Weights(In(less))[n] <= Weights(In(more))[n]
                         /\ 0 <= Weights(In(more))[n]
                         /\ Weights(In(more))[n] <= Weights(DOMAIN keywords)[n]
  BY <1>4
<1> HIDE DEF Weights
<1>8. SumOf(Weights(DOMAIN keywords)) \in Nat \ {0}
  <2> DEFINE W == Weights(DOMAIN keywords)
  <2>1. W \in [1..last -> Int] /\ last \in Nat /\ last # 0 /\ \A n \in 1..last : W[n] > 0
    BY <1>1, <1>5, <1>6
  <2> HIDE DEF W
  <2>2. SumOf(W) \in Int /\ SumOf(W) > 0
    BY <2>1, SumsOfNumbers
  <2> QED
    BY <2>2 DEF W
<1>9. /\ SumOf(Weights(In(less))) \in Nat /\ SumOf(Weights(In(more))) \in Nat
      /\ SumOf(Weights(In(less))) <= SumOf(Weights(In(more)))
      /\ SumOf(Weights(In(more))) <= SumOf(Weights(DOMAIN keywords))
  BY <1>1, <1>5, <1>7, SumsGrow
<1> QED
  BY <1>3, <1>8, <1>9, SharesGrow DEF Grown

\* The share of a finite set that a text names.
LEMMA NamedGrow ==
    ASSUME NEW S, IsFiniteSet(S), S # {}, NEW A, NEW B, A \subseteq B
    PROVE  Grown(Share(Cardinality(S \cap A), Cardinality(S)),
                 Share(Cardinality(S \cap B), Cardinality(S)))
<1>1. S \cap A \in SUBSET (S \cap B) /\ S \cap B \in SUBSET S
  OBVIOUS
<1>2. /\ Cardinality(S) \in Nat \ {0}
      /\ IsFiniteSet(S \cap B) /\ Cardinality(S \cap B) \in Nat
      /\ Cardinality(S \cap B) <= Cardinality(S)
      /\ Cardinality(S \cap A) \in Nat /\ Cardinality(S \cap A) <= Cardinality(S \cap B)
  BY <1>1, FS_Subset, FS_CardinalityType, FS_EmptySet
<1> QED
  BY <1>2, SharesGrow DEF Grown

\* What is assumed of a posting.
PostingSound(p) ==
    /\ IsSequence(p.words) /\ IsSequence(p.required) /\ IsSequence(p.preferred)
    /\ IsFiniteSet(DOMAIN p.keywords) /\ IsFiniteSet(p.phrases)
    /\ \A k \in DOMAIN p.keywords : p.keywords[k] \in DOMAIN FrequencyWeight
    /\ p.years \in Int

LEMMA PhrasesGrow ==
    ASSUME NEW p, PostingSound(p), NEW less, NEW more, In(less) \subseteq In(more)
    PROVE  Grown(PhraseMatchScore(less, p), PhraseMatchScore(more, p))
<1> DEFINE phrases == p.phrases \cup (IndustryTerms \cap In(p.words))
<1>1. IsFiniteSet(phrases)
  <2>1. IsFiniteSet(In(p.words)) /\ IsFiniteSet(p.phrases)
    BY RangesAreFinite DEF PostingSound, In
  <2>2. IsFiniteSet(IndustryTerms \cap In(p.words))
    BY <2>1, FS_Intersection
  <2> QED
    BY <2>1, <2>2, FS_Union
<1>2. CASE phrases = {}
  <2>1. PhraseMatchScore(less, p) = 0 /\ PhraseMatchScore(more, p) = 0
    BY <1>2 DEF PhraseMatchScore
  <2> QED
    BY <2>1 DEF Grown, Full
<1>3. CASE phrases # {}
  <2>1. /\ PhraseMatchScore(less, p) = Share(Cardinality(phrases \cap In(less)), Cardinality(phrases))
        /\ PhraseMatchScore(more, p) = Share(Cardinality(phrases \cap In(more)), Cardinality(phrases))
    BY <1>3 DEF PhraseMatchScore
  <2> HIDE DEF phrases
  <2> QED
    BY <1>1, <1>3, <2>1, NamedGrow
<1> QED
  BY <1>2, <1>3

\* m is in range like g, and not less if the condition holds.
GrownIf(condition, g, m) == g \in 0..Full /\ m \in 0..Full /\ (condition => m >= g)

LEMMA FullIsANumber == Full \in Nat
BY DEF Full

LEMMA RangesGrow ==
    ASSUME NEW g \in 0..Full, NEW m \in g..Full
    PROVE  m \in 0..Full /\ m >= g
<1>1. m \in Int /\ g \in Int /\ g <= m /\ m <= Full /\ 0 <= g
  BY FullIsANumber
<1> QED
  BY <1>1, FullIsANumber

LEMMA GrownAnyway ==
    ASSUME NEW condition \in BOOLEAN, NEW g, NEW m, Grown(g, m)
    PROVE  GrownIf(condition, g, m)
BY RangesGrow DEF Grown, GrownIf

\* The weighted parts of the keyword score, with the old similarity and a new one.
LEMMA WeightedGrow ==
    ASSUME NEW a \in 0..Full, NEW b \in 0..Full, NEW c \in a..Full, NEW d \in b..Full,
           NEW old \in 0..Full, NEW sim \in 0..Full
    PROVE  GrownIf(sim >= old, Least((4 * a + 3 * old + 3 * b) \div 10, Full),
                               Least((4 * c + 3 * sim + 3 * d) \div 10, Full))
<1> DEFINE m == 4 * a + 3 * old + 3 * b
           n == 4 * c + 3 * sim + 3 * d
<1>1. m \in Nat /\ n \in Nat /\ (sim >= old => m <= n)
  BY DEF Full
<1> HIDE DEF m, n
<1>2. /\ m \div 10 \in Nat /\ n \div 10 \in Nat
      /\ sim >= old => m \div 10 <= n \div 10
  BY <1>1, Quotients
<1>3. Least(m \div 10, Full) \in 0..Full /\ Least(n \div 10, Full) \in 0..Full
  BY <1>2, LeastGrows
<1>4. sim >= old => Least(n \div 10, Full) >= Least(m \div 10, Full)
  BY <1>2, LeastGrows, RangesGrow
<1> QED
  BY <1>3, <1>4 DEF GrownIf, m, n

LEMMA KeywordScoreGrows ==
    ASSUME NEW p, PostingSound(p), NEW less, NEW more, In(less) \subseteq In(more), more # << >>,
           NEW old \in 0..Full, NEW sim \in 0..Full
    PROVE  GrownIf(sim >= old, KeywordScore(less, p, old), KeywordScore(more, p, sim))
<1> DEFINE none == p.words = << >> \/ DOMAIN p.keywords = {}
           weighted(text, by) == Least((4 * TfidfOverlap(text, p.keywords) + 3 * by
                                          + 3 * PhraseMatchScore(text, p)) \div 10, Full)
<1>1. CASE none
  <2>1. KeywordScore(less, p, old) = 0 /\ KeywordScore(more, p, sim) = 0
    BY <1>1 DEF KeywordScore
  <2> QED
    BY <2>1 DEF GrownIf, Full
<1>2. CASE ~none
  <2>1. /\ Grown(TfidfOverlap(less, p.keywords), TfidfOverlap(more, p.keywords))
        /\ Grown(PhraseMatchScore(less, p), PhraseMatchScore(more, p))
    BY <1>2, OverlapGrows, PhrasesGrow DEF PostingSound
  <2>2. /\ less # << >> => KeywordScore(less, p, old) = weighted(less, old)
        /\ less = << >> => KeywordScore(less, p, old) = 0
        /\ KeywordScore(more, p, sim) = weighted(more, sim)
    BY <1>2, Zenon DEF KeywordScore
  <2>3. /\ TfidfOverlap(less, p.keywords) \in 0..Full
        /\ TfidfOverlap(more, p.keywords) \in TfidfOverlap(less, p.keywords)..Full
        /\ PhraseMatchScore(less, p) \in 0..Full
        /\ PhraseMatchScore(more, p) \in PhraseMatchScore(less, p)..Full
    BY <2>1, Zenon DEF Grown
  <2>4. GrownIf(sim >= old, weighted(less, old), weighted(more, sim))
    BY <2>3, WeightedGrow
  <2> HIDE DEF weighted
  <2>5. GrownIf(sim >= old, 0, weighted(more, sim))
    BY <2>4, FullIsANumber DEF GrownIf
  <2> QED
    BY <2>2, <2>4, <2>5
<1> QED
  BY <1>1, <1>2

LEMMA EducationRanks ==
    ASSUME NEW text
    PROVE  EducationRank(text) \in 0..5
<1> DEFINE named == {k \in DOMAIN Levels : Levels[k].word \in text}
<1>1. DOMAIN Levels = 1..6 /\ \A k \in 1..6 : Levels[k].rank \in 1..5
  <2>1. DOMAIN Levels = 1..6
    BY DEF Levels
  <2>2. /\ Levels[1].rank = 1 /\ Levels[2].rank = 2 /\ Levels[3].rank = 3
        /\ Levels[4].rank = 4 /\ Levels[5].rank = 5 /\ Levels[6].rank = 5
    BY DEF Levels
  <2>3. \A k \in 1..6 : k = 1 \/ k = 2 \/ k = 3 \/ k = 4 \/ k = 5 \/ k = 6
    OBVIOUS
  <2> QED
    BY <2>1, <2>2, <2>3
<1>2. CASE named = {}
  BY <1>2 DEF EducationRank
<1>3. CASE named # {}
  <2>1. named \in SUBSET Nat
    BY <1>1
  <2>2. Min(named) \in named
    <3> HIDE DEF named
    <3> QED
      BY <1>3, <2>1, MinIsMember
  <2>3. Levels[Min(named)].rank \in 1..5
    BY <1>1, <2>2
  <2>4. EducationRank(text) = Levels[Min(named)].rank
    BY <1>3 DEF EducationRank
  <2> QED
    BY <2>3, <2>4
<1> QED
  BY <1>2, <1>3

LEMMA EducationInRange ==
    ASSUME NEW degrees, NEW words
    PROVE  EducationScore(degrees, words) \in 0..Full
<1> DEFINE ranks == {0} \cup {EducationRank({d}) : d \in degrees}
           best == Max(ranks)
           needed == EducationRank({ExtractEducationRequirement(words)})
<1>1. ranks \subseteq 0..5 /\ 0 \in ranks /\ needed \in 0..5
  <2>1. (\A d \in degrees : EducationRank({d}) \in 0..5) /\ needed \in 0..5
    BY EducationRanks
  <2>2. 0 \in 0..5
    OBVIOUS
  <2> QED
    BY <2>1, <2>2, Zenon
<1>2. best \in 0..5
  <2> HIDE DEF ranks
  <2>1. \E x \in ranks : \A y \in ranks : x >= y
    <3>1. CASE 5 \in ranks
      BY <1>1, <3>1
    <3>2. CASE 5 \notin ranks /\ 4 \in ranks
      BY <1>1, <3>2
    <3>3. CASE 5 \notin ranks /\ 4 \notin ranks /\ 3 \in ranks
      BY <1>1, <3>3
    <3>4. CASE 5 \notin ranks /\ 4 \notin ranks /\ 3 \notin ranks /\ 2 \in ranks
      BY <1>1, <3>4
    <3>5. CASE 5 \notin ranks /\ 4 \notin ranks /\ 3 \notin ranks /\ 2 \notin ranks
      BY <1>1, <3>5
    <3> QED
      BY <3>1, <3>2, <3>3, <3>4, <3>5
  <2>2. best \in ranks
    BY <2>1 DEF Max
  <2> QED
    BY <1>1, <2>2
<1>3. \/ EducationScore(degrees, words) \in {Full \div 2, Full, Full \div 5}
      \/ EducationScore(degrees, words) = Share(best, needed) /\ ~(best >= needed)
  BY DEF EducationScore
<1> HIDE DEF best, needed
<1>4. CASE EducationScore(degrees, words) = Share(best, needed) /\ ~(best >= needed)
  <2>1. needed \in Nat \ {0} /\ best \in 0..needed
    BY <1>1, <1>2, <1>4
  <2> QED
    BY <1>4, <2>1, SharesGrow
<1>5. CASE EducationScore(degrees, words) \in {Full \div 2, Full, Full \div 5}
  BY <1>5 DEF Full
<1> QED
  BY <1>3, <1>4, <1>5

LEMMA Alignments ==
    ASSUME NEW candidate, NEW required
    PROVE  SeniorityAlignment(candidate, required) \in 0..Full
<1> DEFINE At(level) == CHOOSE k \in 1..5 :
                          <<"entry", "mid", "senior", "staff", "management">>[k] = level
           gap == IF At(candidate) > At(required) THEN At(candidate) - At(required)
                  ELSE At(required) - At(candidate)
<1>1. SeniorityAlignment(candidate, required)
        = CASE gap = 0 -> Full [] gap = 1 -> 7500 [] gap = 2 -> 4000 [] OTHER -> 1500
  BY DEF SeniorityAlignment
<1> HIDE DEF gap
<1>2. CASE gap = 0
  BY <1>1, <1>2 DEF Full
<1>3. CASE gap = 1
  BY <1>1, <1>3 DEF Full
<1>4. CASE gap = 2
  BY <1>1, <1>4 DEF Full
<1>5. CASE gap # 0 /\ gap # 1 /\ gap # 2
  BY <1>1, <1>5 DEF Full
<1> QED
  BY <1>2, <1>3, <1>4, <1>5

LEMMA ExperienceWeighs ==
    ASSUME NEW a \in 0..Full, NEW b \in 0..Full, NEW c \in 0..Full
    PROVE  (35 * a + 30 * b + 35 * c) \div 100 \in 0..Full
<1> DEFINE m == 35 * a + 30 * b + 35 * c
<1>0. a \in Nat /\ a <= Full /\ b \in Nat /\ b <= Full /\ c \in Nat /\ c <= Full
      /\ Full \in Nat
  BY DEF Full
<1>1. m \in Nat /\ m <= Full * 100 /\ Full * 100 \in Nat /\ Full \in Nat
  <2>1. 35 * a <= 35 * Full /\ 30 * b <= 30 * Full /\ 35 * c <= 35 * Full
    BY <1>0
  <2> QED
    BY <1>0, <2>1
<1> HIDE DEF m
<1>2. m \div 100 \in Nat /\ m \div 100 <= (Full * 100) \div 100 /\ (Full * 100) \div 100 = Full
  BY <1>1, Quotients, WholeQuotient
<1>3. m \div 100 \in 0..Full
  BY <1>1, <1>2
<1> QED
  BY <1>3 DEF m

LEMMA GrownAlready ==
    ASSUME NEW g \in 0..Full
    PROVE  Grown(g, g)
BY DEF Grown, Full

LEMMA ExperienceInRange ==
    ASSUME NEW entries, IsSequence(entries), \A e \in Range(entries) : e.years \in Nat,
           NEW p, PostingSound(p)
    PROVE  ExperienceScore(entries, p.words, p.years) \in 0..Full
<1> DEFINE last == Len(entries)
           numbers == [k \in DOMAIN entries |-> entries[k].years]
           target == IF p.years > 0 THEN p.years ELSE 3
           key == KeyResponsibilities(p.words)
           years == SumOf(numbers)
           a == Least(Share(years, target), Full)
           b == ResponsibilityScore(entries, p.words)
           c == SeniorityAlignment(InferSeniority(entries, years), DetectSeniority(p.words))
<1>1. last \in Nat /\ DOMAIN entries = 1..last
  BY LenProperties DEF IsSequence
<1>2. years \in Nat
  <2>1. \A k \in 1..last : numbers[k] \in Nat
    BY <1>1 DEF Range
  <2>2. numbers \in [1..last -> Int] /\ \A k \in 1..last : 0 <= numbers[k]
    BY <1>1, <2>1
  <2> HIDE DEF numbers, last
  <2> QED
    BY <1>1, <2>2, SumsGrow
<1>3. a \in 0..Full
  <2>1. target \in Nat \ {0}
    BY DEF PostingSound
  <2> HIDE DEF years, target
  <2>2. Full * years \in Nat
    BY <1>2 DEF Full
  <2>3. Share(years, target) \in Nat
    BY <2>1, <2>2, Quotients DEF Share
  <2> QED
    BY <2>3, LeastGrows
<1>4. b \in 0..Full
  <2>1. IsFiniteSet(key)
    <3>1. IsFiniteSet(In(p.words))
      BY RangesAreFinite DEF PostingSound, In
    <3> QED
      BY <3>1, FS_Intersection DEF KeyResponsibilities
  <2> DEFINE told == UNION {e.text \cup e.title : e \in In(entries)}
  <2>2. b = IF key = {} THEN Full \div 2
            ELSE Share(Cardinality(key \cap told), Cardinality(key))
    BY DEF ResponsibilityScore
  <2>3. CASE key = {}
    <3>1. b = Full \div 2
      BY <2>2, <2>3
    <3> HIDE DEF b
    <3> QED
      BY <3>1 DEF Full
  <2>4. CASE key # {}
    <3>1. b = Share(Cardinality(key \cap told), Cardinality(key))
      BY <2>2, <2>4
    <3> HIDE DEF b, key, told
    <3> QED
      BY <2>1, <2>4, <3>1, NamedGrow DEF Grown
  <2> QED
    BY <2>3, <2>4
<1>5. c \in 0..Full
  BY Alignments
<1>6. ExperienceScore(entries, p.words, p.years)
        = IF entries = << >> THEN 0 ELSE (35 * a + 30 * b + 35 * c) \div 100
  <2>1. CASE entries = << >>
    BY <2>1 DEF ExperienceScore
  <2>2. CASE entries # << >>
    BY <2>2 DEF ExperienceScore
  <2> QED
    BY <2>1, <2>2
<1> HIDE DEF a, b, c
<1>7. (35 * a + 30 * b + 35 * c) \div 100 \in 0..Full
  BY <1>3, <1>4, <1>5, ExperienceWeighs, Zenon
<1>8. 0 \in 0..Full
  BY DEF Full
<1> QED
  BY <1>6, <1>7, <1>8

\* Every factor of a score is in range, and none is less in the later one, but perhaps
\* those the similarity of the texts is part of.
AllGrown(alike, less, more) == \A f \in Factors : GrownIf(alike \/ f \notin Similar, less[f], more[f])

\* The candidate with a text.
Knows(c, text, entries, degrees) ==
    /\ c.text = text /\ c.skills = ExtractSkills(text)
    /\ c.experience = entries /\ c.degrees = degrees

LEMMA OverallGrowsIf ==
    ASSUME NEW condition \in BOOLEAN, NEW s, NEW t, Grown(s, t), NEW e \in 0..Full, NEW d \in 0..Full,
           NEW k, NEW l, GrownIf(condition, k, l)
    PROVE  GrownIf(condition, OverallScore(s, e, d, k), OverallScore(t, e, d, l))
<1>1. s \in 0..Full /\ t \in 0..Full /\ t \in s..Full /\ k \in 0..Full /\ l \in 0..Full
  BY RangesGrow DEF Grown, GrownIf
<1>2. t \in t..Full /\ l \in l..Full
  BY <1>1, FullIsANumber
<1>3. OverallScore(s, e, d, k) \in 0..Full /\ OverallScore(t, e, d, l) \in 0..Full
  BY <1>1, <1>2, OverallGrows
<1>4. ASSUME condition PROVE OverallScore(t, e, d, l) >= OverallScore(s, e, d, k)
  <2>1. l \in k..Full
    BY <1>1, <1>4, FullIsANumber DEF GrownIf
  <2>2. OverallScore(t, e, d, l) \in OverallScore(s, e, d, k)..Full
    BY <1>1, <2>1, OverallGrows
  <2> QED
    BY <1>3, <2>2, RangesGrow
<1> QED
  BY <1>3, <1>4 DEF GrownIf

\* Whatever the candidate's history, the engine's factors grow with the text.
LEMMA ScorerGrows ==
    ASSUME NEW p, PostingSound(p), NEW old \in 0..Full, NEW sim \in 0..Full,
           NEW less, NEW more, In(less) \subseteq In(more), more # << >>,
           NEW entries, IsSequence(entries), \A e \in Range(entries) : e.years \in Nat,
           NEW degrees, NEW c, Knows(c, less, entries, degrees),
           NEW d, Knows(d, more, entries, degrees)
    PROVE  AllGrown(sim >= old, ScoreOf(c, p, old), ScoreOf(d, p, sim))
<1> DEFINE skill(text) == SkillScore(ExtractSkills(text), p.required, p.preferred)
           experience == ExperienceScore(entries, p.words, p.years)
           education == EducationScore(degrees, p.words)
           keyword(text, by) == KeywordScore(text, p, by)
           overall(text, by) == OverallScore(skill(text), experience, education, keyword(text, by))
<1>1. \A w : HasSkill(ExtractSkills(less), w) => HasSkill(ExtractSkills(more), w)
  BY SkillsGrow
<1>2. /\ Grown(skill(less), skill(more))
      /\ GrownIf(sim >= old, keyword(less, old), keyword(more, sim))
      /\ experience \in 0..Full /\ education \in 0..Full
  BY <1>1, SkillScoreGrows, KeywordScoreGrows, ExperienceInRange, EducationInRange DEF PostingSound
<1>3. ASSUME NEW text, NEW by, NEW e, Knows(e, text, entries, degrees)
      PROVE  LET score == ScoreOf(e, p, by)
             IN  /\ score["overall"] = overall(text, by) /\ score["skill"] = skill(text)
                 /\ score["experience"] = experience /\ score["education"] = education
                 /\ score["keyword"] = keyword(text, by)
  BY <1>3 DEF ScoreOf, Knows
<1> HIDE DEF skill, experience, education, keyword
<1>4. /\ GrownIf(TRUE, skill(less), skill(more)) /\ GrownIf(TRUE, experience, experience)
      /\ GrownIf(TRUE, education, education)
  BY <1>2, GrownAlready, GrownAnyway
<1>5. GrownIf(sim >= old, overall(less, old), overall(more, sim))
  <2> DEFINE alike == sim >= old
  <2>1. alike \in BOOLEAN /\ GrownIf(alike, keyword(less, old), keyword(more, sim))
    BY <1>2
  <2> HIDE DEF alike
  <2>2. GrownIf(alike, overall(less, old), overall(more, sim))
    BY <1>2, <2>1, OverallGrowsIf
  <2> QED
    BY <2>2 DEF alike
<1> HIDE DEF overall
<1>6. "overall" \in Similar /\ "keyword" \in Similar
  BY DEF Similar
<1> QED
  BY <1>2, <1>3, <1>4, <1>5, <1>6 DEF AllGrown, Factors, GrownIf

LEMMA HalvesGrow ==
    ASSUME NEW a \in 0..Full, NEW b \in 0..Full, NEW c \in a..Full, NEW d \in b..Full
    PROVE  Grown((a + b) \div 2, (c + d) \div 2)
BY DEF Grown, Full

LEMMA FallbackGrows ==
    ASSUME NEW p, PostingSound(p), NEW less, NEW more, In(less) \subseteq In(more),
           NEW alike \in BOOLEAN
    PROVE  AllGrown(alike, FallbackScore(less, p), FallbackScore(more, p))
<1> DEFINE wanted == ExtractSkills(p.words)
           words == In(p.words)
           a(text) == IF wanted = {} THEN Full \div 2
                      ELSE Share(Cardinality(ExtractSkills(text) \cap wanted), Cardinality(wanted))
           d(text) == IF words = {} THEN 0
                      ELSE Share(Cardinality(words \cap In(text)), Cardinality(words))
<1>1. IsFiniteSet(wanted) /\ IsFiniteSet(words)
  <2>1. wanted \in SUBSET DOMAIN Variations
    BY DEF ExtractSkills
  <2> QED
    BY <2>1, AtsAssumption, FS_Subset, RangesAreFinite DEF PostingSound, In
<1>2. ASSUME NEW text
      PROVE  /\ FallbackScore(text, p)["overall"] = (a(text) + d(text)) \div 2
             /\ FallbackScore(text, p)["skill"] = a(text)
             /\ FallbackScore(text, p)["experience"] = 0
             /\ FallbackScore(text, p)["education"] = 0
             /\ FallbackScore(text, p)["keyword"] = d(text)
  BY DEF FallbackScore
<1>3. Grown(a(less), a(more))
  <2>1. CASE wanted = {}
    BY <2>1 DEF Grown, Full
  <2>2. CASE wanted # {}
    <3>1. ExtractSkills(less) \subseteq ExtractSkills(more)
      BY DEF ExtractSkills
    <3>2. /\ ExtractSkills(less) \cap wanted = wanted \cap ExtractSkills(less)
          /\ ExtractSkills(more) \cap wanted = wanted \cap ExtractSkills(more)
      OBVIOUS
    <3> HIDE DEF wanted
    <3> QED
      BY <1>1, <2>2, <3>1, <3>2, NamedGrow
  <2> QED
    BY <2>1, <2>2
<1>4. Grown(d(less), d(more))
  <2>1. CASE words = {}
    BY <2>1 DEF Grown, Full
  <2>2. CASE words # {}
    <3> HIDE DEF words
    <3> QED
      BY <1>1, <2>2, NamedGrow
  <2> QED
    BY <2>1, <2>2
<1> HIDE DEF a, d
<1>5. Grown((a(less) + d(less)) \div 2, (a(more) + d(more)) \div 2)
  BY <1>3, <1>4, HalvesGrow DEF Grown
<1>6. Grown(0, 0)
  BY DEF Grown, Full
<1>7. \A f \in Factors : Grown(FallbackScore(less, p)[f], FallbackScore(more, p)[f])
  BY <1>2, <1>3, <1>4, <1>5, <1>6 DEF Factors
<1>8. \A f \in Factors : (alike \/ f \notin Similar) \in BOOLEAN
  OBVIOUS
<1> QED
  BY <1>7, <1>8, GrownAnyway DEF AllGrown

LEMMA FromNothing ==
    ASSUME NEW condition \in BOOLEAN, NEW g, NEW m, GrownIf(condition, g, m)
    PROVE  GrownIf(condition, 0, m)
BY FullIsANumber DEF GrownIf

LEMMA AppendedIsSome ==
    ASSUME NEW text, IsSequence(text), NEW s
    PROVE  Append(text, s) # << >>
<1> DEFINE more == Append(text, s)
<1>1. s \in Range(more)
  BY MoreIsIn DEF In
<1>2. Range(<< >>) = {}
  BY DEF Range
<1> HIDE DEF more
<1> QED
  BY <1>1, <1>2

\* The service's own score grows as well, and a skill it knows is not missing once the text
\* names it by a term that can be found.
LEMMA ServiceGrows ==
    ASSUME NEW p, PostingSound(p), NEW old \in 0..Full, NEW sim \in 0..Full,
           NEW engine \in BOOLEAN, NEW text, IsSequence(text), NEW s
    PROVE  /\ AllGrown(sim >= old, ScoreResume(text, p, engine, old),
                       ScoreResume(Append(text, s), p, engine, sim))
           /\ NormalizeSkill(s) \in DOMAIN Variations /\ s \in Bounded =>
                s \notin Range(ScoreResume(Append(text, s), p, engine, sim).missing)
<1> DEFINE more == Append(text, s)
           Of(t, by) == IF engine THEN ScoreOf(CandidateOf(t), p, by) ELSE FallbackScore(t, p)
<1>1. In(text) \subseteq In(more) /\ s \in In(more)
  BY MoreIsIn
<1>2. more # << >>
  BY AppendedIsSome
<1> HIDE DEF more
<1>3. /\ ScoreResume(more, p, engine, sim) = Of(more, sim)
      /\ text # << >> => ScoreResume(text, p, engine, old) = Of(text, old)
      /\ text = << >> => ScoreResume(text, p, engine, old) = NoScoring
  BY <1>2 DEF ScoreResume
<1>4. ASSUME NEW less, In(less) \subseteq In(more)
      PROVE  AllGrown(sim >= old, Of(less, old), Of(more, sim))
  <2>1. CASE engine
    <3>1. IsSequence(<< >>) /\ \A e \in Range(<< >>) : e.years \in Nat
      BY EmptySeq DEF IsSequence, Range
    <3>2. AllGrown(sim >= old, ScoreOf(CandidateOf(less), p, old),
                   ScoreOf(CandidateOf(more), p, sim))
      <4>1. \A t : Knows(CandidateOf(t), t, << >>, {})
        BY DEF Knows, CandidateOf
      <4> HIDE DEF Of
      <4> QED
        BY <1>2, <1>4, <3>1, <4>1, ScorerGrows
    <3> QED
      BY <2>1, <3>2
  <2>2. CASE ~engine
    <3> DEFINE alike == sim >= old
    <3>1. alike \in BOOLEAN
      OBVIOUS
    <3> HIDE DEF alike
    <3>2. AllGrown(alike, FallbackScore(less, p), FallbackScore(more, p))
      BY <1>4, <3>1, FallbackGrows
    <3> QED
      BY <2>2, <3>2 DEF alike
  <2> QED
    BY <2>1, <2>2
<1>5. AllGrown(sim >= old, ScoreResume(text, p, engine, old), Of(more, sim))
  <2>1. CASE text # << >>
    BY <1>1, <1>3, <1>4, <2>1
  <2>2. CASE text = << >>
    <3>1. AllGrown(sim >= old, Of(more, old), Of(more, sim))
      BY <1>4
    <3> HIDE DEF Of
    <3>2. \A f \in Factors : NoScoring[f] = 0
      <4>1. /\ NoScoring["overall"] = 0 /\ NoScoring["skill"] = 0
            /\ NoScoring["experience"] = 0 /\ NoScoring["education"] = 0
            /\ NoScoring["keyword"] = 0
        BY DEF NoScoring
      <4> QED
        BY <4>1 DEF Factors
    <3>3. ASSUME NEW f \in Factors
          PROVE  GrownIf(sim >= old \/ f \notin Similar, NoScoring[f], Of(more, sim)[f])
      <4>1. GrownIf(sim >= old \/ f \notin Similar, Of(more, old)[f], Of(more, sim)[f])
        BY <3>1, Zenon DEF AllGrown
      <4> QED
        BY <3>2, <4>1, FromNothing
    <3> QED
      BY <1>3, <2>2, <3>3 DEF AllGrown
  <2> QED
    BY <2>1, <2>2
<1>6. ASSUME NormalizeSkill(s) \in DOMAIN Variations, s \in Bounded
      PROVE  s \notin Range(Of(more, sim).missing)
  <2>1. CASE engine
    <3>1. Of(more, sim).missing = Missing(ExtractSkills(more), p.required)
      BY <2>1 DEF ScoreOf, CandidateOf
    <3>2. HasSkill(ExtractSkills(more), s)
      BY <1>1, <1>6, NamedSkill
    <3>3. \A w \in Range(Missing(ExtractSkills(more), p.required)) :
            ~HasSkill(ExtractSkills(more), w)
      BY MissingShrinks, Zenon DEF PostingSound
    <3> QED
      BY <3>1, <3>2, <3>3
  <2>2. CASE ~engine
    <3> DEFINE lacking == ExtractSkills(p.words) \ ExtractSkills(more)
    <3>1. Of(more, sim).missing = SetToSeq(lacking)
      BY <2>2 DEF FallbackScore
    <3>2. lacking \in SUBSET DOMAIN Variations /\ s \notin lacking
      BY <1>1, <1>6, AtsAssumption DEF ExtractSkills
    <3> HIDE DEF lacking
    <3>3. IsFiniteSet(lacking)
      BY <3>2, AtsAssumption, FS_Subset
    <3>4. Range(SetToSeq(lacking)) \subseteq lacking
      BY <3>3, SetsInOrder
    <3> QED
      BY <3>1, <3>2, <3>4
  <2> QED
    BY <2>1, <2>2
<1> HIDE DEF Of
<1> QED
  BY <1>3, <1>5, <1>6 DEF more

\* What ScoreFollowsEvidence says of one result.
Followed(r) ==
    \A s \in Range(r.posting.required), sim \in Similarities :
      /\ AllGrown(sim >= r.similarity, r.score,
                  ScoreResume(Append(r.text, s), r.posting, r.engine, sim))
      /\ NormalizeSkill(s) \in DOMAIN Variations /\ s \in Bounded =>
           s \notin Range(ScoreResume(Append(r.text, s), r.posting, r.engine, sim).missing)
      /\ \A h \in Histories :
           AllGrown(sim >= r.similarity,
                    ScoreOf([CandidateOf(r.text) EXCEPT !.experience = h.experience,
                                                        !.degrees = h.degrees],
                            r.posting, r.similarity),
                    ScoreOf([CandidateOf(Append(r.text, s)) EXCEPT !.experience = h.experience,
                                                                   !.degrees = h.degrees],
                            r.posting, sim))

\* A resume that has been scored is scored as high or higher with one more skill.
LEMMA ScoredFollows ==
    ASSUME task.text \in ScoredTexts, task.posting \in JobTexts,
           NEW engine \in BOOLEAN, NEW similarity \in Similarities,
           ScoreEnds(engine, similarity)
    PROVE  result'.op = "score" /\ Followed(result')
<1>1. /\ result'.op = "score" /\ result'.text = task.text /\ result'.posting = task.posting
      /\ result'.engine = engine /\ result'.similarity = similarity
      /\ result'.score = ScoreResume(task.text, task.posting, engine, similarity)
  BY DEF ScoreEnds, Finish, Scores
<1> DEFINE p == task.posting
           text == task.text
<1>2. /\ PostingSound(p) /\ IsSequence(text)
      /\ \A sim \in Similarities : sim \in 0..Full
  BY ResumeWorkAssumption DEF PostingSound
<1>3. ASSUME NEW s, NEW sim \in Similarities, NEW h \in Histories
      PROVE  AllGrown(sim >= similarity,
                      ScoreOf([CandidateOf(text) EXCEPT !.experience = h.experience,
                                                        !.degrees = h.degrees], p, similarity),
                      ScoreOf([CandidateOf(Append(text, s)) EXCEPT !.experience = h.experience,
                                                                   !.degrees = h.degrees],
                              p, sim))
  <2>1. IsSequence(h.experience) /\ \A e \in Range(h.experience) : e.years \in Nat
    BY ResumeWorkAssumption
  <2>2. In(text) \subseteq In(Append(text, s)) /\ Append(text, s) # << >>
    BY <1>2, MoreIsIn, AppendedIsSome
  <2> DEFINE X(t) == [CandidateOf(t) EXCEPT !.experience = h.experience, !.degrees = h.degrees]
  <2>3. ASSUME NEW t PROVE Knows(X(t), t, h.experience, h.degrees)
    BY DEF CandidateOf, Knows
  <2>4. AllGrown(sim >= similarity, ScoreOf(X(text), p, similarity),
                                    ScoreOf(X(Append(text, s)), p, sim))
    <3> HIDE DEF X, p, text
    <3> QED
      BY <1>2, <2>1, <2>2, <2>3, ScorerGrows
  <2> QED
    BY <2>4
<1>4. ASSUME NEW s, NEW sim \in Similarities
      PROVE  /\ AllGrown(sim >= similarity, ScoreResume(text, p, engine, similarity),
                         ScoreResume(Append(text, s), p, engine, sim))
             /\ NormalizeSkill(s) \in DOMAIN Variations /\ s \in Bounded =>
                  s \notin Range(ScoreResume(Append(text, s), p, engine, sim).missing)
  <2> HIDE DEF p, text
  <2> QED
    BY <1>2, ServiceGrows
<1> QED
  BY <1>1, <1>3, <1>4, Zenon DEF Followed

LEMMA FollowedIsEnough ==
    ScoreFollowsEvidence <=> (result.op = "score" => Followed(result))
BY DEF ScoreFollowsEvidence, Followed, AllGrown, GrownIf

-----------------------------------------------------------------------------
(* Theorems.                                                               *)

LEMMA InitHolds ==
    ASSUME Init
    PROVE  IInv
<1>1. /\ call = Idle /\ billed = << >> /\ usage = << >> /\ lost = 0
      /\ task = NoTask /\ result = NoResult
  BY DEF Init, LlmInit
<1>2. LlmTypeOK
  <2>1. NoAsk \in Asks /\ << >> \in Seq(Models)
    BY DEF NoAsk, Asks
  <2> QED
    BY <1>1, <2>1 DEF LlmTypeOK, Idle, None
<1>3. LlmInv
  BY <1>1, <1>2 DEF LlmInv, CallSound, NothingIdle, PaidPerAttempt, RowsAccount, OneModel, Idle
<1>4. TaskSound /\ FailsClosed
  BY <1>1 DEF TaskSound, FailsClosed, Idle, NoTask, NoResult
<1> QED
  BY <1>3, <1>4 DEF IInv

\* All of IInv holds in every state: the bookkeeping of a call from its first request to
\* its last row, and what each operation may conclude from it.
THEOREM Invariance == WorkSpec => []IInv
<1>1. Init => IInv
  BY InitHolds
<1>2. IInv /\ [WorkNext]_vars => IInv'
  BY WorkKeeps
<1> QED
  BY <1>1, <1>2, PTL DEF WorkSpec

\* A call asks models there are, twice at most.
THEOREM CallsAreTyped == WorkSpec => []LlmTypeOK
<1>1. IInv => LlmTypeOK
  BY DEF IInv, LlmInv
<1> QED
  BY <1>1, Invariance, PTL

\* When a call is over, each answer with a text that was paid for on the user's behalf has
\* its one usage row, unless the database refused it, and the router asked one model, twice
\* at most, whatever the providers answered (client.py:357-417, router.py:125-178).
THEOREM EveryAnswerHasItsRow == WorkSpec => []AnswersAreAccounted
<1>1. IInv => AnswersAreAccounted
  <2> SUFFICES ASSUME LlmInv, call.phase \in {"answered", "failed"}
               PROVE  AnswersAreAccounted
    BY DEF IInv, AnswersAreAccounted
  <2>1. Len(usage) + lost = IF ~call.ask.user THEN 0 ELSE NumberPaid
    BY DEF LlmInv, RowsAccount
  <2>2. ASSUME call.ask.user, lost = 0, call.ask.structured, NEW k \in Paid
        PROVE  usage[Nth(k)] = [attempt |-> Nth(k), failed |-> billed[k].content = "malformed"]
    <3>1. Len(usage) = NumberPaid
      <4>1. Len(usage) \in Nat
        BY LenProperties DEF LlmInv, LlmTypeOK
      <4> QED
        BY <2>1, <2>2, <4>1
    <3>2. Nth(k) <= Len(usage)
      BY <3>1, PaidAreCounted DEF LlmInv
    <3> QED
      BY <2>2, <3>2 DEF LlmInv, RowsAccount
  <2>3. ASSUME call.ask.routed
        PROVE  /\ Len(billed) <= 2
               /\ \A k \in DOMAIN billed : billed[k].model = TaskModel(call.ask)
    <3>1. Len(billed) \in Nat /\ call.attempt \in {1, 2}
      BY LenProperties DEF LlmInv, LlmTypeOK
    <3> QED
      BY <2>3, <3>1 DEF LlmInv, OneModel
  <2> QED
    BY <2>1, <2>2, <2>3 DEF AnswersAreAccounted
<1> QED
  BY <1>1, Invariance, PTL

\* Unless the model's last answer could be read, nothing is matched, answered in the user's
\* name, accepted or passed; and what it does answer counts only as far as the code can
\* check it, whatever the candidates, questions, drafts and findings are
\* (matching.py:377-397, question_engine.py:108-143, package_generation.py:346-378, 566-595).
THEOREM EveryUseFailsClosed == WorkSpec => []FailsClosed
<1>1. IInv => FailsClosed
  BY DEF IInv
<1> QED
  BY <1>1, Invariance, PTL

\* A requirement earns something only from evidence the candidate has, every requirement
\* of the posting is in an analysis, and its score is a percentage, whatever the model
\* proposes and whoever the candidate is (matching.py:182-311).
THEOREM CreditRestsOnEvidence == WorkSpec => []CreditNeedsEvidence
<1>1. Init => CreditInv
  <2> SUFFICES ASSUME Init
               PROVE  CreditInv
    OBVIOUS
  <2>1. result.op = "none" /\ JobKnown
    BY DEF Init, NoResult, JobKnown
  <2> QED
    BY <2>1 DEF CreditInv, CreditNeedsEvidence
<1>2. CreditInv /\ [WorkNext]_vars => CreditInv'
  <2> SUFFICES ASSUME CreditInv, WorkNext \/ UNCHANGED vars
               PROVE  CreditInv'
    OBVIOUS
  <2>1. CASE Matched
    BY <2>1, MatchedIsCredited DEF CreditInv
  <2>2. CASE Normalised
    <3>1. job' = [job EXCEPT !.normalized = TRUE] /\ result' = result
      BY <2>2 DEF Normalised
    <3>2. DOMAIN job' = DOMAIN job /\ ("posting" \in DOMAIN job => job'.posting = job.posting)
      BY <3>1
    <3> QED
      BY <3>1, <3>2 DEF CreditInv, JobKnown, CreditNeedsEvidence
  <2>3. CASE Written
    BY <2>3, WrittenKeepsNames, CreditStands DEF Written
  <2>4. CASE Found
    <3>1. UNCHANGED job /\ result'.op = "find"
      BY <2>4 DEF Found, Alone, Finish
    <3> QED
      BY <3>1, CreditStands
  <2>5. CASE Scoring
    BY <2>5, ScoringLeavesTheJob, CreditStands
  <2>6. CASE ~Matched /\ ~Normalised /\ ~Written /\ ~Found /\ ~Scoring
    BY <2>6, OthersLeaveTheJob, CreditStands DEF Told
  <2> QED
    BY <2>1, <2>2, <2>3, <2>4, <2>5, <2>6
<1>3. CreditInv => CreditNeedsEvidence
  BY DEF CreditInv
<1> QED
  BY <1>1, <1>2, <1>3, PTL DEF WorkSpec

\* A name that the draft has right, and that cannot overlap another, still stands in the
\* text when all the names have been restored, in whatever order, however many they are
\* and whatever else was rewritten (package_facts.py:280-301, 362-382).
THEOREM ExactNamesKept == WorkSpec => []ExactNamesStay
<1>1. Init => ExactNamesStay
  BY DEF Init, NoResult, ExactNamesStay
<1>2. ExactNamesStay /\ [WorkNext]_vars => ExactNamesStay'
  <2> SUFFICES ASSUME ExactNamesStay, WorkNext \/ UNCHANGED vars
               PROVE  ExactNamesStay'
    OBVIOUS
  <2>1. CASE Written
    BY <2>1, WrittenKeepsNames
  <2>2. CASE Matched
    BY <2>2, MatchedIsAMatch DEF ExactNamesStay
  <2>3. CASE Normalised
    BY <2>3 DEF Normalised, ExactNamesStay
  <2>4. CASE Found
    BY <2>4 DEF Found, Finish, ExactNamesStay
  <2>5. CASE Scoring
    BY <2>5, ScoringLeavesTheJob DEF ExactNamesStay
  <2>6. CASE ~Matched /\ ~Normalised /\ ~Written /\ ~Found /\ ~Scoring
    <3>1. result' = result \/ result'.op # "text"
      BY <2>6, OthersLeaveTheJob DEF Told
    <3> QED
      BY <3>1 DEF ExactNamesStay
  <2> QED
    BY <2>1, <2>2, <2>3, <2>4, <2>5, <2>6
<1> QED
  BY <1>1, <1>2, PTL DEF WorkSpec

\* A search shows every listing of the platforms that answer, once, and stores what it
\* shows, unless a listing has no identity or another search was first; for any number
\* of platforms and listings (job_search.py:211-226, 265-303, 423-430).
THEOREM EveryListingIsKept == WorkSpec => []SearchKeepsListings
<1>1. Init => SearchKeepsListings
  <2>1. Init => result.op # "find"
    BY DEF Init, NoResult
  <2>2. result.op # "find" => SearchKeepsListings
    BY Zenon DEF SearchKeepsListings
  <2> QED
    BY <2>1, <2>2
<1>2. IInv /\ SearchKeepsListings /\ [WorkNext]_vars => SearchKeepsListings'
  <2> SUFFICES ASSUME IInv, SearchKeepsListings, WorkNext \/ UNCHANGED vars
               PROVE  SearchKeepsListings'
    OBVIOUS
  <2>1. CASE Found
    <3>1. task.board \in Boards
      BY <2>1 DEF Found, Alone, IInv, TaskSound
    <3> QED
      BY <2>1, <3>1, FoundKeepsListings
  <2>2. CASE ~Found
    <3>1. result' = result \/ result'.op # "find"
      <4>1. CASE Written
        BY <4>1, WrittenKeepsNames
      <4>2. CASE Matched
        BY <4>2, MatchedIsAMatch
      <4>3. CASE Normalised
        BY <4>3 DEF Normalised
      <4>4. CASE Scoring
        BY <4>4, ScoringLeavesTheJob
      <4>5. CASE ~Matched /\ ~Normalised /\ ~Written /\ ~Scoring
        BY <2>2, <4>5, OthersLeaveTheJob DEF Told
      <4> QED
        BY <4>1, <4>2, <4>3, <4>4, <4>5
    <3>2. CASE result' = result
      <4>1. SearchKeepsListings
              => (result.op = "find" => KeptAll(result.board, result.rows, result.shown))
        BY DEF SearchKeepsListings, KeptAll, Same
      <4>2. (result'.op = "find" => KeptAll(result'.board, result'.rows, result'.shown))
              => SearchKeepsListings'
        BY DEF SearchKeepsListings, KeptAll, Same
      <4> QED
        BY <3>2, <4>1, <4>2
    <3>3. CASE result'.op # "find"
      BY <3>3, Zenon DEF SearchKeepsListings
    <3> QED
      BY <3>1, <3>2, <3>3
  <2> QED
    BY <2>1, <2>2
<1> QED
  BY <1>1, <1>2, Invariance, PTL DEF WorkSpec

\* Naming one more of the skills a posting requires lowers neither the factor for skills
\* nor that for experience or education, with or without the language model and whatever the
\* candidate's history; it lowers the one for keywords and the overall score only if the
\* two texts become less similar; a skill of the tables is then no longer missing if its
\* term can be found between word boundaries; and every factor is in range, for any tables,
\* texts and postings (scorer.py:99-216, keyword_analyzer.py:177-310, skill_matcher.py:
\* 190-330, resume.py:366-480).
THEOREM ScoresFollowEvidence == WorkSpec => []ScoreFollowsEvidence
<1>1. Init => ScoreFollowsEvidence
  <2>1. Init => result.op # "score"
    BY DEF Init, NoResult
  <2> QED
    BY <2>1, FollowedIsEnough
<1>2. IInv /\ ScoreFollowsEvidence /\ [WorkNext]_vars => ScoreFollowsEvidence'
  <2> SUFFICES ASSUME IInv, ScoreFollowsEvidence, WorkNext \/ UNCHANGED vars
               PROVE  ScoreFollowsEvidence'
    OBVIOUS
  <2>1. result.op = "score" => Followed(result)
    BY FollowedIsEnough
  <2>2. (result'.op = "score" => Followed(result')) => ScoreFollowsEvidence'
    BY DEF ScoreFollowsEvidence, Followed, AllGrown, GrownIf
  <2>3. CASE Scoring
    <3>1. PICK engine \in BOOLEAN, similarity \in Similarities : ScoreEnds(engine, similarity)
      BY <2>3 DEF Scoring
    <3>2. task.text \in ScoredTexts /\ task.posting \in JobTexts
      BY <3>1 DEF ScoreEnds, Alone, IInv, TaskSound
    <3> QED
      BY <2>2, <3>1, <3>2, ScoredFollows
  <2>4. CASE ~Scoring
    <3>1. result' = result \/ result'.op # "score"
      <4>1. CASE Written
        BY <4>1, WrittenKeepsNames
      <4>2. CASE Matched
        BY <4>2, MatchedIsAMatch
      <4>3. CASE Normalised
        BY <4>3 DEF Normalised
      <4>4. CASE Found
        BY <4>4 DEF Found, Finish
      <4>5. CASE ~Matched /\ ~Normalised /\ ~Written /\ ~Found
        BY <2>4, <4>5, OthersLeaveTheJob DEF Told
      <4> QED
        BY <4>1, <4>2, <4>3, <4>4, <4>5
    <3>2. CASE result' = result
      BY <2>1, <2>2, <3>2
    <3>3. CASE result'.op # "score"
      BY <2>2, <3>3
    <3> QED
      BY <3>1, <3>2, <3>3
  <2> QED
    BY <2>3, <2>4
<1> QED
  BY <1>1, <1>2, Invariance, PTL DEF WorkSpec

\* Operations without those of ResumeWork are a special case: the theorems hold of
\* Assessment's specification as well.
THEOREM AssessmentIsWork == Spec => WorkSpec
<1>1. [Next]_vars => [WorkNext]_vars
  BY DEF WorkNext
<1> QED
  BY <1>1, PTL DEF Spec, WorkSpec
=============================================================================
