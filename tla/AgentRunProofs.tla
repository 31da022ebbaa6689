--------------------------- MODULE AgentRunProofs ---------------------------
(***************************************************************************)
(* Proofs about the run loop: that the session file keeps up with the      *)
(* conversation, that a run ends within its budget and with its answer,    *)
(* and that what an Anthropic provider is sent pairs calls and results.    *)
(***************************************************************************)
EXTENDS AgentRun, TLAPS, NaturalsInduction, WellFoundedInduction, FiniteSetTheorems

(* What the engine holds when it gives up control is what it saved; each   *)
(* action saves what it changed, so this is inductive alone.               *)
THEOREM SavedAtEveryAwait == Spec => []SavedBeforeAwait
<1>1. Init => SavedBeforeAwait
  BY DEF Init, SavedBeforeAwait
<1>2. SavedBeforeAwait /\ [Next]_vars => SavedBeforeAwait'
  <2> SUFFICES ASSUME SavedBeforeAwait, [Next]_vars PROVE SavedBeforeAwait'
    OBVIOUS
  <2> USE DEF SavedBeforeAwait, Phases
  <2>1. CASE UNCHANGED vars
    BY <2>1 DEF vars
  <2>2. ASSUME phase # "down", SaveSession PROVE SavedBeforeAwait'
    BY <2>2 DEF SaveSession
  <2>3. ASSUME phase # "down", UNCHANGED history, NoSave PROVE SavedBeforeAwait'
    BY <2>3 DEF NoSave
  <2>4. CASE Submit \/ ClearCommand \/ CompactCommand
    BY <2>4, <2>2, <2>3 DEF Submit, ClearCommand, CompactCommand, Push
  <2>5. CASE RunSteps
    <3>1. CASE BudgetStop \/ StartTurn
      BY <3>1, <2>2, <2>3 DEF BudgetStop, StartTurn
    <3>2. ASSUME NEW micro \in BOOLEAN, NoAutocompact(micro) \/ StartAutocompact(micro)
          PROVE  SavedBeforeAwait'
      BY <3>2, <2>2, <2>3 DEF NoAutocompact, StartAutocompact, Microcompact
    <3>3. CASE AutocompactTooLong \/ AutocompactFails \/ AutocompactSucceeds
      BY <3>3, <2>2, <2>3 DEF AutocompactTooLong, AutocompactFails, AutocompactSucceeds
    <3>4. CASE ModelFails \/ FinalAnswer \/ EmptyAnswer \/ TruncatedAnswer \/ Finalization
      BY <3>4, <2>2, <2>3
         DEF ModelFails, FinalAnswer, EmptyAnswer, TruncatedAnswer, Finalization, Push
    <3>5. ASSUME NEW shapes \in Rounds, ToolRound(shapes) PROVE SavedBeforeAwait'
      BY <3>5, <2>2 DEF ToolRound, Push
    <3>6. ASSUME NEW order, NEW follow \in BOOLEAN, ToolsDone(order, follow)
          PROVE  SavedBeforeAwait'
      BY <3>6, <2>2 DEF ToolsDone, Push
    <3> QED BY <2>5, <3>1, <3>2, <3>3, <3>4, <3>5, <3>6 DEF RunSteps
  <2>6. CASE HostAborts
    BY <2>6, <2>2, <2>3 DEF HostAborts, Push
  <2>7. CASE ToolsQuit \/ Crash
    BY <2>7 DEF ToolsQuit, Crash
  <2>8. CASE Resume
    BY <2>8 DEF Resume
  <2> QED BY <2>1, <2>4, <2>5, <2>6, <2>7, <2>8 DEF Next
<1> QED BY <1>1, <1>2, PTL DEF Spec

-----------------------------------------------------------------------------
(* Sequences whose elements are of no particular set.                      *)
IsSequence(s) == s \in Seq({s[i] : i \in DOMAIN s})

LEMMA InSequences ==
  ASSUME NEW S, NEW s \in Seq(S)
  PROVE  IsSequence(s)
<1>1. Len(s) \in Nat /\ DOMAIN s = 1..Len(s)
  OBVIOUS
<1>2. \A i \in 1..Len(s) : s[i] \in {s[j] : j \in DOMAIN s}
  BY <1>1
<1>3. s = [i \in 1..Len(s) |-> s[i]]
  BY <1>1
<1> QED BY <1>1, <1>2, <1>3 DEF IsSequence

LEMMA Joined ==
  ASSUME NEW s, IsSequence(s), NEW t, IsSequence(t)
  PROVE  /\ IsSequence(s \o t)
         /\ t # <<>> => s \o t # <<>> /\ Last(s \o t) = Last(t)
<1> DEFINE S == {s[i] : i \in DOMAIN s} \cup {t[i] : i \in DOMAIN t}
<1>1. s \in Seq(S) /\ t \in Seq(S)
  BY DEF IsSequence
<1> HIDE DEF S
<1>2. s \o t \in Seq(S)
  BY <1>1
<1>3. IsSequence(s \o t)
  BY <1>2, InSequences
<1>4. ASSUME t # <<>> PROVE s \o t # <<>> /\ Last(s \o t) = Last(t)
  <2>1. Len(s) \in Nat /\ Len(t) \in Nat /\ Len(t) > 0
    BY <1>1, <1>4
  <2>2. Len(s \o t) = Len(s) + Len(t)
    BY <1>1
  <2>3. (s \o t)[Len(s) + Len(t)] = t[Len(t)]
    BY <1>1, <2>1
  <2> QED BY <2>1, <2>2, <2>3 DEF Last
<1> QED BY <1>3, <1>4

LEMMA Tuples ==
  ASSUME NEW x, NEW y
  PROVE  /\ IsSequence(<<>>) /\ IsSequence(<<x>>) /\ IsSequence(<<x, y>>)
         /\ <<x>> # <<>> /\ Last(<<x>>) = x
<1>1. <<>> \in Seq({x, y}) /\ <<x>> \in Seq({x, y}) /\ <<x, y>> \in Seq({x, y})
  OBVIOUS
<1>2. <<x>> # <<>> /\ Last(<<x>>) = x
  BY DEF Last
<1> QED BY <1>1, <1>2, InSequences

-----------------------------------------------------------------------------
(***************************************************************************)
(* The invariant of a run.  A request is counted when it is sent and a     *)
(* turn when its calls come back, so the two counts agree at the head of   *)
(* the loop and differ by one while a request is out; the finalization is  *)
(* the one request that may follow a spent budget.  The answer is recorded *)
(* by the same step that reports it, and no other state claims one.        *)
(***************************************************************************)
Stored == IsSequence(history) /\ IsSequence(disk)

CountsInv ==
  /\ budget \in Nat \cup {Unlimited} /\ turns \in Nat /\ requests \in Nat
  /\ phase \in Phases /\ kind \in {"normal", "final", "command"}
  /\ phase \in {"idle", "down"} => kind = "normal" /\ turns = 0
  /\ phase = "down" => requests = 0
  /\ phase \in {"head", "tools"} => kind = "normal" /\ requests = turns
  /\ phase \in {"turn", "compact"} /\ kind = "normal" => requests = turns
  /\ phase = "model" => kind # "command"
  /\ phase = "model" /\ kind = "normal" => requests = turns + 1
  /\ phase = "turn" => kind # "command"

(* The budget that is left, for each kind of turn.                         *)
WithinBudget ==
  budget # Unlimited =>
    /\ phase = "tools" => turns <= budget /\ budget > 0
    /\ phase \in {"turn", "compact", "model"} /\ kind = "normal" => turns < budget
    /\ phase \in {"turn", "compact"} /\ kind = "final" => requests <= budget /\ budget > 0
    /\ phase = "model" /\ kind = "final" => requests <= budget + 1 /\ budget > 0
    /\ phase = "head" => turns = 0 \/ turns < budget

AnswerInv == AnswerIsRecorded /\ (phase # "idle" => outcome # "answer")

RunInv == Stored /\ CountsInv /\ WithinBudget /\ OneRequestBeyondBudget /\ AnswerInv

LEMMA RunInvInit == Init => RunInv
<1> SUFFICES ASSUME Init PROVE RunInv
  OBVIOUS
<1>1. Stored
  BY Tuples DEF Init, Stored
<1>2. CountsInv
  BY BudgetsAssumption DEF Init, CountsInv, Phases
<1>3. WithinBudget /\ OneRequestBeyondBudget
  BY BudgetsAssumption DEF Init, WithinBudget, OneRequestBeyondBudget
<1>4. AnswerInv
  BY DEF Init, AnswerInv, AnswerIsRecorded
<1> QED BY <1>1, <1>2, <1>3, <1>4 DEF RunInv

(* What is saved is a sequence of messages, like what it is made of.       *)
LEMMA SavedSequence ==
  ASSUME Stored, IsSequence(history'), SaveSession \/ NoSave
  PROVE  Stored'
BY DEF Stored, SaveSession, NoSave

LEMMA PushedSequence ==
  ASSUME Stored, NEW messages, IsSequence(messages), Push(messages)
  PROVE  Stored'
BY Joined, SavedSequence DEF Push, Stored

LEMMA SequencesStep ==
  ASSUME Stored, [Next]_vars
  PROVE  Stored'
<1>1. CASE UNCHANGED vars
  BY <1>1 DEF vars, Stored
<1>2. ASSUME UNCHANGED history, SaveSession \/ NoSave PROVE Stored'
  BY <1>2, SavedSequence DEF Stored
<1>3. CASE Submit
  BY <1>3, PushedSequence, Tuples DEF Submit
<1>4. CASE ClearCommand \/ CompactCommand
  BY <1>4, <1>2, SavedSequence, Tuples DEF ClearCommand, CompactCommand
<1>5. CASE RunSteps
  <2>1. CASE BudgetStop \/ StartTurn
    BY <2>1, <1>2 DEF BudgetStop, StartTurn
  <2>2. ASSUME NEW micro \in BOOLEAN, NoAutocompact(micro) \/ StartAutocompact(micro)
        PROVE  Stored'
    BY <2>2, <1>2 DEF NoAutocompact, StartAutocompact, Microcompact
  <2>3. CASE AutocompactTooLong \/ AutocompactFails
    BY <2>3, <1>2 DEF AutocompactTooLong, AutocompactFails
  <2>4. CASE AutocompactSucceeds
    BY <2>4, SavedSequence, Tuples DEF AutocompactSucceeds
  <2>5. CASE ModelFails \/ EmptyAnswer
    BY <2>5, <1>2 DEF ModelFails, EmptyAnswer
  <2>6. CASE FinalAnswer \/ TruncatedAnswer \/ Finalization
    BY <2>6, PushedSequence, Tuples DEF FinalAnswer, TruncatedAnswer, Finalization
  <2>7. ASSUME NEW shapes \in Rounds, ToolRound(shapes) PROVE Stored'
    BY <2>7, PushedSequence, Tuples DEF ToolRound
  <2>8. ASSUME NEW order, NEW follow \in BOOLEAN, ToolsDone(order, follow)
        PROVE  Stored'
    <3> DEFINE results_ == <<Results(RoundResults(Last(history).calls, order))>>
    <3>1. IsSequence(results_ \o (IF follow THEN <<UserText>> ELSE <<>>))
      BY Tuples, Joined
    <3> QED BY <2>8, <3>1, PushedSequence DEF ToolsDone
  <2> QED BY <1>5, <2>1, <2>2, <2>3, <2>4, <2>5, <2>6, <2>7, <2>8 DEF RunSteps
<1>6. CASE HostAborts
  BY <1>6, <1>2, PushedSequence, Tuples DEF HostAborts
<1>7. CASE ToolsQuit \/ Crash
  BY <1>7, Tuples DEF ToolsQuit, Crash, Stored
<1>8. CASE Resume
  BY <1>8 DEF Resume, Stored
<1> QED BY <1>1, <1>3, <1>4, <1>5, <1>6, <1>7, <1>8 DEF Next

(* The way out of a run leaves nothing of its turns.                       *)
LEMMA ReturnCounts ==
  ASSUME CountsInv, OneRequestBeyondBudget, NEW how, Return(how), UNCHANGED budget
  PROVE  CountsInv' /\ WithinBudget' /\ OneRequestBeyondBudget'
BY DEF Return, CountsInv, WithinBudget, OneRequestBeyondBudget, Phases

LEMMA FinalizeCounts ==
  ASSUME CountsInv, WithinBudget, OneRequestBeyondBudget, Finalize, UNCHANGED budget,
         phase = "tools" \/ (phase = "model" /\ kind = "normal")
  PROVE  CountsInv' /\ WithinBudget' /\ OneRequestBeyondBudget'
BY DEF Finalize, CountsInv, WithinBudget, OneRequestBeyondBudget, Phases

LEMMA CountsStep ==
  ASSUME CountsInv, WithinBudget, OneRequestBeyondBudget, [Next]_vars
  PROVE  CountsInv' /\ WithinBudget' /\ OneRequestBeyondBudget'
<1> DEFINE Goal == CountsInv' /\ WithinBudget' /\ OneRequestBeyondBudget'
<1>a. SUFFICES Goal
  OBVIOUS
<1>1. CASE UNCHANGED vars
  BY <1>1 DEF vars, runVars, staticVars, boundVars, CountsInv, WithinBudget,
              OneRequestBeyondBudget, BudgetReached
<1>2. ASSUME NEW p \in {"head", "turn", "tools"}, Goto(p), UNCHANGED budget,
             \/ phase = "tools" /\ p = "head" /\ ~BudgetReached(turns)
             \/ phase = "head" /\ p = "turn" /\ ~BudgetReached(turns)
      PROVE  Goal
  BY <1>2 DEF Goto, CountsInv, WithinBudget, OneRequestBeyondBudget, BudgetReached, Phases
<1>3. CASE Submit \/ ClearCommand \/ CompactCommand
  BY <1>3 DEF Submit, ClearCommand, CompactCommand, CountsInv, WithinBudget,
              OneRequestBeyondBudget, Phases
<1>4. CASE RunSteps
  <2>1. CASE BudgetStop
    BY <2>1, ReturnCounts DEF BudgetStop, staticVars
  <2>2. CASE StartTurn
    BY <2>2, <1>2 DEF StartTurn, staticVars
  <2>3. ASSUME phase \in {"turn", "compact"}, kind # "command", UNCHANGED <<kind, turns, budget>>,
               phase' = "model", requests' = requests + 1
        PROVE  Goal
    BY <2>3 DEF CountsInv, WithinBudget, OneRequestBeyondBudget, Phases
  <2>4. ASSUME NEW micro \in BOOLEAN, NoAutocompact(micro) PROVE Goal
    BY <2>4, <2>3, ReturnCounts DEF NoAutocompact, staticVars, CountsInv
  <2>5. ASSUME NEW micro \in BOOLEAN, StartAutocompact(micro) PROVE Goal
    BY <2>5 DEF StartAutocompact, staticVars, CountsInv, WithinBudget,
                OneRequestBeyondBudget, Phases
  <2>6. CASE AutocompactTooLong
    BY <2>6 DEF AutocompactTooLong, staticVars, CountsInv, WithinBudget,
                OneRequestBeyondBudget, Phases
  <2>7. CASE AutocompactFails
    BY <2>7, <2>3, ReturnCounts DEF AutocompactFails, staticVars
  <2>8. CASE AutocompactSucceeds
    BY <2>8, <2>3, ReturnCounts DEF AutocompactSucceeds
  <2>9. CASE ModelFails \/ FinalAnswer \/ Finalization
    BY <2>9, ReturnCounts DEF ModelFails, FinalAnswer, Finalization, staticVars
  <2>10. CASE EmptyAnswer \/ TruncatedAnswer
    BY <2>10, FinalizeCounts DEF EmptyAnswer, TruncatedAnswer, staticVars
  <2>11. ASSUME NEW shapes \in Rounds, ToolRound(shapes) PROVE Goal
    BY <2>11 DEF ToolRound, CountsInv, WithinBudget, OneRequestBeyondBudget, Phases
  <2>12. ASSUME NEW order, NEW follow \in BOOLEAN, ToolsDone(order, follow) PROVE Goal
    BY <2>12, <1>2, ReturnCounts, FinalizeCounts DEF ToolsDone, staticVars
  <2> QED
    BY <1>4, <2>1, <2>2, <2>4, <2>5, <2>6, <2>7, <2>8, <2>9, <2>10, <2>11, <2>12 DEF RunSteps
<1>5. CASE HostAborts
  BY <1>5, ReturnCounts DEF HostAborts, staticVars
<1>6. CASE ToolsQuit \/ Crash
  BY <1>6 DEF ToolsQuit, Crash, CountsInv, WithinBudget, OneRequestBeyondBudget, Phases
<1>7. CASE Resume
  <2>1. /\ phase = "down" /\ phase' = "idle" /\ UNCHANGED <<kind, turns, requests>>
        /\ budget' \in Nat \cup {Unlimited}
    BY <1>7, BudgetsAssumption DEF Resume, runVars
  <2>2. kind = "normal" /\ turns = 0 /\ requests = 0
    BY <2>1 DEF CountsInv
  <2>3. CountsInv'
    BY <2>1, <2>2 DEF CountsInv, Phases
  <2>4. WithinBudget'
    BY <2>1 DEF WithinBudget
  <2>5. OneRequestBeyondBudget'
    <3>1. budget' # Unlimited => budget' \in Nat
      BY <2>1
    <3>2. requests' = 0
      BY <2>1, <2>2
    <3> QED BY <3>1, <3>2 DEF OneRequestBeyondBudget
  <2> QED BY <2>3, <2>4, <2>5
<1> QED BY <1>1, <1>3, <1>4, <1>5, <1>6, <1>7 DEF Next

(* Only the steps that push the answer report one.                         *)
LEMMA AnswerStep ==
  ASSUME Stored, AnswerInv, [Next]_vars
  PROVE  AnswerInv'
<1> USE DEF AnswerInv, AnswerIsRecorded
<1>1. CASE UNCHANGED vars
  BY <1>1 DEF vars, runVars
<1>2. ASSUME outcome' # "answer" PROVE AnswerInv'
  BY <1>2
<1>3. ASSUME UNCHANGED <<outcome>>, phase # "idle" PROVE AnswerInv'
  BY <1>3
<1>4. ASSUME Push(<<AssistantText>>), Return("answer") PROVE AnswerInv'
  <2>1. history' # <<>> /\ Last(history') = AssistantText
    BY <1>4, Joined, Tuples DEF Push, Stored
  <2> QED BY <1>4, <2>1 DEF Return
<1>5. CASE Submit \/ ClearCommand \/ CompactCommand
  BY <1>5, <1>2 DEF Submit, ClearCommand, CompactCommand
<1>6. CASE RunSteps
  <2>1. CASE BudgetStop \/ StartTurn
    BY <2>1, <1>2, <1>3 DEF BudgetStop, StartTurn, Return, Goto
  <2>2. ASSUME NEW micro \in BOOLEAN, NoAutocompact(micro) \/ StartAutocompact(micro)
        PROVE  AnswerInv'
    BY <2>2, <1>2, <1>3 DEF NoAutocompact, StartAutocompact, Return
  <2>3. CASE AutocompactTooLong \/ AutocompactFails \/ AutocompactSucceeds
    BY <2>3, <1>2, <1>3
       DEF AutocompactTooLong, AutocompactFails, AutocompactSucceeds, Return
  <2>4. CASE ModelFails \/ EmptyAnswer \/ TruncatedAnswer
    BY <2>4, <1>2, <1>3 DEF ModelFails, EmptyAnswer, TruncatedAnswer, Return, Finalize
  <2>5. CASE FinalAnswer \/ Finalization
    BY <2>5, <1>4 DEF FinalAnswer, Finalization
  <2>6. ASSUME NEW shapes \in Rounds, ToolRound(shapes) PROVE AnswerInv'
    BY <2>6, <1>3 DEF ToolRound
  <2>7. ASSUME NEW order, NEW follow \in BOOLEAN, ToolsDone(order, follow)
        PROVE  AnswerInv'
    BY <2>7, <1>2, <1>3 DEF ToolsDone, Return, Goto, Finalize
  <2> QED BY <1>6, <2>1, <2>2, <2>3, <2>4, <2>5, <2>6, <2>7 DEF RunSteps
<1>7. CASE HostAborts
  BY <1>7, <1>2 DEF HostAborts, Return
<1>8. CASE ToolsQuit \/ Crash
  BY <1>8, <1>2 DEF ToolsQuit, Crash
<1>9. CASE Resume
  BY <1>9, <1>3 DEF Resume, runVars
<1> QED BY <1>1, <1>5, <1>6, <1>7, <1>8, <1>9 DEF Next

(* A run costs at most one request more than its budget of turns, and one  *)
(* that reports an answer leaves it as the last message, whatever fails,   *)
(* is cut off, aborted, compacted or resumed.                              *)
THEOREM RunsEndInOrder == Spec => []RunEndsInOrder
<1>1. RunInv /\ [Next]_vars => RunInv'
  BY SequencesStep, CountsStep, AnswerStep DEF RunInv
<1>2. RunInv => RunEndsInOrder
  BY DEF RunInv, RunEndsInOrder, AnswerInv
<1> QED BY RunInvInit, <1>1, <1>2, PTL DEF Spec
-----------------------------------------------------------------------------
(***************************************************************************)
(* The types.  Three conversations are kept: the engine's, the file's and  *)
(* the one an autocompact summarizes.  The results of a round are made     *)
(* from its calls, so that there is a message to take them from has to be  *)
(* known (ToolsInv).                                                       *)
(***************************************************************************)
Conversation(s) == IsSequence(s) /\ \A i \in DOMAIN s : IsMessage(s[i])

Conversations == Conversation(history) /\ Conversation(disk) /\ Conversation(conv)

ScalarsOK ==
  /\ phase \in Phases /\ kind \in {"normal", "final", "command"}
  /\ budget \in Budgets /\ turns \in Nat /\ ptl \in 0..MaxPtlRetries
  /\ lastId \in 0..MaxCalls /\ runs \in 0..MaxRuns
  /\ saveFailures \in 0..MaxSaveFailures /\ crashes \in 0..MaxCrashes
  /\ saved \in BOOLEAN /\ requests \in Nat /\ interrupted \subseteq 0..MaxCalls
  /\ outcome \in {"none", "answer", "stopped", "error"}

ToolsInv == phase = "tools" => history # <<>>

TypeInv == Conversations /\ ScalarsOK /\ ToolsInv

LEMMA Elements ==
  ASSUME NEW s, IsSequence(s)
  PROVE  Len(s) \in Nat /\ DOMAIN s = 1..Len(s) /\ (s # <<>> => Len(s) \in DOMAIN s)
BY DEF IsSequence

LEMMA JoinedConversation ==
  ASSUME NEW s, Conversation(s), NEW t, Conversation(t)
  PROVE  Conversation(s \o t) /\ (t # <<>> => s \o t # <<>>)
<1> DEFINE S == {s[i] : i \in DOMAIN s} \cup {t[i] : i \in DOMAIN t}
<1>1. s \in Seq(S) /\ t \in Seq(S)
  BY DEF Conversation, IsSequence
<1>2. \A m \in S : IsMessage(m)
  BY DEF Conversation
<1> HIDE DEF S
<1>3. s \o t \in Seq(S)
  BY <1>1
<1>4. \A i \in DOMAIN (s \o t) : (s \o t)[i] \in S
  BY <1>3
<1> QED BY <1>2, <1>4, Joined DEF Conversation

LEMMA OfMessages ==
  ASSUME NEW m, IsMessage(m)
  PROVE  Conversation(<<m>>) /\ Conversation(<<m, m>>) /\ <<m>> # <<>>
<1>1. DOMAIN <<m>> = {1} /\ <<m>>[1] = m
  OBVIOUS
<1>2. DOMAIN <<m, m>> = {1, 2} /\ <<m, m>>[1] = m /\ <<m, m>>[2] = m
  OBVIOUS
<1> QED BY <1>1, <1>2, Tuples DEF Conversation

LEMMA TextMessages ==
  /\ IsMessage(UserText) /\ IsMessage(AssistantText)
  /\ Conversation(<<>>) /\ Conversation(<<UserText>>) /\ Conversation(<<AssistantText>>)
  /\ Conversation(<<UserText, UserText>>)
<1>1. IsMessage(UserText)
  BY DEF IsMessage, UserText
<1>2. IsMessage(AssistantText)
  BY DEF IsMessage, AssistantText
<1>3. Conversation(<<>>)
  <2>1. DOMAIN <<>> = {}
    OBVIOUS
  <2> QED BY <2>1, Tuples DEF Conversation
<1> QED BY <1>1, <1>2, <1>3, OfMessages

(* The calls of a round have the next ids, or none.                        *)
LEMMA RoundMessage ==
  ASSUME ScalarsOK, NEW shapes \in Rounds
  PROVE  /\ IsMessage(Calls(RoundCalls(shapes)))
         /\ Conversation(<<Calls(RoundCalls(shapes))>>)
         /\ lastId + Len(shapes) \in 0..MaxCalls
<1>1. PICK n \in 1..MaxPerRound : shapes \in [1..n -> Shapes] /\ lastId + Len(shapes) <= MaxCalls
  BY DEF Rounds
<1>2. n \in Nat /\ MaxCalls \in Nat /\ lastId \in Nat
  BY BoundsAssumption DEF ScalarsOK
<1>3. Len(shapes) = n /\ DOMAIN shapes = 1..n
  BY <1>1, <1>2
<1>4. \A i \in 1..n : RoundCalls(shapes)[i].id \in 0..MaxCalls
  BY <1>1, <1>2, <1>3 DEF RoundCalls
<1>5. DOMAIN RoundCalls(shapes) = 1..n
  BY <1>3 DEF RoundCalls
<1>6. IsMessage(Calls(RoundCalls(shapes)))
  BY <1>4, <1>5 DEF IsMessage, Calls
<1>7. Conversation(<<Calls(RoundCalls(shapes))>>)
  BY <1>6, OfMessages
<1> QED BY <1>1, <1>2, <1>3, <1>6, <1>7

(* Whatever their order, the results have the ids of the calls.            *)
LEMMA ResultsMessage ==
  ASSUME NEW m, IsMessage(m), NEW order,
         \A i \in DOMAIN m.calls : order[i] \in DOMAIN m.calls
  PROVE  Conversation(<<Results(RoundResults(m.calls, order))>>)
<1>1. \A i \in DOMAIN m.calls : m.calls[order[i]].id \in 0..MaxCalls
  BY DEF IsMessage
<1>2. DOMAIN RoundResults(m.calls, order) = DOMAIN m.calls
  BY DEF RoundResults
<1>3. \A i \in DOMAIN m.calls : RoundResults(m.calls, order)[i].id \in 0..MaxCalls
  BY <1>1 DEF RoundResults
<1>4. IsMessage(Results(RoundResults(m.calls, order)))
  BY <1>2, <1>3 DEF IsMessage, Results
<1> QED BY <1>4, OfMessages

LEMMA TruncatedConversation ==
  ASSUME NEW s, Conversation(s), Len(s) >= 2
  PROVE  Conversation(TruncateForRetry(s))
<1> DEFINE drop == IF Len(s) \div 5 > 1 THEN Len(s) \div 5 ELSE 1
           rest == SubSeq(s, drop + 1, Len(s))
           S == {s[i] : i \in DOMAIN s}
<1>1. s \in Seq(S) /\ Len(s) \in Nat
  BY DEF Conversation, IsSequence
<1>2. drop \in Nat /\ drop + 1 \in 1..Len(s)
  BY <1>1
<1>3. \A m \in S : IsMessage(m)
  BY DEF Conversation
<1> HIDE DEF S, drop
<1>4. rest \in Seq(S)
  BY <1>1, <1>2
<1>5. Conversation(rest)
  <2>1. \A i \in DOMAIN rest : rest[i] \in S
    BY <1>4
  <2> QED BY <1>3, <1>4, <2>1, InSequences DEF Conversation
<1>6. Conversation(<<UserText>> \o rest)
  BY <1>5, TextMessages, JoinedConversation
<1>7. TruncateForRetry(s) \in {rest, <<UserText>> \o rest}
  BY DEF TruncateForRetry, drop
<1> QED BY <1>5, <1>6, <1>7

LEMMA SavedConversation ==
  ASSUME Conversations, ScalarsOK, Conversation(history'), SaveSession \/ NoSave
  PROVE  /\ Conversation(disk')
         /\ saved' \in BOOLEAN /\ saveFailures' \in 0..MaxSaveFailures
<1>1. MaxSaveFailures \in Nat /\ saveFailures \in 0..MaxSaveFailures /\ saved \in BOOLEAN
  BY BoundsAssumption DEF ScalarsOK
<1>2. saveFailures < MaxSaveFailures => saveFailures + 1 \in 0..MaxSaveFailures
  BY <1>1
<1> QED BY <1>1, <1>2 DEF Conversations, SaveSession, NoSave

LEMMA PushedConversation ==
  ASSUME Conversations, ScalarsOK, NEW messages, Conversation(messages), messages # <<>>,
         Push(messages)
  PROVE  /\ Conversation(history') /\ Conversation(disk') /\ history' # <<>>
         /\ saved' \in BOOLEAN /\ saveFailures' \in 0..MaxSaveFailures
BY JoinedConversation, SavedConversation DEF Push, Conversations

(* The way out of a run, and the finalization.                             *)
LEMMA ReturnTypes ==
  ASSUME TypeInv, Conversation(history'), Conversation(disk'),
         saved' \in BOOLEAN, saveFailures' \in 0..MaxSaveFailures, UNCHANGED staticVars,
         \/ \E how \in {"none", "answer", "stopped", "error"} : Return(how)
         \/ Finalize
  PROVE  TypeInv'
BY TextMessages
   DEF TypeInv, Conversations, ScalarsOK, ToolsInv, Return, Finalize, staticVars, boundVars,
       Phases, MaxPtlRetries

(* A step that leaves the run's bookkeeping where it is, or counts on.     *)
LEMMA RunningTypes ==
  ASSUME TypeInv, Conversation(history'), Conversation(disk'), Conversation(conv'),
         saved' \in BOOLEAN, saveFailures' \in 0..MaxSaveFailures, UNCHANGED staticVars,
         phase' \in Phases, kind' \in {"normal", "final", "command"},
         turns' \in Nat, requests' \in Nat, ptl' \in 0..MaxPtlRetries,
         UNCHANGED outcome \/ outcome' = "none",
         phase' = "tools" => history' # <<>>
  PROVE  TypeInv'
BY DEF TypeInv, Conversations, ScalarsOK, ToolsInv, staticVars, boundVars

LEMMA IdleTypes ==
  ASSUME TypeInv, Submit \/ ClearCommand \/ CompactCommand
  PROVE  TypeInv'
<1> USE DEF TypeInv
<1>1. runs < MaxRuns /\ runs' = runs + 1 => runs' \in 0..MaxRuns
  BY BoundsAssumption DEF ScalarsOK
<1>2. CASE Submit
  <2>1. /\ Conversation(history') /\ Conversation(disk') /\ history' # <<>>
        /\ saved' \in BOOLEAN /\ saveFailures' \in 0..MaxSaveFailures
    BY <1>2, PushedConversation, TextMessages DEF Submit
  <2> QED BY <1>1, <1>2, <2>1 DEF Submit, Conversations, ScalarsOK, ToolsInv, Phases
<1>3. CASE ClearCommand
  <2>1. /\ Conversation(history') /\ Conversation(disk')
        /\ saved' \in BOOLEAN /\ saveFailures' \in 0..MaxSaveFailures
    BY <1>3, SavedConversation, TextMessages DEF ClearCommand
  <2> QED BY <1>1, <1>3, <2>1 DEF ClearCommand, Conversations, ScalarsOK, ToolsInv
<1>4. CASE CompactCommand
  BY <1>1, <1>4 DEF CompactCommand, NoSave, Conversations, ScalarsOK, ToolsInv, Phases
<1> QED BY <1>2, <1>3, <1>4

LEMMA RunTypes ==
  ASSUME TypeInv, RunSteps
  PROVE  TypeInv'
<1> USE DEF TypeInv
<1>1. ASSUME UNCHANGED history, SaveSession \/ NoSave
      PROVE  /\ Conversation(history') /\ Conversation(disk')
             /\ saved' \in BOOLEAN /\ saveFailures' \in 0..MaxSaveFailures
  BY <1>1, SavedConversation DEF Conversations
<1>2. ASSUME UNCHANGED <<kind, turns, outcome, staticVars>>, requests' = requests + 1,
             phase' = "model", Conversation(conv'), ptl' \in 0..MaxPtlRetries,
             Conversation(history'), SaveSession \/ NoSave
      PROVE  TypeInv'
  BY <1>2, SavedConversation, RunningTypes DEF ScalarsOK, Phases
<1>3. 0 \in 0..MaxPtlRetries
  BY DEF MaxPtlRetries
<1>4. CASE BudgetStop
  BY <1>4, <1>1, ReturnTypes DEF BudgetStop
<1>5. CASE StartTurn
  BY <1>5, <1>1, RunningTypes DEF StartTurn, Goto, Conversations, ScalarsOK, Phases
<1>6. ASSUME NEW micro \in BOOLEAN, NoAutocompact(micro) PROVE TypeInv'
  <2>1. UNCHANGED history /\ (SaveSession \/ NoSave)
    BY <1>6 DEF NoAutocompact, Microcompact
  <2> QED BY <1>6, <2>1, <1>1, <1>2, ReturnTypes DEF NoAutocompact, Conversations, ScalarsOK
<1>7. ASSUME NEW micro \in BOOLEAN, StartAutocompact(micro) PROVE TypeInv'
  <2>1. UNCHANGED history /\ (SaveSession \/ NoSave)
    BY <1>7 DEF StartAutocompact, Microcompact
  <2> QED BY <1>7, <2>1, <1>1, <1>3, RunningTypes
          DEF StartAutocompact, Conversations, ScalarsOK, Phases
<1>8. CASE AutocompactTooLong
  <2>1. Conversation(conv') /\ ptl' \in 0..MaxPtlRetries
    BY <1>8, TruncatedConversation DEF AutocompactTooLong, Conversations, ScalarsOK, MaxPtlRetries
  <2> QED BY <1>8, <2>1, <1>1, RunningTypes DEF AutocompactTooLong, ScalarsOK, ToolsInv
<1>9. CASE AutocompactFails
  BY <1>9, <1>1, <1>2, <1>3, TextMessages, ReturnTypes DEF AutocompactFails
<1>10. CASE AutocompactSucceeds
  <2>1. /\ Conversation(history') /\ Conversation(disk') /\ Conversation(conv')
        /\ saved' \in BOOLEAN /\ saveFailures' \in 0..MaxSaveFailures
    BY <1>10, TextMessages, SavedConversation DEF AutocompactSucceeds, Return
  <2>2. /\ phase' \in {"model", "idle"} /\ kind' \in {kind, "normal"} /\ turns' \in {turns, 0}
        /\ ptl' = 0 /\ requests' \in {requests, requests + 1} /\ outcome' \in {outcome, "none"}
        /\ interrupted' = {} /\ UNCHANGED <<boundVars, budget>>
    BY <1>10 DEF AutocompactSucceeds, Return
  <2> QED BY <2>1, <2>2, <1>3 DEF Conversations, ScalarsOK, ToolsInv, Phases, boundVars
<1>11. CASE ModelFails
  BY <1>11, <1>1, ReturnTypes DEF ModelFails
<1>12. CASE FinalAnswer \/ TruncatedAnswer \/ Finalization
  <2>1. /\ Conversation(history') /\ Conversation(disk')
        /\ saved' \in BOOLEAN /\ saveFailures' \in 0..MaxSaveFailures
    BY <1>12, PushedConversation, TextMessages DEF FinalAnswer, TruncatedAnswer, Finalization
  <2> QED BY <1>12, <2>1, ReturnTypes DEF FinalAnswer, TruncatedAnswer, Finalization
<1>13. CASE EmptyAnswer
  BY <1>13, <1>1, ReturnTypes DEF EmptyAnswer
<1>14. ASSUME NEW shapes \in Rounds, ToolRound(shapes) PROVE TypeInv'
  <2>1. /\ Conversation(history') /\ Conversation(disk') /\ history' # <<>>
        /\ saved' \in BOOLEAN /\ saveFailures' \in 0..MaxSaveFailures
    BY <1>14, PushedConversation, RoundMessage DEF ToolRound
  <2>2. lastId' \in 0..MaxCalls /\ turns' \in Nat
    BY <1>14, RoundMessage DEF ToolRound, ScalarsOK
  <2> QED BY <1>14, <2>1, <2>2 DEF ToolRound, Conversations, ScalarsOK, ToolsInv, Phases
<1>15. ASSUME NEW order, NEW follow \in BOOLEAN, ToolsDone(order, follow) PROVE TypeInv'
  <2> DEFINE results_ == <<Results(RoundResults(Last(history).calls, order))>>
  <2>1. IsMessage(Last(history))
    BY <1>15, Elements DEF ToolsDone, ToolsInv, Conversations, Conversation, Last
  <2>2. \A i \in DOMAIN Last(history).calls : order[i] \in DOMAIN Last(history).calls
    BY <1>15 DEF ToolsDone, Orders
  <2>3. Conversation(results_)
    BY <2>1, <2>2, ResultsMessage
  <2>4. Conversation(results_ \o (IF follow THEN <<UserText>> ELSE <<>>))
    BY <2>3, TextMessages, JoinedConversation
  <2>5. results_ \o (IF follow THEN <<UserText>> ELSE <<>>) # <<>>
    BY <2>3, TextMessages, JoinedConversation
  <2>6. Push(results_ \o (IF follow THEN <<UserText>> ELSE <<>>))
    BY <1>15 DEF ToolsDone
  <2> HIDE DEF results_
  <2>7. /\ Conversation(history') /\ Conversation(disk')
        /\ saved' \in BOOLEAN /\ saveFailures' \in 0..MaxSaveFailures
    BY <2>4, <2>5, <2>6, PushedConversation
  <2>8. CASE Goto("head")
    BY <1>15, <2>7, <2>8, RunningTypes DEF ToolsDone, Goto, Conversations, ScalarsOK, Phases
  <2> QED BY <1>15, <2>7, <2>8, ReturnTypes DEF ToolsDone
<1> QED BY <1>4, <1>5, <1>6, <1>7, <1>8, <1>9, <1>10, <1>11, <1>12, <1>13, <1>14, <1>15
       DEF RunSteps

LEMMA ProcessTypes ==
  ASSUME TypeInv, ToolsQuit \/ HostAborts \/ Crash \/ Resume
  PROVE  TypeInv'
<1> USE DEF TypeInv
<1>1. CASE ToolsQuit \/ Crash
  <2>1. Conversation(disk')
    BY <1>1 DEF ToolsQuit, Crash, Conversations
  <2>2. crashes' \in 0..MaxCrashes
    BY <1>1, BoundsAssumption DEF ToolsQuit, Crash, ScalarsOK
  <2>3. /\ phase' = "down" /\ history' = <<>> /\ conv' = <<>> /\ ptl' = 0
        /\ kind' = "normal" /\ turns' = 0 /\ saved' = TRUE /\ interrupted' = {}
        /\ outcome' \in {"error", "none"} /\ requests' = 0
        /\ UNCHANGED <<lastId, runs, saveFailures, budget>>
    BY <1>1 DEF ToolsQuit, Crash
  <2> QED BY <2>1, <2>2, <2>3, TextMessages
          DEF Conversations, ScalarsOK, ToolsInv, Phases, MaxPtlRetries
<1>2. CASE HostAborts
  <2>1. CASE history # <<>>
    <3>1. IsMessage(Last(history))
      BY <2>1, Elements DEF Conversations, Conversation, Last
    <3> DEFINE open == Last(history).calls
               answers == Results(RoundResults(open, [i \in DOMAIN open |-> i]))
    <3>2. Conversation(<<answers>>)
      BY <3>1, ResultsMessage
    <3>3. /\ Push(<<answers>>) \/ (UNCHANGED history /\ NoSave)
         /\ Return("error") /\ UNCHANGED staticVars
      BY <1>2 DEF HostAborts
    <3> HIDE DEF answers
    <3>4. /\ Conversation(history') /\ Conversation(disk')
          /\ saved' \in BOOLEAN /\ saveFailures' \in 0..MaxSaveFailures
      BY <3>2, <3>3, PushedConversation, SavedConversation DEF Conversations
    <3> QED BY <3>3, <3>4, ReturnTypes
  <2>2. CASE history = <<>>
    BY <1>2, <2>2, ReturnTypes, SavedConversation DEF HostAborts, Conversations
  <2> QED BY <2>1, <2>2
<1>3. CASE Resume
  <2>1. interrupted' \subseteq 0..MaxCalls
    BY <1>3 DEF Resume, Ids, Conversations, Conversation, IsMessage
  <2> QED BY <1>3, <2>1 DEF Resume, runVars, boundVars, Conversations, ScalarsOK, ToolsInv, Phases
<1> QED BY <1>1, <1>2, <1>3

(* Every conversation is made of messages of one role, which hold calls or *)
(* results with the ids of calls, also those that a resume reads back and  *)
(* those that an autocompact cuts, and the bookkeeping keeps its types     *)
(* (engine.rs).                                                            *)
THEOREM RunTypeCorrect == Spec => []TypeOK
<1>1. Init => TypeInv
  BY TextMessages, BoundsAssumption
     DEF Init, TypeInv, Conversations, ScalarsOK, ToolsInv, Phases, MaxPtlRetries
<1>2. TypeInv /\ [Next]_vars => TypeInv'
  <2> SUFFICES ASSUME TypeInv, [Next]_vars PROVE TypeInv'
    OBVIOUS
  <2>1. CASE UNCHANGED vars
    BY <2>1 DEF vars, runVars, staticVars, boundVars, TypeInv, Conversations, ScalarsOK, ToolsInv
  <2> QED BY <2>1, IdleTypes, RunTypes, ProcessTypes DEF Next
<1>3. TypeInv => TypeOK
  BY DEF TypeInv, Conversations, Conversation, ScalarsOK, TypeOK
<1> QED BY <1>1, <1>2, <1>3, PTL DEF Spec

-----------------------------------------------------------------------------
(***************************************************************************)
(* Numbers and folds.  A nonempty set of naturals has a least element, so  *)
(* a set that holds 0 and is closed under + 1 holds all of them; that a    *)
(* fold is what its equations say follows by this induction.               *)
(***************************************************************************)
Below == {ss \in Nat \X Nat : ss[1] < ss[2]}

LEMMA LeastNatural ==
  ASSUME NEW S, S \subseteq Nat, S # {}
  PROVE  \E m \in S : \A k \in S : m <= k
<1>1. IsWellFoundedOn(Below, Nat)
  BY NatLessThanWellFounded DEF OpToRel, Below
<1>2. PICK m \in S : \A k \in S : <<k, m>> \notin Below
  BY <1>1, WFMin
<1>3. ASSUME NEW k \in S PROVE m <= k
  <2>1. k \in Nat /\ m \in Nat /\ ~(k < m)
    BY <1>2 DEF Below
  <2> QED BY <2>1
<1> QED BY <1>3

LEMMA NatSetInduction ==
  ASSUME NEW S, 0 \in S, \A n \in Nat : n \in S => n + 1 \in S
  PROVE  Nat \subseteq S
<1> SUFFICES ASSUME Nat \ S # {} PROVE FALSE
  OBVIOUS
<1>1. PICK m \in Nat \ S : \A k \in Nat \ S : m <= k
  BY LeastNatural
<1>2. m - 1 \in Nat /\ ~(m <= m - 1)
  OBVIOUS
<1> QED BY <1>1, <1>2

LEMMA MaxOfInterval ==
  ASSUME NEW n \in Nat, NEW t \in SUBSET (1..n + 1), n + 1 \in t
  PROVE  Max(t) = n + 1
<1>1. \A y \in t : n + 1 >= y
  OBVIOUS
<1>2. \A x \in t : (\A y \in t : x >= y) => x = n + 1
  BY <1>1
<1> QED BY <1>1, <1>2 DEF Max

LEMMA MaxOfBounded ==
  ASSUME NEW n \in Nat, NEW t \in SUBSET (1..n), t # {}
  PROVE  Max(t) \in t
<1> DEFINE S == {k \in Nat : n - k \in t}
<1>1. \A y \in t : y \in Nat /\ n - y \in Nat /\ n - (n - y) = y
  OBVIOUS
<1>2. \A y \in t : n - y \in S
  BY <1>1
<1>3. PICK m \in S : \A k \in S : m <= k
  BY <1>2, LeastNatural
<1>4. ASSUME NEW y \in t PROVE n - m >= y
  <2>1. m \in Nat /\ m <= n - y
    BY <1>2, <1>3
  <2> QED BY <1>1, <2>1
<1>5. n - m \in t
  BY <1>3
<1> QED BY <1>4, <1>5 DEF Max

(* The steps of a fold with values in V, and the fold of n of them.        *)
Steps(G, V) == G \in [Nat \X V -> V]
HasFold(V, base, G, n) ==
  \E it \in [SUBSET (1..n) -> V] :
    \A t \in SUBSET (1..n) : it[t] = IF t = {} THEN base ELSE G[<<Max(t), it[t \ {Max(t)}]>>]

LEMMA FoldExists ==
  ASSUME NEW V, NEW base \in V, NEW G, Steps(G, V), NEW n \in Nat
  PROVE  HasFold(V, base, G, n)
<1> DEFINE Is(it, m) ==
      \A t \in SUBSET (1..m) : it[t] = IF t = {} THEN base ELSE G[<<Max(t), it[t \ {Max(t)}]>>]
           S == {m \in Nat : \E it \in [SUBSET (1..m) -> V] : Is(it, m)}
<1>1. 0 \in S
  <2>1. [t \in SUBSET (1..0) |-> base] \in [SUBSET (1..0) -> V]
    OBVIOUS
  <2>2. \A t \in SUBSET (1..0) : t = {}
    OBVIOUS
  <2> QED BY <2>1, <2>2
<1>2. ASSUME NEW m \in Nat, m \in S PROVE m + 1 \in S
  <2>1. PICK it \in [SUBSET (1..m) -> V] : Is(it, m)
    BY <1>2
  <2> DEFINE new == [t \in SUBSET (1..m + 1) |->
                       IF m + 1 \in t THEN G[<<m + 1, it[t \ {m + 1}]>>] ELSE it[t]]
  <2>2. \A t \in SUBSET (1..m + 1) : /\ t \ {m + 1} \in SUBSET (1..m)
                                      /\ m + 1 \notin t => t \in SUBSET (1..m)
    OBVIOUS
  <2>3. new \in [SUBSET (1..m + 1) -> V]
    BY <2>1, <2>2 DEF Steps
  <2>4. ASSUME NEW t \in SUBSET (1..m + 1)
        PROVE  new[t] = IF t = {} THEN base ELSE G[<<Max(t), new[t \ {Max(t)}]>>]
    <3>1. CASE m + 1 \in t
      <4>1. Max(t) = m + 1 /\ t # {}
        BY <3>1, MaxOfInterval
      <4>2. new[t \ {m + 1}] = it[t \ {m + 1}]
        BY <2>2
      <4>3. new[t] = G[<<m + 1, it[t \ {m + 1}]>>]
        BY <3>1
      <4> QED BY <4>1, <4>2, <4>3
    <3>2. CASE m + 1 \notin t /\ t # {}
      <4>1. t \in SUBSET (1..m) /\ new[t] = it[t]
        BY <2>2, <3>2
      <4>2. it[t] = G[<<Max(t), it[t \ {Max(t)}]>>]
        BY <2>1, <3>2, <4>1
      <4>3. m + 1 \notin t \ {Max(t)} /\ t \ {Max(t)} \in SUBSET (1..m + 1)
        BY <3>2
      <4>4. new[t \ {Max(t)}] = it[t \ {Max(t)}]
        BY <4>3
      <4> QED BY <3>2, <4>1, <4>2, <4>4
    <3>3. CASE t = {}
      <4>1. t \in SUBSET (1..m) /\ new[t] = it[t]
        BY <3>3
      <4> QED BY <2>1, <3>3, <4>1
    <3> QED BY <3>1, <3>2, <3>3
  <2> HIDE DEF new
  <2>5. Is(new, m + 1)
    BY <2>4
  <2> HIDE DEF Is
  <2> QED BY <2>3, <2>5
<1> HIDE DEF S
<1>3. n \in S
  BY <1>1, <1>2, NatSetInduction
<1> QED BY <1>3 DEF S, HasFold

(* The values a fold takes, one after another.                             *)
Folds(c, V, base, G, n) ==
  /\ c[{}] = base
  /\ \A t \in SUBSET (1..n) :
       t # {} /\ c[t \ {Max(t)}] \in V => c[t] = G[<<Max(t), c[t \ {Max(t)}]>>]
HasTrace(V, base, G, n, last) ==
  \E it \in [0..n -> V] :
    it[0] = base /\ it[n] = last /\ \A k \in 1..n : it[k] = G[<<k, it[k - 1]>>]

LEMMA FoldTrace ==
  ASSUME NEW V, NEW base \in V, NEW G, Steps(G, V), NEW n \in Nat, NEW c, Folds(c, V, base, G, n)
  PROVE  HasTrace(V, base, G, n, c[1..n])
<1> DEFINE S == {m \in Nat : m <= n => c[1..m] \in V}
           it == [m \in 0..n |-> c[1..m]]
<1>1. 1..0 = {}
  OBVIOUS
<1>2. 0 \in S
  BY <1>1 DEF Folds
<1>3. ASSUME NEW m \in Nat, m + 1 <= n, c[1..m] \in V
      PROVE  c[1..m + 1] = G[<<m + 1, c[1..m]>>] /\ c[1..m + 1] \in V
  <2>1. 1..m + 1 # {} /\ (1..m + 1) \ {m + 1} = 1..m /\ Max(1..m + 1) = m + 1
    BY MaxOfInterval
  <2>2. 1..m + 1 \in SUBSET (1..n)
    BY <1>3
  <2>3. c[1..m + 1] = G[<<m + 1, c[1..m]>>]
    BY <1>3, <2>1, <2>2 DEF Folds
  <2> QED BY <1>3, <2>3 DEF Steps
<1>4. ASSUME NEW m \in Nat, m \in S PROVE m + 1 \in S
  <2>1. CASE m + 1 <= n
    <3>1. m <= n
      BY <2>1
    <3>2. c[1..m] \in V
      BY <1>4, <3>1
    <3>3. c[1..m + 1] \in V
      BY <1>3, <2>1, <3>2
    <3> QED BY <3>3
  <2>2. CASE ~(m + 1 <= n)
    BY <2>2
  <2> QED BY <2>1, <2>2
<1>5. \A m \in Nat : m \in S
  <2> HIDE DEF S
  <2> QED BY <1>2, <1>4, NatSetInduction
<1>6. it \in [0..n -> V]
  BY <1>5
<1>7. \A k \in 1..n : it[k] = G[<<k, it[k - 1]>>]
  <2> TAKE k \in 1..n
  <2>1. k - 1 \in Nat /\ k - 1 \in 0..n /\ k \in 0..n /\ k - 1 + 1 = k
    OBVIOUS
  <2>2. c[1..k - 1] \in V
    BY <2>1, <1>5
  <2>3. c[1..k] = G[<<k, c[1..k - 1]>>]
    BY <1>3, <2>1, <2>2
  <2> QED BY <2>1, <2>3
<1>8. it[0] = base /\ it[n] = c[1..n]
  BY <1>1 DEF Folds
<1> QED BY <1>6, <1>7, <1>8 DEF HasTrace

-----------------------------------------------------------------------------
(***************************************************************************)
(* The Anthropic projection.  A projection's state is typed over the ids I *)
(* of the conversation; the folds over the blocks of a message and over    *)
(* the messages take one state after another.                              *)
(***************************************************************************)
CallBlock == [id : Nat, named : BOOLEAN, n : Nat]
Block == [id : Int, n : Nat]
ResultBlock == [id : Nat, n : Nat]
WireMessage == [role : {"user", "assistant"}, uses : Seq(Block), results : Seq(Block)]

States(I, Out) ==
  [out : Seq(Out), dropped : [I -> Int], generated : Seq(Int), available : SUBSET Int,
   fresh : Int, tick : {0, 1}]

(* The steps, field by field.                                              *)
Same(new, st) ==
  /\ new.dropped = st.dropped /\ new.generated = st.generated
  /\ new.available = st.available /\ new.fresh = st.fresh /\ new.tick = st.tick

LEMMA CallStep ==
  ASSUME NEW I, NEW st \in States(I, Block), NEW call \in CallBlock, call.id \in I
  PROVE  LET new == ProjectCall(st, call)
             id  == IF call.id = 0 THEN st.fresh ELSE call.id
         IN /\ new \in States(I, Block) /\ new.tick = st.tick
            /\ ~call.named => /\ new.dropped = [st.dropped EXCEPT ![call.id] = @ + 1]
                              /\ new.out = st.out /\ new.generated = st.generated
                              /\ new.available = st.available /\ new.fresh = st.fresh
            /\ call.named =>
                 /\ new.dropped = st.dropped /\ new.available = st.available \cup {id}
                 /\ new.out = Append(st.out, [id |-> id, n |-> call.n])
                 /\ new.generated = IF call.id = 0 THEN Append(st.generated, id) ELSE st.generated
                 /\ new.fresh = IF call.id = 0 THEN st.fresh - st.tick ELSE st.fresh
<1>1. call.id \in Int /\ call.n \in Nat /\ call.named \in BOOLEAN
  BY DEF CallBlock
<1>2. /\ st.out \in Seq(Block) /\ st.dropped \in [I -> Int] /\ st.generated \in Seq(Int)
      /\ st.available \in SUBSET Int /\ st.fresh \in Int /\ st.tick \in {0, 1}
  BY DEF States
<1> DEFINE id == IF call.id = 0 THEN st.fresh ELSE call.id
           new == ProjectCall(st, call)
<1>3. [id |-> id, n |-> call.n] \in Block /\ id \in Int /\ st.fresh - st.tick \in Int
  BY <1>1, <1>2 DEF Block
<1>4. CASE ~call.named
  <2> DEFINE d == [st.dropped EXCEPT ![call.id] = @ + 1]
  <2>1. d \in [I -> Int]
    BY <1>2
  <2>2. new = [st EXCEPT !.dropped = d]
    BY <1>4 DEF ProjectCall
  <2> HIDE DEF d, new
  <2>3. new \in States(I, Block) /\ new.tick = st.tick /\ new.dropped = d
        /\ new.out = st.out /\ new.generated = st.generated
        /\ new.available = st.available /\ new.fresh = st.fresh
    BY <2>1, <2>2 DEF States
  <2> QED BY <1>4, <2>3 DEF d, new
<1>5. CASE call.named
  <2> DEFINE a == st.available \cup {id}
             g == IF call.id = 0 THEN Append(st.generated, id) ELSE st.generated
             f == IF call.id = 0 THEN st.fresh - st.tick ELSE st.fresh
             o == Append(st.out, [id |-> id, n |-> call.n])
  <2>1. a \in SUBSET Int /\ g \in Seq(Int) /\ f \in Int /\ o \in Seq(Block)
    BY <1>2, <1>3
  <2>2. new = [st EXCEPT !.available = a, !.generated = g, !.fresh = f, !.out = o]
    BY <1>5 DEF ProjectCall
  <2> HIDE DEF a, g, f, o, new, id
  <2>3. new \in States(I, Block) /\ new.tick = st.tick /\ new.dropped = st.dropped
        /\ new.available = a /\ new.generated = g /\ new.fresh = f /\ new.out = o
    BY <2>1, <2>2 DEF States
  <2> QED BY <1>5, <2>3 DEF a, g, f, o, new, id
<1> QED BY <1>4, <1>5

ResultTaken(st, result, new) ==
  LET takes == result.id = 0 /\ st.generated # <<>>
      id    == IF takes THEN Head(st.generated) ELSE result.id
  IN /\ new.tick = st.tick /\ new.available = st.available /\ new.fresh = st.fresh
     /\ st.dropped[result.id] > 0 =>
          /\ new.dropped = [st.dropped EXCEPT ![result.id] = @ - 1]
          /\ new.out = st.out /\ new.generated = st.generated
     /\ ~(st.dropped[result.id] > 0) =>
          /\ new.dropped = st.dropped
          /\ new.generated = IF takes THEN Tail(st.generated) ELSE st.generated
          /\ new.out = IF id \in st.available THEN Append(st.out, [id |-> id, n |-> result.n])
                       ELSE st.out

LEMMA ResultStep ==
  ASSUME NEW I, NEW st \in States(I, Block), NEW result \in ResultBlock, result.id \in I
  PROVE  /\ ProjectResult(st, result) \in States(I, Block)
         /\ ResultTaken(st, result, ProjectResult(st, result))
<1>1. result.id \in Int /\ result.n \in Nat
  BY DEF ResultBlock
<1>2. /\ st.out \in Seq(Block) /\ st.dropped \in [I -> Int] /\ st.generated \in Seq(Int)
      /\ st.available \in SUBSET Int /\ st.fresh \in Int /\ st.tick \in {0, 1}
  BY DEF States
<1> DEFINE takes == result.id = 0 /\ st.generated # <<>>
           id == IF takes THEN Head(st.generated) ELSE result.id
           new == ProjectResult(st, result)
<1>3. st.generated # <<>> => Head(st.generated) \in Int /\ Tail(st.generated) \in Seq(Int)
  BY <1>2
<1>4. id \in Int /\ [id |-> id, n |-> result.n] \in Block
  BY <1>1, <1>3 DEF Block
<1>5. CASE st.dropped[result.id] > 0
  <2> DEFINE d == [st.dropped EXCEPT ![result.id] = @ - 1]
  <2>1. d \in [I -> Int]
    BY <1>2
  <2>2. new = [st EXCEPT !.dropped = d]
    BY <1>5 DEF ProjectResult
  <2> HIDE DEF d, new
  <2>3. new \in States(I, Block) /\ new.tick = st.tick /\ new.dropped = d
        /\ new.out = st.out /\ new.generated = st.generated
        /\ new.available = st.available /\ new.fresh = st.fresh
    BY <2>1, <2>2 DEF States
  <2> QED BY <1>5, <2>3 DEF d, new, ResultTaken
<1>6. CASE ~(st.dropped[result.id] > 0)
  <2> DEFINE g == IF takes THEN Tail(st.generated) ELSE st.generated
             o == IF id \in st.available THEN Append(st.out, [id |-> id, n |-> result.n]) ELSE st.out
  <2>1. g \in Seq(Int) /\ o \in Seq(Block)
    BY <1>2, <1>3, <1>4
  <2>2. new = [st EXCEPT !.generated = g, !.out = o]
    BY <1>6 DEF ProjectResult
  <2> HIDE DEF g, o, new, id, takes
  <2>3. new \in States(I, Block) /\ new.tick = st.tick /\ new.dropped = st.dropped
        /\ new.available = st.available /\ new.fresh = st.fresh /\ new.generated = g /\ new.out = o
    BY <2>1, <2>2 DEF States
  <2> QED BY <1>6, <2>3 DEF g, o, new, id, takes, ResultTaken
<1> QED BY <1>5, <1>6

LEMMA Emptied ==
  ASSUME NEW I, NEW Out, NEW st \in States(I, Out), NEW Out2, NEW o \in Seq(Out2)
  PROVE  /\ [st EXCEPT !.out = o] \in States(I, Out2)
         /\ [st EXCEPT !.out = o].out = o /\ Same([st EXCEPT !.out = o], st)
BY DEF States, Same

CallBlocks(st, cs)   == Blocks(ProjectCall, st, cs)
ResultBlocks(st, rs) == Blocks(ProjectResult, st, rs)

LEMMA CallsTrace ==
  ASSUME NEW I, NEW Out, NEW st \in States(I, Out), NEW cs \in Seq(CallBlock), Ids(cs) \subseteq I
  PROVE  \E it \in [0..Len(cs) -> States(I, Block)] :
           /\ it[0] = [st EXCEPT !.out = <<>>] /\ it[Len(cs)] = CallBlocks(st, cs)
           /\ \A k \in 1..Len(cs) : it[k] = ProjectCall(it[k - 1], cs[k])
<1> DEFINE V == States(I, Block)
           base == [st EXCEPT !.out = <<>>]
           n == Len(cs)
           G == [p \in Nat \X V |-> IF p[1] \in DOMAIN cs THEN ProjectCall(p[2], cs[p[1]]) ELSE p[2]]
           Is(f) == f = [t \in SUBSET DOMAIN cs |->
                           IF t = {} THEN base ELSE ProjectCall(f[t \ {Max(t)}], cs[Max(t)])]
<1>1. n \in Nat /\ DOMAIN cs = 1..n
  OBVIOUS
<1>2. base \in V
  <2>1. <<>> \in Seq(Block)
    OBVIOUS
  <2> QED BY <2>1, Emptied
<1>3. \A k \in DOMAIN cs : cs[k] \in CallBlock /\ cs[k].id \in I /\ k \in Nat
  BY DEF Ids
<1>4. \A k \in Nat, v \in V :
        G[<<k, v>>] = IF k \in DOMAIN cs THEN ProjectCall(v, cs[k]) ELSE v
  OBVIOUS
<1>5. Steps(G, V)
  <2>1. \A k \in Nat, v \in V : G[<<k, v>>] \in V
    BY <1>3, <1>4, CallStep
  <2>2. G = [p \in Nat \X V |-> G[p]]
    OBVIOUS
  <2> HIDE DEF G
  <2>3. \A p \in Nat \X V : G[p] \in V
    BY <2>1
  <2> QED BY <2>2, <2>3 DEF Steps
<1> HIDE DEF G
<1>6. \A t \in SUBSET DOMAIN cs : t # {} => Max(t) \in DOMAIN cs /\ t \ {Max(t)} \in SUBSET DOMAIN cs
  BY <1>1, MaxOfBounded
<1>7. \E f : Is(f)
  <2>1. HasFold(V, base, G, n)
    BY <1>1, <1>2, <1>5, FoldExists
  <2>2. PICK f \in [SUBSET (1..n) -> V] : \A t \in SUBSET (1..n) :
          f[t] = IF t = {} THEN base ELSE G[<<Max(t), f[t \ {Max(t)}]>>]
    BY <2>1 DEF HasFold
  <2> HIDE DEF V, base
  <2>3. ASSUME NEW t \in SUBSET DOMAIN cs, t # {}
        PROVE  f[t] = ProjectCall(f[t \ {Max(t)}], cs[Max(t)])
    <3>1. f[t] = G[<<Max(t), f[t \ {Max(t)}]>>]
      BY <1>1, <2>2, <2>3
    <3>2. Max(t) \in DOMAIN cs /\ Max(t) \in Nat /\ f[t \ {Max(t)}] \in V
      BY <1>1, <1>3, <1>6, <2>2, <2>3
    <3> QED BY <1>4, <3>1, <3>2
  <2>4. f = [t \in SUBSET DOMAIN cs |-> f[t]] /\ f[{}] = base
    BY <1>1, <2>2
  <2>5. Is(f)
    BY <2>3, <2>4
  <2> QED BY <2>5
<1>8. CallBlocks(st, cs) = (CHOOSE f : Is(f))[DOMAIN cs]
  BY DEF CallBlocks, ResultBlocks, Blocks, FoldLeft, MapThenFoldSet
<1>9. PICK f : Is(f) /\ CallBlocks(st, cs) = f[DOMAIN cs]
  BY <1>7, <1>8
<1> HIDE DEF V, base
<1>10. Folds(f, V, base, G, n)
  <2>1. ASSUME NEW t \in SUBSET (1..n), t # {}, f[t \ {Max(t)}] \in V
        PROVE  f[t] = G[<<Max(t), f[t \ {Max(t)}]>>]
    <3>1. Max(t) \in DOMAIN cs /\ Max(t) \in Nat
      BY <1>1, <1>3, <1>6, <2>1
    <3>2. f[t] = ProjectCall(f[t \ {Max(t)}], cs[Max(t)])
      BY <1>1, <1>9, <2>1
    <3> QED BY <1>4, <2>1, <3>1, <3>2
  <2>2. f[{}] = base
    BY <1>1, <1>9
  <2> QED BY <2>1, <2>2 DEF Folds
<1>11. HasTrace(V, base, G, n, f[1..n])
  BY <1>1, <1>2, <1>5, <1>10, FoldTrace
<1>12. PICK it \in [0..n -> V] :
         it[0] = base /\ it[n] = f[1..n] /\ \A k \in 1..n : it[k] = G[<<k, it[k - 1]>>]
  BY <1>11 DEF HasTrace
<1>13. ASSUME NEW k \in 1..n PROVE it[k] = ProjectCall(it[k - 1], cs[k])
  <2>1. k - 1 \in 0..n
    BY <1>1
  <2>2. it[k - 1] \in V /\ k \in Nat
    BY <1>1, <2>1
  <2> QED BY <1>1, <1>4, <1>12, <2>2
<1>14. it[n] = CallBlocks(st, cs)
  BY <1>1, <1>9, <1>12
<1> QED BY <1>12, <1>13, <1>14 DEF V, base

LEMMA CallsTyped ==
  ASSUME NEW I, NEW Out, NEW st \in States(I, Out), NEW cs \in Seq(CallBlock), Ids(cs) \subseteq I
  PROVE  CallBlocks(st, cs) \in States(I, Block)
<1>1. PICK it \in [0..Len(cs) -> States(I, Block)] :
        /\ it[0] = [st EXCEPT !.out = <<>>] /\ it[Len(cs)] = CallBlocks(st, cs)
        /\ \A k \in 1..Len(cs) : it[k] = ProjectCall(it[k - 1], cs[k])
  BY CallsTrace
<1>2. Len(cs) \in 0..Len(cs)
  OBVIOUS
<1> QED BY <1>1, <1>2

LEMMA ResultsTrace ==
  ASSUME NEW I, NEW Out, NEW st \in States(I, Out), NEW rs \in Seq(ResultBlock), Ids(rs) \subseteq I
  PROVE  \E it \in [0..Len(rs) -> States(I, Block)] :
           /\ it[0] = [st EXCEPT !.out = <<>>] /\ it[Len(rs)] = ResultBlocks(st, rs)
           /\ \A k \in 1..Len(rs) : it[k] = ProjectResult(it[k - 1], rs[k])
<1> DEFINE V == States(I, Block)
           base == [st EXCEPT !.out = <<>>]
           n == Len(rs)
           G == [p \in Nat \X V |-> IF p[1] \in DOMAIN rs THEN ProjectResult(p[2], rs[p[1]]) ELSE p[2]]
           Is(f) == f = [t \in SUBSET DOMAIN rs |->
                           IF t = {} THEN base ELSE ProjectResult(f[t \ {Max(t)}], rs[Max(t)])]
<1>1. n \in Nat /\ DOMAIN rs = 1..n
  OBVIOUS
<1>2. base \in V
  <2>1. <<>> \in Seq(Block)
    OBVIOUS
  <2> QED BY <2>1, Emptied
<1>3. \A k \in DOMAIN rs : rs[k] \in ResultBlock /\ rs[k].id \in I /\ k \in Nat
  BY DEF Ids
<1>4. \A k \in Nat, v \in V :
        G[<<k, v>>] = IF k \in DOMAIN rs THEN ProjectResult(v, rs[k]) ELSE v
  OBVIOUS
<1>5. Steps(G, V)
  <2>1. \A k \in Nat, v \in V : G[<<k, v>>] \in V
    BY <1>3, <1>4, ResultStep
  <2>2. G = [p \in Nat \X V |-> G[p]]
    OBVIOUS
  <2> HIDE DEF G
  <2>3. \A p \in Nat \X V : G[p] \in V
    BY <2>1
  <2> QED BY <2>2, <2>3 DEF Steps
<1> HIDE DEF G
<1>6. \A t \in SUBSET DOMAIN rs : t # {} => Max(t) \in DOMAIN rs /\ t \ {Max(t)} \in SUBSET DOMAIN rs
  BY <1>1, MaxOfBounded
<1>7. \E f : Is(f)
  <2>1. HasFold(V, base, G, n)
    BY <1>1, <1>2, <1>5, FoldExists
  <2>2. PICK f \in [SUBSET (1..n) -> V] : \A t \in SUBSET (1..n) :
          f[t] = IF t = {} THEN base ELSE G[<<Max(t), f[t \ {Max(t)}]>>]
    BY <2>1 DEF HasFold
  <2> HIDE DEF V, base
  <2>3. ASSUME NEW t \in SUBSET DOMAIN rs, t # {}
        PROVE  f[t] = ProjectResult(f[t \ {Max(t)}], rs[Max(t)])
    <3>1. f[t] = G[<<Max(t), f[t \ {Max(t)}]>>]
      BY <1>1, <2>2, <2>3
    <3>2. Max(t) \in DOMAIN rs /\ Max(t) \in Nat /\ f[t \ {Max(t)}] \in V
      BY <1>1, <1>3, <1>6, <2>2, <2>3
    <3> QED BY <1>4, <3>1, <3>2
  <2>4. f = [t \in SUBSET DOMAIN rs |-> f[t]] /\ f[{}] = base
    BY <1>1, <2>2
  <2>5. Is(f)
    BY <2>3, <2>4
  <2> QED BY <2>5
<1>8. ResultBlocks(st, rs) = (CHOOSE f : Is(f))[DOMAIN rs]
  BY DEF CallBlocks, ResultBlocks, Blocks, FoldLeft, MapThenFoldSet
<1>9. PICK f : Is(f) /\ ResultBlocks(st, rs) = f[DOMAIN rs]
  BY <1>7, <1>8
<1> HIDE DEF V, base
<1>10. Folds(f, V, base, G, n)
  <2>1. ASSUME NEW t \in SUBSET (1..n), t # {}, f[t \ {Max(t)}] \in V
        PROVE  f[t] = G[<<Max(t), f[t \ {Max(t)}]>>]
    <3>1. Max(t) \in DOMAIN rs /\ Max(t) \in Nat
      BY <1>1, <1>3, <1>6, <2>1
    <3>2. f[t] = ProjectResult(f[t \ {Max(t)}], rs[Max(t)])
      BY <1>1, <1>9, <2>1
    <3> QED BY <1>4, <2>1, <3>1, <3>2
  <2>2. f[{}] = base
    BY <1>1, <1>9
  <2> QED BY <2>1, <2>2 DEF Folds
<1>11. HasTrace(V, base, G, n, f[1..n])
  BY <1>1, <1>2, <1>5, <1>10, FoldTrace
<1>12. PICK it \in [0..n -> V] :
         it[0] = base /\ it[n] = f[1..n] /\ \A k \in 1..n : it[k] = G[<<k, it[k - 1]>>]
  BY <1>11 DEF HasTrace
<1>13. ASSUME NEW k \in 1..n PROVE it[k] = ProjectResult(it[k - 1], rs[k])
  <2>1. k - 1 \in 0..n
    BY <1>1
  <2>2. it[k - 1] \in V /\ k \in Nat
    BY <1>1, <2>1
  <2> QED BY <1>1, <1>4, <1>12, <2>2
<1>14. it[n] = ResultBlocks(st, rs)
  BY <1>1, <1>9, <1>12
<1> QED BY <1>12, <1>13, <1>14 DEF V, base

LEMMA ResultsTyped ==
  ASSUME NEW I, NEW Out, NEW st \in States(I, Out), NEW rs \in Seq(ResultBlock), Ids(rs) \subseteq I
  PROVE  ResultBlocks(st, rs) \in States(I, Block)
<1>1. PICK it \in [0..Len(rs) -> States(I, Block)] :
        /\ it[0] = [st EXCEPT !.out = <<>>] /\ it[Len(rs)] = ResultBlocks(st, rs)
        /\ \A k \in 1..Len(rs) : it[k] = ProjectResult(it[k - 1], rs[k])
  BY ResultsTrace
<1>2. Len(rs) \in 0..Len(rs)
  OBVIOUS
<1> QED BY <1>1, <1>2

Messages(I) ==
  {m \in [role : {"user", "assistant"}, calls : Seq(CallBlock), results : Seq(ResultBlock)] :
     Ids(m.calls) \subseteq I /\ Ids(m.results) \subseteq I}

LEMMA Replaced ==
  ASSUME NEW S, NEW s \in Seq(S), NEW k \in 1..Len(s), NEW x \in S
  PROVE  LET new == [s EXCEPT ![k] = x]
         IN /\ new \in Seq(S) /\ Len(new) = Len(s) /\ new[k] = x
            /\ \A i \in 1..Len(s) : i # k => new[i] = s[i]
<1>1. Len(s) \in Nat /\ DOMAIN s = 1..Len(s) /\ \A i \in 1..Len(s) : s[i] \in S
  OBVIOUS
<1> DEFINE new == [s EXCEPT ![k] = x]
<1>2. new = [i \in 1..Len(s) |-> IF i = k THEN x ELSE s[i]]
  BY <1>1
<1> HIDE DEF new
<1>3. new \in [1..Len(s) -> S]
  BY <1>1, <1>2
<1>4. new \in Seq(S) /\ Len(new) = Len(s)
  BY <1>1, <1>3
<1> QED BY <1>1, <1>2, <1>4 DEF new

LEMMA MergeType ==
  ASSUME NEW out \in Seq(WireMessage), NEW msg \in WireMessage
  PROVE  LET merged == MergeSameRole(out, msg)
         IN /\ merged \in Seq(WireMessage)
            /\ IF out # <<>> /\ out[Len(out)].role = msg.role
               THEN /\ Len(merged) = Len(out) /\ \A i \in 1..Len(out) - 1 : merged[i] = out[i]
                    /\ merged[Len(out)].role = msg.role
                    /\ merged[Len(out)].uses = out[Len(out)].uses \o msg.uses
                    /\ merged[Len(out)].results = out[Len(out)].results \o msg.results
               ELSE merged = Append(out, msg)
<1>1. CASE out # <<>> /\ out[Len(out)].role = msg.role
  <2> DEFINE last == out[Len(out)]
             uses == last.uses \o msg.uses
             results == last.results \o msg.results
             new == [last EXCEPT !.uses = uses, !.results = results]
  <2>1. Len(out) \in 1..Len(out) /\ Len(out) \in Nat /\ DOMAIN out = 1..Len(out) /\ last \in WireMessage
    BY <1>1
  <2>2. uses \in Seq(Block) /\ results \in Seq(Block)
    BY <2>1 DEF WireMessage
  <2>3. new \in WireMessage /\ new.role = last.role /\ new.uses = uses /\ new.results = results
    <3> HIDE DEF last, uses, results
    <3> QED BY <2>1, <2>2 DEF WireMessage
  <2>4. MergeSameRole(out, msg) = [out EXCEPT ![Len(out)] = new]
    BY <1>1, <2>1 DEF MergeSameRole, Last, WireMessage
  <2> HIDE DEF new
  <2>7. /\ MergeSameRole(out, msg) \in Seq(WireMessage)
        /\ Len(MergeSameRole(out, msg)) = Len(out) /\ MergeSameRole(out, msg)[Len(out)] = new
        /\ \A i \in 1..Len(out) : i # Len(out) => MergeSameRole(out, msg)[i] = out[i]
    BY <2>1, <2>3, <2>4, Replaced
  <2>8. \A i \in 1..Len(out) - 1 : i \in 1..Len(out) /\ i # Len(out)
    <3>1. Len(out) \in Nat
      OBVIOUS
    <3> QED BY <3>1
  <2>9. new.role = msg.role /\ new.uses = uses /\ new.results = results
    BY <1>1, <2>3
  <2> QED BY <1>1, <2>7, <2>8, <2>9
<1>2. CASE ~(out # <<>> /\ out[Len(out)].role = msg.role)
  <2>1. MergeSameRole(out, msg) = Append(out, msg)
    BY <1>2 DEF MergeSameRole, Last
  <2>2. Append(out, msg) \in Seq(WireMessage)
    OBVIOUS
  <2> QED BY <1>2, <2>1, <2>2
<1> QED BY <1>1, <1>2

LEMMA MessageStep ==
  ASSUME NEW I, NEW st \in States(I, WireMessage), NEW msg \in Messages(I)
  PROVE  LET uses    == CallBlocks(st, msg.calls)
             results == ResultBlocks(uses, msg.results)
             new     == AnthropicStep(st, msg)
         IN /\ uses \in States(I, Block) /\ results \in States(I, Block)
            /\ new \in States(I, WireMessage) /\ Same(new, results)
            /\ AnthropicMessage(msg.role, uses.out, results.out) \in WireMessage
            /\ new.out = MergeSameRole(st.out, AnthropicMessage(msg.role, uses.out, results.out))
<1> DEFINE uses == CallBlocks(st, msg.calls)
           results == ResultBlocks(uses, msg.results)
           wire == AnthropicMessage(msg.role, uses.out, results.out)
<1>1. /\ msg.role \in {"user", "assistant"} /\ msg.calls \in Seq(CallBlock)
      /\ msg.results \in Seq(ResultBlock) /\ Ids(msg.calls) \subseteq I /\ Ids(msg.results) \subseteq I
  BY DEF Messages
<1>2. uses \in States(I, Block)
  BY <1>1, CallsTyped
<1> HIDE DEF uses
<1>3. results \in States(I, Block)
  BY <1>1, <1>2, ResultsTyped
<1> HIDE DEF results
<1>4. wire \in WireMessage /\ st.out \in Seq(WireMessage)
  BY <1>1, <1>2, <1>3 DEF AnthropicMessage, WireMessage, States
<1>5. MergeSameRole(st.out, wire) \in Seq(WireMessage)
  BY <1>4, MergeType
<1>6. AnthropicStep(st, msg) = [results EXCEPT !.out = MergeSameRole(st.out, wire)]
  BY DEF AnthropicStep, uses, results, CallBlocks, ResultBlocks
<1> HIDE DEF wire
<1> QED BY <1>2, <1>3, <1>4, <1>5, <1>6, Emptied DEF uses, results, wire

MessagesFolded(st, h) == FoldLeft(AnthropicStep, st, h)

LEMMA MessagesTrace ==
  ASSUME NEW I, NEW st \in States(I, WireMessage), NEW h \in Seq(Messages(I))
  PROVE  \E it \in [0..Len(h) -> States(I, WireMessage)] :
           /\ it[0] = st /\ it[Len(h)] = MessagesFolded(st, h)
           /\ \A k \in 1..Len(h) : it[k] = AnthropicStep(it[k - 1], h[k])
<1> DEFINE V == States(I, WireMessage)
           base == st
           n == Len(h)
           G == [p \in Nat \X V |-> IF p[1] \in DOMAIN h THEN AnthropicStep(p[2], h[p[1]]) ELSE p[2]]
           Is(f) == f = [t \in SUBSET DOMAIN h |->
                           IF t = {} THEN base ELSE AnthropicStep(f[t \ {Max(t)}], h[Max(t)])]
<1>1. n \in Nat /\ DOMAIN h = 1..n
  OBVIOUS
<1>2. base \in V
  OBVIOUS
<1>3. \A k \in DOMAIN h : h[k] \in Messages(I) /\ k \in Nat
  OBVIOUS
<1>4. \A k \in Nat, v \in V :
        G[<<k, v>>] = IF k \in DOMAIN h THEN AnthropicStep(v, h[k]) ELSE v
  OBVIOUS
<1>5. Steps(G, V)
  <2>1. \A k \in Nat, v \in V : G[<<k, v>>] \in V
    BY <1>3, <1>4, MessageStep
  <2>2. G = [p \in Nat \X V |-> G[p]]
    OBVIOUS
  <2> HIDE DEF G
  <2>3. \A p \in Nat \X V : G[p] \in V
    BY <2>1
  <2> QED BY <2>2, <2>3 DEF Steps
<1> HIDE DEF G
<1>6. \A t \in SUBSET DOMAIN h : t # {} => Max(t) \in DOMAIN h /\ t \ {Max(t)} \in SUBSET DOMAIN h
  BY <1>1, MaxOfBounded
<1>7. \E f : Is(f)
  <2>1. HasFold(V, base, G, n)
    BY <1>1, <1>2, <1>5, FoldExists
  <2>2. PICK f \in [SUBSET (1..n) -> V] : \A t \in SUBSET (1..n) :
          f[t] = IF t = {} THEN base ELSE G[<<Max(t), f[t \ {Max(t)}]>>]
    BY <2>1 DEF HasFold
  <2> HIDE DEF V, base
  <2>3. ASSUME NEW t \in SUBSET DOMAIN h, t # {}
        PROVE  f[t] = AnthropicStep(f[t \ {Max(t)}], h[Max(t)])
    <3>1. f[t] = G[<<Max(t), f[t \ {Max(t)}]>>]
      BY <1>1, <2>2, <2>3
    <3>2. Max(t) \in DOMAIN h /\ Max(t) \in Nat /\ f[t \ {Max(t)}] \in V
      BY <1>1, <1>3, <1>6, <2>2, <2>3
    <3> QED BY <1>4, <3>1, <3>2
  <2>4. f = [t \in SUBSET DOMAIN h |-> f[t]] /\ f[{}] = base
    BY <1>1, <2>2
  <2>5. Is(f)
    BY <2>3, <2>4
  <2> QED BY <2>5
<1>8. MessagesFolded(st, h) = (CHOOSE f : Is(f))[DOMAIN h]
  BY DEF MessagesFolded, FoldLeft, MapThenFoldSet
<1>9. PICK f : Is(f) /\ MessagesFolded(st, h) = f[DOMAIN h]
  BY <1>7, <1>8
<1> HIDE DEF V, base
<1>10. Folds(f, V, base, G, n)
  <2>1. ASSUME NEW t \in SUBSET (1..n), t # {}, f[t \ {Max(t)}] \in V
        PROVE  f[t] = G[<<Max(t), f[t \ {Max(t)}]>>]
    <3>1. Max(t) \in DOMAIN h /\ Max(t) \in Nat
      BY <1>1, <1>3, <1>6, <2>1
    <3>2. f[t] = AnthropicStep(f[t \ {Max(t)}], h[Max(t)])
      BY <1>1, <1>9, <2>1
    <3> QED BY <1>4, <2>1, <3>1, <3>2
  <2>2. f[{}] = base
    BY <1>1, <1>9
  <2> QED BY <2>1, <2>2 DEF Folds
<1>11. HasTrace(V, base, G, n, f[1..n])
  BY <1>1, <1>2, <1>5, <1>10, FoldTrace
<1>12. PICK it \in [0..n -> V] :
         it[0] = base /\ it[n] = f[1..n] /\ \A k \in 1..n : it[k] = G[<<k, it[k - 1]>>]
  BY <1>11 DEF HasTrace
<1>13. ASSUME NEW k \in 1..n PROVE it[k] = AnthropicStep(it[k - 1], h[k])
  <2>1. k - 1 \in 0..n
    BY <1>1
  <2>2. it[k - 1] \in V /\ k \in Nat
    BY <1>1, <2>1
  <2> QED BY <1>1, <1>4, <1>12, <2>2
<1>14. it[n] = MessagesFolded(st, h)
  BY <1>1, <1>9, <1>12
<1> QED BY <1>12, <1>13, <1>14 DEF V, base
-----------------------------------------------------------------------------
(***************************************************************************)
(* One round.  k of its calls are projected: each nonzero id of a nameless *)
(* call waits to be dropped once, calls without an id are as many as the   *)
(* drops of id 0 and the generated ids together, and the request has the   *)
(* ids of the others and the generated ones, all of them new.              *)
(***************************************************************************)
IdsApart(blocks) == \A k, l \in DOMAIN blocks : blocks[k].id = blocks[l].id => k = l
NonzeroApart(blocks) ==
  \A k, l \in DOMAIN blocks : blocks[k].id = blocks[l].id /\ blocks[k].id # 0 => k = l
AtMostOneIdless(cs) == \A k, l \in DOMAIN cs : Idless(cs[k]) /\ Idless(cs[l]) => k = l

Zeros(blocks, from, to) == {i \in from..to : blocks[i].id = 0}
Made(v) == {v.generated[i] : i \in DOMAIN v.generated}
NamedIds(cs, k) == {cs[i].id : i \in {j \in 1..k : cs[j].named /\ cs[j].id # 0}}
NamelessIds(cs, k) == {cs[i].id : i \in {j \in 1..k : ~cs[j].named /\ cs[j].id # 0}}
Ready(v) == \A a \in v.available : a > v.fresh

Counted(I, cs, k, v) ==
  /\ v.dropped[0] \in Nat
  /\ v.dropped[0] + Len(v.generated) = Cardinality(Zeros(cs, 1, k))
  /\ \A x \in I \ {0} : v.dropped[x] = IF x \in NamelessIds(cs, k) THEN 1 ELSE 0

Listed(before, cs, k, v, uses) ==
  /\ Ids(uses) = NamedIds(cs, k) \cup Made(v) /\ IdsApart(uses)
  /\ \A g \in Made(v) : g < 0
  /\ \A i, j \in DOMAIN v.generated : v.generated[i] = v.generated[j] => i = j
  /\ v.available = before.available \cup Ids(uses)
  /\ Ids(uses) \cap before.available = {}

Freshly(before, cs, k, v) ==
  /\ v.tick = before.tick /\ v.fresh < 0
  /\ Ready(before) => Ready(v) \/ (v.tick = 0 /\ \E i \in 1..k : Idless(cs[i]))

Clean(I, v) == v.generated = <<>> /\ \A x \in I : v.dropped[x] = 0

(* What is asked of the calls of a round, before it.                       *)
Acceptable(I, before, cs) ==
  /\ cs \in Seq(CallBlock) /\ 0 \in I /\ Ids(cs) \subseteq I /\ NonzeroApart(cs)
  /\ \A i \in DOMAIN cs : cs[i].id # 0 => cs[i].id \notin before.available
  /\ Clean(I, before) /\ before.fresh < 0
  /\ \A i \in DOMAIN cs : Idless(cs[i]) => Ready(before)
  /\ before.tick = 1 \/ AtMostOneIdless(cs)

LEMMA ZerosNext ==
  ASSUME NEW blocks, NEW k \in Nat
  PROVE  /\ IsFiniteSet(Zeros(blocks, 1, k)) /\ Cardinality(Zeros(blocks, 1, k)) \in Nat
         /\ Cardinality(Zeros(blocks, 1, k + 1)) =
              IF blocks[k + 1].id = 0 THEN Cardinality(Zeros(blocks, 1, k)) + 1
              ELSE Cardinality(Zeros(blocks, 1, k))
<1>1. IsFiniteSet(1..k) /\ Zeros(blocks, 1, k) \subseteq 1..k
  BY FS_Interval DEF Zeros
<1>2. IsFiniteSet(Zeros(blocks, 1, k)) /\ Cardinality(Zeros(blocks, 1, k)) \in Nat
  BY <1>1, FS_Subset, FS_CardinalityType
<1>3. CASE blocks[k + 1].id = 0
  <2>1. /\ Zeros(blocks, 1, k + 1) = Zeros(blocks, 1, k) \cup {k + 1}
        /\ k + 1 \notin Zeros(blocks, 1, k)
    BY <1>3 DEF Zeros
  <2>2. Cardinality(Zeros(blocks, 1, k) \cup {k + 1}) = Cardinality(Zeros(blocks, 1, k)) + 1
    BY <1>2, <2>1, FS_AddElement
  <2> QED BY <1>2, <1>3, <2>1, <2>2
<1>4. CASE blocks[k + 1].id # 0
  <2>1. Zeros(blocks, 1, k + 1) = Zeros(blocks, 1, k)
    BY <1>4 DEF Zeros
  <2> QED BY <1>2, <1>4, <2>1
<1> QED BY <1>3, <1>4

LEMMA NamesNext ==
  ASSUME NEW cs, NEW k \in Nat, cs[k + 1].named \in BOOLEAN
  PROVE  /\ NamedIds(cs, k + 1) = NamedIds(cs, k) \cup
              (IF cs[k + 1].named /\ cs[k + 1].id # 0 THEN {cs[k + 1].id} ELSE {})
         /\ NamelessIds(cs, k + 1) = NamelessIds(cs, k) \cup
              (IF ~cs[k + 1].named /\ cs[k + 1].id # 0 THEN {cs[k + 1].id} ELSE {})
<1>1. 1..k + 1 = (1..k) \cup {k + 1}
  OBVIOUS
<1> QED BY <1>1 DEF NamedIds, NamelessIds

LEMMA AppendIds ==
  ASSUME NEW S, NEW s \in Seq(S), NEW b \in S
  PROVE  /\ Ids(Append(s, b)) = Ids(s) \cup {b.id} /\ Ids(<<>>) = {}
         /\ IdsApart(s) /\ b.id \notin Ids(s) => IdsApart(Append(s, b))
<1>1. /\ Len(s) \in Nat /\ DOMAIN s = 1..Len(s) /\ DOMAIN Append(s, b) = 1..Len(s) + 1
      /\ \A i \in 1..Len(s) : Append(s, b)[i] = s[i]
      /\ Append(s, b)[Len(s) + 1] = b
  OBVIOUS
<1>2. \A i \in 1..Len(s) + 1 : i \in 1..Len(s) \/ i = Len(s) + 1
  BY <1>1
<1>3. DOMAIN <<>> = {}
  OBVIOUS
<1>4. Ids(Append(s, b)) = Ids(s) \cup {b.id}
  BY <1>1, <1>2 DEF Ids
<1>5. ASSUME IdsApart(s), b.id \notin Ids(s) PROVE IdsApart(Append(s, b))
  BY <1>1, <1>2, <1>5 DEF Ids, IdsApart
<1> QED BY <1>3, <1>4, <1>5 DEF Ids

LEMMA AppendMade ==
  ASSUME NEW v, v.generated \in Seq(Int), NEW g \in Int,
         NEW w, w.generated = Append(v.generated, g)
  PROVE  /\ Len(w.generated) = Len(v.generated) + 1 /\ Made(w) = Made(v) \cup {g}
         /\ (\A i, j \in DOMAIN v.generated : v.generated[i] = v.generated[j] => i = j)
              /\ g \notin Made(v) =>
              \A i, j \in DOMAIN w.generated : w.generated[i] = w.generated[j] => i = j
<1> DEFINE s == v.generated
           q == w.generated
<1> HIDE DEF s, q
<1>1. s \in Seq(Int) /\ q = Append(s, g)
  BY DEF s, q
<1>2. /\ Len(s) \in Nat /\ DOMAIN s = 1..Len(s) /\ DOMAIN q = 1..Len(s) + 1
      /\ \A i \in 1..Len(s) : q[i] = s[i]
      /\ q[Len(s) + 1] = g /\ Len(q) = Len(s) + 1
  BY <1>1
<1>3. \A i \in 1..Len(s) + 1 : i \in 1..Len(s) \/ i = Len(s) + 1
  BY <1>2
<1>4. Made(w) = Made(v) \cup {g}
  <2>1. Made(w) = {q[i] : i \in 1..Len(s) + 1} /\ Made(v) = {s[i] : i \in 1..Len(s)}
    BY <1>2 DEF Made, s, q
  <2>2. Len(s) + 1 \in 1..Len(s) + 1 /\ \A i \in 1..Len(s) : i \in 1..Len(s) + 1
    BY <1>2
  <2> QED BY <1>2, <1>3, <2>1, <2>2
<1>5. \A i \in 1..Len(s) : s[i] \in Made(v)
  BY <1>2 DEF Made, s
<1>6. ASSUME \A i, j \in DOMAIN s : s[i] = s[j] => i = j, g \notin Made(v)
      PROVE  \A i, j \in DOMAIN q : q[i] = q[j] => i = j
  BY <1>2, <1>3, <1>5, <1>6
<1> QED BY <1>2, <1>4, <1>6 DEF s, q

LEMMA CalledStep ==
  ASSUME NEW I, NEW before, NEW cs, Acceptable(I, before, cs), NEW k \in Nat, k + 1 <= Len(cs),
         NEW v \in States(I, Block),
         Counted(I, cs, k, v), Listed(before, cs, k, v, v.out), Freshly(before, cs, k, v)
  PROVE  LET w == ProjectCall(v, cs[k + 1])
         IN /\ Counted(I, cs, k + 1, w) /\ Listed(before, cs, k + 1, w, w.out)
            /\ Freshly(before, cs, k + 1, w)
<1> DEFINE c == cs[k + 1]
           w == ProjectCall(v, c)
           id == IF c.id = 0 THEN v.fresh ELSE c.id
<1>1. /\ cs \in Seq(CallBlock) /\ Len(cs) \in Nat /\ DOMAIN cs = 1..Len(cs) /\ k + 1 \in DOMAIN cs
      /\ c \in CallBlock /\ c.id \in Nat /\ c.named \in BOOLEAN /\ c.n \in Nat
      /\ \A i \in 1..k : i \in DOMAIN cs /\ i # k + 1
  <2>1. cs \in Seq(CallBlock)
    BY DEF Acceptable
  <2>2. Len(cs) \in Nat /\ DOMAIN cs = 1..Len(cs) /\ k + 1 \in DOMAIN cs
    BY <2>1
  <2>3. c \in CallBlock
    BY <2>1, <2>2
  <2> HIDE DEF c
  <2>4. c.id \in Nat /\ c.named \in BOOLEAN /\ c.n \in Nat
    BY <2>3 DEF CallBlock
  <2> QED BY <2>1, <2>2, <2>3, <2>4
<1>2. c.id \in I /\ 0 \in I
  BY <1>1 DEF Acceptable, Ids
<1>3. /\ v.out \in Seq(Block) /\ v.dropped \in [I -> Int] /\ v.generated \in Seq(Int)
      /\ v.available \in SUBSET Int /\ v.fresh \in Int /\ v.tick \in {0, 1}
  BY DEF States
<1>4. c.id # 0 => c.id \notin NamedIds(cs, k) /\ c.id \notin NamelessIds(cs, k)
  BY <1>1 DEF Acceptable, NonzeroApart, NamedIds, NamelessIds
<1>5. /\ w.tick = v.tick
      /\ ~c.named => /\ w.dropped = [v.dropped EXCEPT ![c.id] = @ + 1]
                     /\ w.out = v.out /\ w.generated = v.generated
                     /\ w.available = v.available /\ w.fresh = v.fresh
      /\ c.named =>
           /\ w.dropped = v.dropped /\ w.available = v.available \cup {id}
           /\ w.out = Append(v.out, [id |-> id, n |-> c.n])
           /\ w.generated = IF c.id = 0 THEN Append(v.generated, id) ELSE v.generated
           /\ w.fresh = IF c.id = 0 THEN v.fresh - v.tick ELSE v.fresh
  BY <1>1, <1>2, CallStep
<1> HIDE DEF w
<1>6. c.named /\ c.id = 0 => Ready(v) /\ Ready(before)
  <2> SUFFICES ASSUME Idless(c) PROVE Ready(v) /\ Ready(before)
    BY DEF Idless
  <2>1. Ready(before)
    BY <1>1 DEF Acceptable
  <2>2. ~(v.tick = 0 /\ \E i \in 1..k : Idless(cs[i]))
    BY <1>1 DEF Acceptable, AtMostOneIdless, Freshly
  <2> QED BY <2>1, <2>2 DEF Freshly
<1>7. /\ Cardinality(Zeros(cs, 1, k)) \in Nat
      /\ Cardinality(Zeros(cs, 1, k + 1)) =
            IF c.id = 0 THEN Cardinality(Zeros(cs, 1, k)) + 1 ELSE Cardinality(Zeros(cs, 1, k))
  BY ZerosNext
<1>8. /\ NamedIds(cs, k + 1) =
            NamedIds(cs, k) \cup (IF c.named /\ c.id # 0 THEN {c.id} ELSE {})
      /\ NamelessIds(cs, k + 1) =
            NamelessIds(cs, k) \cup (IF ~c.named /\ c.id # 0 THEN {c.id} ELSE {})
  BY <1>1, NamesNext
<1>9. CASE ~c.named
  <2>1. Counted(I, cs, k + 1, w)
    <3>1. w.dropped[0] = IF c.id = 0 THEN v.dropped[0] + 1 ELSE v.dropped[0]
      BY <1>2, <1>3, <1>5, <1>9
    <3>2. w.generated = v.generated /\ Len(v.generated) \in Nat
      BY <1>3, <1>5, <1>9
    <3>3. ASSUME NEW x \in I \ {0}
          PROVE  w.dropped[x] = IF x \in NamelessIds(cs, k + 1) THEN 1 ELSE 0
      <4>1. w.dropped[x] = IF x = c.id THEN v.dropped[x] + 1 ELSE v.dropped[x]
        BY <1>2, <1>3, <1>5, <1>9
      <4> QED BY <1>4, <1>8, <1>9, <4>1 DEF Counted
    <3>4. /\ v.dropped[0] \in Nat
          /\ v.dropped[0] + Len(v.generated) = Cardinality(Zeros(cs, 1, k))
      BY DEF Counted
    <3>5. /\ w.dropped[0] \in Nat
          /\ w.dropped[0] + Len(w.generated) = Cardinality(Zeros(cs, 1, k + 1))
      <4>1. v.dropped[0] + 1 + Len(v.generated) = v.dropped[0] + Len(v.generated) + 1
        BY <3>2, <3>4
      <4>2. CASE c.id = 0
        BY <1>7, <3>1, <3>2, <3>4, <4>1, <4>2
      <4>3. CASE c.id # 0
        BY <1>7, <3>1, <3>2, <3>4, <4>3
      <4> QED BY <4>2, <4>3
    <3> QED BY <3>3, <3>5 DEF Counted
  <2>2. Listed(before, cs, k + 1, w, w.out)
    BY <1>5, <1>8, <1>9 DEF Listed, Made
  <2>3. Freshly(before, cs, k + 1, w)
    <3>1. Ready(v) <=> Ready(w)
      BY <1>5, <1>9 DEF Ready
    <3>2. (\E i \in 1..k : Idless(cs[i])) => \E i \in 1..k + 1 : Idless(cs[i])
      OBVIOUS
    <3> QED BY <1>5, <1>9, <3>1, <3>2 DEF Freshly
  <2> QED BY <2>1, <2>2, <2>3 DEF w
<1>10. CASE c.named
  <2> DEFINE b == [id |-> id, n |-> c.n]
  <2>1. b \in Block /\ b.id = id /\ id \in Int
    BY <1>1, <1>3 DEF Block
  <2>2. id \notin Ids(v.out) /\ id \notin before.available
    <3>1. CASE c.id = 0
      <4>1. \A a \in v.available : a > v.fresh
        BY <1>6, <1>10, <3>1 DEF Ready
      <4>2. id \notin v.available
        BY <1>3, <3>1, <4>1
      <4> QED BY <4>2 DEF Listed
    <3>2. CASE c.id # 0
      <4>1. id = c.id /\ ~(id < 0)
        BY <1>1, <3>2
      <4>2. id \notin Made(v) /\ id \notin NamedIds(cs, k)
        BY <1>4, <3>2, <4>1 DEF Listed
      <4> QED BY <1>1, <3>2, <4>1, <4>2 DEF Listed, Acceptable
    <3> QED BY <3>1, <3>2
  <2> HIDE DEF b
  <2>3. /\ Ids(w.out) = Ids(v.out) \cup {id} /\ IdsApart(w.out)
    <3>1. w.out = Append(v.out, b) /\ IdsApart(v.out)
      BY <1>5, <1>10 DEF b, Listed
    <3> HIDE DEF id
    <3> QED BY <1>3, <2>1, <2>2, <3>1, AppendIds
  <2>4. /\ Made(w) = Made(v) \cup (IF c.id = 0 THEN {id} ELSE {})
        /\ Len(w.generated) = IF c.id = 0 THEN Len(v.generated) + 1 ELSE Len(v.generated)
        /\ \A i, j \in DOMAIN w.generated : w.generated[i] = w.generated[j] => i = j
    <3>1. CASE c.id = 0
      <4>1. w.generated = Append(v.generated, id)
        BY <1>5, <1>10, <3>1
      <4>2. id \notin Made(v)
        BY <2>2 DEF Listed
      <4> HIDE DEF id
      <4>3. \A i, j \in DOMAIN v.generated : v.generated[i] = v.generated[j] => i = j
        BY DEF Listed
      <4>4. /\ Len(w.generated) = Len(v.generated) + 1 /\ Made(w) = Made(v) \cup {id}
            /\ \A i, j \in DOMAIN w.generated : w.generated[i] = w.generated[j] => i = j
        BY <1>3, <2>1, <4>1, <4>2, <4>3, AppendMade
      <4> QED BY <3>1, <4>4
    <3>2. CASE c.id # 0
      <4>1. w.generated = v.generated
        BY <1>5, <1>10, <3>2
      <4> QED BY <3>2, <4>1 DEF Made, Listed
    <3> QED BY <3>1, <3>2
  <2>5. Counted(I, cs, k + 1, w)
    <3>1. w.dropped = v.dropped /\ Len(v.generated) \in Nat
      BY <1>3, <1>5, <1>10
    <3>2. NamelessIds(cs, k + 1) = NamelessIds(cs, k)
      BY <1>8, <1>10
    <3>3. /\ v.dropped[0] \in Nat
          /\ v.dropped[0] + Len(v.generated) = Cardinality(Zeros(cs, 1, k))
      BY DEF Counted
    <3>4. /\ w.dropped[0] \in Nat
          /\ w.dropped[0] + Len(w.generated) = Cardinality(Zeros(cs, 1, k + 1))
      <4>1. CASE c.id = 0
        <5>1. /\ w.dropped[0] = v.dropped[0] /\ Len(w.generated) = Len(v.generated) + 1
              /\ Cardinality(Zeros(cs, 1, k + 1)) = Cardinality(Zeros(cs, 1, k)) + 1
          BY <1>7, <2>4, <3>1, <4>1
        <5> HIDE DEF w, id, c
        <5> QED BY <3>1, <3>3, <5>1
      <4>2. CASE c.id # 0
        <5>1. /\ w.dropped[0] = v.dropped[0] /\ Len(w.generated) = Len(v.generated)
              /\ Cardinality(Zeros(cs, 1, k + 1)) = Cardinality(Zeros(cs, 1, k))
          BY <1>7, <2>4, <3>1, <4>2
        <5> QED BY <3>3, <5>1
      <4> QED BY <4>1, <4>2
    <3>5. \A x \in I \ {0} : w.dropped[x] = IF x \in NamelessIds(cs, k + 1) THEN 1 ELSE 0
      BY <3>1, <3>2 DEF Counted
    <3> QED BY <3>4, <3>5 DEF Counted
  <2>6. Listed(before, cs, k + 1, w, w.out)
    <3>1. w.available = v.available \cup {id}
      BY <1>5, <1>10
    <3>2. \A g \in Made(w) : g < 0
      BY <2>4 DEF Listed, Freshly
    <3>3. NamedIds(cs, k + 1) \cup Made(w) = NamedIds(cs, k) \cup Made(v) \cup {id}
      BY <1>8, <1>10, <2>4
    <3> HIDE DEF id
    <3> QED BY <2>2, <2>3, <2>4, <3>1, <3>2, <3>3 DEF Listed
  <2>7. Freshly(before, cs, k + 1, w)
    <3>1. w.available = v.available \cup {id} /\ v.fresh < 0
      BY <1>5, <1>10 DEF Freshly
    <3>2. CASE c.id = 0
      <4>1. Idless(cs[k + 1]) /\ k + 1 \in 1..k + 1
        BY <1>10, <3>2 DEF Idless
      <4>2. w.fresh = v.fresh - v.tick /\ w.fresh < 0
        BY <1>3, <1>5, <1>10, <3>1, <3>2
      <4>3. v.tick = 1 => Ready(w)
        <5>1. \A a \in v.available : a \in Int /\ a > v.fresh
          BY <1>3, <1>6, <1>10, <3>2 DEF Ready
        <5> QED BY <1>3, <3>1, <3>2, <4>2, <5>1 DEF Ready
      <4> QED BY <1>3, <1>5, <4>1, <4>2, <4>3 DEF Freshly
    <3>3. CASE c.id # 0
      <4>1. w.fresh = v.fresh /\ id > v.fresh
        BY <1>1, <1>3, <1>5, <1>10, <3>1, <3>3
      <4>2. Ready(v) => Ready(w)
        BY <3>1, <4>1 DEF Ready
      <4>3. (\E i \in 1..k : Idless(cs[i])) => \E i \in 1..k + 1 : Idless(cs[i])
        OBVIOUS
      <4> QED BY <1>5, <4>1, <4>2, <4>3 DEF Freshly
    <3> QED BY <3>2, <3>3
  <2> QED BY <2>5, <2>6, <2>7 DEF w
<1> QED BY <1>1, <1>9, <1>10

(* All calls of a round.                                                   *)
LEMMA CallsProjected ==
  ASSUME NEW I, NEW Out, NEW before \in States(I, Out), NEW cs, Acceptable(I, before, cs)
  PROVE  LET v == CallBlocks(before, cs)
         IN /\ v \in States(I, Block) /\ Counted(I, cs, Len(cs), v)
            /\ Listed(before, cs, Len(cs), v, v.out) /\ Freshly(before, cs, Len(cs), v)
<1> DEFINE Holds(k, v) ==
      Counted(I, cs, k, v) /\ Listed(before, cs, k, v, v.out) /\ Freshly(before, cs, k, v)
<1>1. cs \in Seq(CallBlock) /\ Ids(cs) \subseteq I /\ Len(cs) \in Nat
  BY DEF Acceptable
<1>2. PICK it \in [0..Len(cs) -> States(I, Block)] :
        /\ it[0] = [before EXCEPT !.out = <<>>] /\ it[Len(cs)] = CallBlocks(before, cs)
        /\ \A k \in 1..Len(cs) : it[k] = ProjectCall(it[k - 1], cs[k])
  BY <1>1, CallsTrace
<1> DEFINE S == {k \in Nat : k <= Len(cs) => Holds(k, it[k])}
<1>3. 0 \in S
  <2>1. it[0].out = <<>> /\ Same(it[0], before)
    <3>1. <<>> \in Seq(Block)
      OBVIOUS
    <3>2. /\ [before EXCEPT !.out = <<>>].out = <<>>
          /\ Same([before EXCEPT !.out = <<>>], before)
      BY DEF States, Same
    <3> QED BY <1>2, <3>2
  <2>2. Zeros(cs, 1, 0) = {} /\ NamedIds(cs, 0) = {} /\ NamelessIds(cs, 0) = {}
    BY DEF Zeros, NamedIds, NamelessIds
  <2>3. it[0].generated = <<>> /\ 0 \in I /\ (\A x \in I : it[0].dropped[x] = 0) /\ it[0].fresh < 0
    BY <2>1 DEF Acceptable, Clean, Same
  <2>4. Counted(I, cs, 0, it[0])
    <3>1. Len(<<>>) = 0 /\ Cardinality({}) = 0
      BY FS_EmptySet
    <3> QED BY <2>2, <2>3, <3>1 DEF Counted
  <2>5. Listed(before, cs, 0, it[0], it[0].out)
    <3>1. DOMAIN <<>> = {}
      OBVIOUS
    <3>2. Ids(it[0].out) = {} /\ Made(it[0]) = {} /\ IdsApart(it[0].out)
      BY <2>1, <2>3, <3>1 DEF Ids, Made, IdsApart
    <3> QED BY <2>1, <2>2, <2>3, <3>1, <3>2 DEF Listed, Same
  <2>6. Freshly(before, cs, 0, it[0])
    BY <2>1, <2>3 DEF Freshly, Same, Ready
  <2> QED BY <2>4, <2>5, <2>6
<1>4. ASSUME NEW k \in Nat, k \in S PROVE k + 1 \in S
  <2> SUFFICES ASSUME k + 1 <= Len(cs) PROVE Holds(k + 1, it[k + 1])
    OBVIOUS
  <2>1. k <= Len(cs) /\ k \in 0..Len(cs) /\ k + 1 \in 1..Len(cs) /\ (k + 1) - 1 = k
    BY <1>1
  <2>2. it[k] \in States(I, Block) /\ it[k + 1] = ProjectCall(it[k], cs[k + 1])
    BY <1>2, <2>1
  <2>3. Holds(k, it[k])
    BY <1>4, <2>1
  <2> QED BY <2>2, <2>3, CalledStep
<1> HIDE DEF S, Holds
<1>5. Len(cs) \in S
  BY <1>1, <1>3, <1>4, NatSetInduction
<1>6. Holds(Len(cs), CallBlocks(before, cs)) /\ CallBlocks(before, cs) \in States(I, Block)
  <2>1. Holds(Len(cs), it[Len(cs)])
    BY <1>1, <1>5 DEF S
  <2>2. Len(cs) \in 0..Len(cs)
    BY <1>1
  <2> QED BY <1>2, <2>1, <2>2
<1> QED BY <1>6 DEF Holds

(***************************************************************************)
(* The results of the round, of which k are projected: a drop is left for  *)
(* each nameless call without one yet, the results without an id to come   *)
(* are as many as the drops of id 0 and the generated ids left, and each   *)
(* id of the request that had its result is answered once.                 *)
(***************************************************************************)
Fit(cs, rs) ==
  /\ cs \in Seq(CallBlock) /\ rs \in Seq(ResultBlock) /\ Len(rs) = Len(cs)
  /\ \A i \in DOMAIN cs : cs[i].id = 0 <=> rs[i].id = 0
  /\ Ids(rs) = Ids(cs) /\ NonzeroApart(cs) /\ NonzeroApart(rs)

Open(I, cs, v) ==
  /\ Counted(I, cs, Len(cs), v)
  /\ \A g \in Made(v) : g < 0
  /\ \A i, j \in DOMAIN v.generated : v.generated[i] = v.generated[j] => i = j
  /\ NamedIds(cs, Len(cs)) \cup Made(v) \subseteq v.available

Had(rs, k) == {rs[i].id : i \in 1..k}

Balanced(I, cs, rs, k, w) ==
  /\ w.dropped[0] \in Nat
  /\ w.dropped[0] + Len(w.generated) = Cardinality(Zeros(rs, k + 1, Len(rs)))
  /\ \A x \in I \ {0} :
       w.dropped[x] = IF x \in NamelessIds(cs, Len(cs)) \ Had(rs, k) THEN 1 ELSE 0

Replied(cs, rs, was, k, w) ==
  /\ Ids(w.out) = (NamedIds(cs, Len(cs)) \cap Had(rs, k)) \cup (Made(was) \ Made(w))
  /\ Made(w) \subseteq Made(was) /\ IdsApart(w.out)
  /\ \A i, j \in DOMAIN w.generated : w.generated[i] = w.generated[j] => i = j
  /\ w.available = was.available /\ w.fresh = was.fresh /\ w.tick = was.tick

LEMMA ZerosLeft ==
  ASSUME NEW blocks, NEW n \in Nat, NEW k \in Nat, k + 1 <= n
  PROVE  /\ Cardinality(Zeros(blocks, k + 2, n)) \in Nat
         /\ Cardinality(Zeros(blocks, k + 1, n)) =
              IF blocks[k + 1].id = 0 THEN Cardinality(Zeros(blocks, k + 2, n)) + 1
              ELSE Cardinality(Zeros(blocks, k + 2, n))
<1>1. IsFiniteSet(k + 2..n) /\ Zeros(blocks, k + 2, n) \subseteq k + 2..n
  BY FS_Interval DEF Zeros
<1>2. IsFiniteSet(Zeros(blocks, k + 2, n)) /\ Cardinality(Zeros(blocks, k + 2, n)) \in Nat
  BY <1>1, FS_Subset, FS_CardinalityType
<1>3. k + 1..n = {k + 1} \cup (k + 2..n) /\ k + 1 \notin k + 2..n
  OBVIOUS
<1>4. CASE blocks[k + 1].id = 0
  <2>1. /\ Zeros(blocks, k + 1, n) = Zeros(blocks, k + 2, n) \cup {k + 1}
        /\ k + 1 \notin Zeros(blocks, k + 2, n)
    BY <1>3, <1>4 DEF Zeros
  <2>2. Cardinality(Zeros(blocks, k + 2, n) \cup {k + 1}) = Cardinality(Zeros(blocks, k + 2, n)) + 1
    BY <1>2, <2>1, FS_AddElement
  <2> QED BY <1>2, <1>4, <2>1, <2>2
<1>5. CASE blocks[k + 1].id # 0
  <2>1. Zeros(blocks, k + 1, n) = Zeros(blocks, k + 2, n)
    BY <1>3, <1>5 DEF Zeros
  <2> QED BY <1>2, <1>5, <2>1
<1> QED BY <1>4, <1>5

LEMMA TailMade ==
  ASSUME NEW v, v.generated \in Seq(Int), v.generated # <<>>,
         \A i, j \in DOMAIN v.generated : v.generated[i] = v.generated[j] => i = j,
         NEW w, w.generated = Tail(v.generated)
  PROVE  /\ Head(v.generated) \in Made(v) /\ Made(w) = Made(v) \ {Head(v.generated)}
         /\ Len(v.generated) = Len(w.generated) + 1 /\ Len(w.generated) \in Nat
         /\ \A i, j \in DOMAIN w.generated : w.generated[i] = w.generated[j] => i = j
<1> DEFINE s == v.generated
           q == w.generated
<1> HIDE DEF s, q
<1>1. /\ s \in Seq(Int) /\ s # <<>> /\ q = Tail(s)
      /\ \A i, j \in DOMAIN s : s[i] = s[j] => i = j
  BY DEF s, q
<1>2. /\ Len(s) \in Nat /\ Len(s) >= 1 /\ DOMAIN s = 1..Len(s)
      /\ Len(q) = Len(s) - 1 /\ DOMAIN q = 1..Len(s) - 1 /\ Head(s) = s[1]
      /\ \A i \in 1..Len(s) - 1 : q[i] = s[i + 1]
  BY <1>1
<1>3. \A i \in 1..Len(s) - 1 : i + 1 \in 1..Len(s) /\ i + 1 # 1
  BY <1>2
<1>4. \A i \in 1..Len(s) : i # 1 => i - 1 \in 1..Len(s) - 1 /\ (i - 1) + 1 = i
  BY <1>2
<1>5. 1 \in 1..Len(s)
  BY <1>2
<1>6. \A i, j \in DOMAIN q : q[i] = q[j] => i = j
  <2> SUFFICES ASSUME NEW i \in DOMAIN q, NEW j \in DOMAIN q, q[i] = q[j] PROVE i = j
    OBVIOUS
  <2>1. i \in 1..Len(s) - 1 /\ j \in 1..Len(s) - 1
    BY <1>2
  <2>2. i + 1 \in DOMAIN s /\ j + 1 \in DOMAIN s /\ s[i + 1] = s[j + 1]
    BY <1>2, <1>3, <2>1
  <2>3. i + 1 = j + 1
    BY <1>1, <2>2
  <2> QED BY <1>2, <2>1, <2>3
<1>7. {q[i] : i \in DOMAIN q} = {s[i] : i \in DOMAIN s} \ {Head(s)}
  <2>1. ASSUME NEW i \in DOMAIN q PROVE q[i] \in {s[j] : j \in DOMAIN s} \ {Head(s)}
    <3>1. i + 1 \in DOMAIN s /\ q[i] = s[i + 1] /\ s[i + 1] # s[1]
      BY <1>1, <1>2, <1>3, <1>5
    <3> QED BY <1>2, <3>1
  <2>2. ASSUME NEW i \in DOMAIN s, s[i] # Head(s) PROVE s[i] \in {q[j] : j \in DOMAIN q}
    <3>1. i # 1
      BY <1>2, <2>2
    <3>2. i - 1 \in DOMAIN q /\ q[i - 1] = s[i]
      BY <1>2, <1>4, <3>1
    <3> QED BY <3>2
  <2> QED BY <2>1, <2>2
<1>8. Made(v) = {s[i] : i \in DOMAIN s} /\ Made(w) = {q[i] : i \in DOMAIN q}
  BY DEF Made, s, q
<1>9. /\ Head(s) \in Made(v) /\ Made(w) = Made(v) \ {Head(s)}
      /\ Len(s) = Len(q) + 1 /\ Len(q) \in Nat
  <2>1. Len(s) - 1 + 1 = Len(s) /\ Len(s) - 1 \in Nat
    BY <1>2
  <2> QED BY <1>2, <1>5, <1>7, <1>8, <2>1
<1> QED BY <1>6, <1>9 DEF s, q

(* One more result of the round.                                           *)
LEMMA RepliedStep ==
  ASSUME NEW I, NEW cs, NEW rs, Fit(cs, rs), 0 \in I, Ids(cs) \subseteq I,
         NEW was, Open(I, cs, was), NEW k \in Nat, k + 1 <= Len(rs),
         NEW v \in States(I, Block), Balanced(I, cs, rs, k, v), Replied(cs, rs, was, k, v)
  PROVE  LET w == ProjectResult(v, rs[k + 1])
         IN Balanced(I, cs, rs, k + 1, w) /\ Replied(cs, rs, was, k + 1, w)
<1> DEFINE r == rs[k + 1]
           w == ProjectResult(v, r)
           takes == r.id = 0 /\ v.generated # <<>>
           id == IF takes THEN Head(v.generated) ELSE r.id
<1>1. /\ rs \in Seq(ResultBlock) /\ Len(rs) \in Nat /\ DOMAIN rs = 1..Len(rs)
      /\ k + 1 \in DOMAIN rs /\ r \in ResultBlock /\ r.id \in Nat /\ r.n \in Nat
      /\ \A i \in 1..k : i \in DOMAIN rs /\ i # k + 1
  <2>1. rs \in Seq(ResultBlock)
    BY DEF Fit
  <2>2. Len(rs) \in Nat /\ DOMAIN rs = 1..Len(rs) /\ k + 1 \in DOMAIN rs
    BY <2>1
  <2>3. r \in ResultBlock
    BY <2>1, <2>2
  <2> HIDE DEF r
  <2>4. r.id \in Nat /\ r.n \in Nat
    BY <2>3 DEF ResultBlock
  <2> QED BY <2>1, <2>2, <2>3, <2>4
<1>2. r.id \in I /\ r.id \in Ids(cs)
  BY <1>1 DEF Fit, Ids
<1>3. /\ v.out \in Seq(Block) /\ v.dropped \in [I -> Int] /\ v.generated \in Seq(Int)
      /\ v.available \in SUBSET Int /\ v.fresh \in Int /\ v.tick \in {0, 1}
  BY DEF States
<1>4. r.id # 0 => r.id \notin Had(rs, k)
  BY <1>1 DEF Fit, NonzeroApart, Had
<1>5. Had(rs, k + 1) = Had(rs, k) \cup {r.id}
  <2>1. 1..k + 1 = (1..k) \cup {k + 1}
    OBVIOUS
  <2> QED BY <2>1 DEF Had
<1>6. /\ w.tick = v.tick /\ w.available = v.available /\ w.fresh = v.fresh
      /\ v.dropped[r.id] > 0 =>
           /\ w.dropped = [v.dropped EXCEPT ![r.id] = @ - 1]
           /\ w.out = v.out /\ w.generated = v.generated
      /\ ~(v.dropped[r.id] > 0) =>
           /\ w.dropped = v.dropped
           /\ w.generated = IF takes THEN Tail(v.generated) ELSE v.generated
           /\ w.out = IF id \in v.available THEN Append(v.out, [id |-> id, n |-> r.n]) ELSE v.out
  <2> HIDE DEF r
  <2>1. r \in ResultBlock /\ r.id \in I
    BY <1>1, <1>2
  <2>2. ResultTaken(v, r, ProjectResult(v, r))
    BY <2>1, ResultStep
  <2> QED BY <2>2 DEF ResultTaken
<1> HIDE DEF w
<1>7. /\ Cardinality(Zeros(rs, k + 2, Len(rs))) \in Nat
      /\ Cardinality(Zeros(rs, k + 1, Len(rs))) =
           IF r.id = 0 THEN Cardinality(Zeros(rs, k + 2, Len(rs))) + 1
           ELSE Cardinality(Zeros(rs, k + 2, Len(rs)))
  BY <1>1, ZerosLeft
<1>8. k + 1 + 1 = k + 2
  OBVIOUS
<1>9. /\ v.dropped[0] \in Nat /\ Len(v.generated) \in Nat
      /\ v.dropped[0] + Len(v.generated) = Cardinality(Zeros(rs, k + 1, Len(rs)))
      /\ \A x \in I \ {0} :
           v.dropped[x] = IF x \in NamelessIds(cs, Len(cs)) \ Had(rs, k) THEN 1 ELSE 0
  BY <1>3 DEF Balanced
<1>10. 0 \notin NamelessIds(cs, Len(cs)) /\ 0 \notin NamedIds(cs, Len(cs))
  BY DEF NamelessIds, NamedIds
<1>11. CASE v.dropped[r.id] > 0
  <2>1. w.generated = v.generated /\ w.out = v.out /\ Made(w) = Made(v)
    BY <1>6, <1>11 DEF Made
  <2>2. CASE r.id = 0
    <3>1. w.dropped[0] = v.dropped[0] - 1 /\ v.dropped[0] > 0
      BY <1>2, <1>3, <1>6, <1>11, <2>2
    <3>2. /\ w.dropped[0] \in Nat
          /\ w.dropped[0] + Len(w.generated) = Cardinality(Zeros(rs, k + 2, Len(rs)))
      <4>1. w.dropped[0] \in Nat /\ v.dropped[0] = w.dropped[0] + 1
        BY <1>9, <3>1
      <4>2. Len(w.generated) = Len(v.generated)
        BY <2>1
      <4>3. v.dropped[0] + Len(v.generated) = Cardinality(Zeros(rs, k + 2, Len(rs))) + 1
        BY <1>7, <1>9, <2>2
      <4>4. \A a \in Nat, b \in Nat, z \in Nat : a + 1 + b = z + 1 => a + b = z
        OBVIOUS
      <4>5. w.dropped[0] + 1 + Len(v.generated) = Cardinality(Zeros(rs, k + 2, Len(rs))) + 1
        BY <4>1, <4>3
      <4>6. w.dropped[0] + Len(v.generated) = Cardinality(Zeros(rs, k + 2, Len(rs)))
        <5>1. Cardinality(Zeros(rs, k + 2, Len(rs))) \in Nat /\ Len(v.generated) \in Nat
          BY <1>7, <1>9
        <5> HIDE DEF r, takes, id
        <5> QED BY <4>1, <4>4, <4>5, <5>1
      <4> QED BY <4>1, <4>2, <4>6
    <3>3. \A x \in I \ {0} : w.dropped[x] = v.dropped[x]
      BY <1>2, <1>3, <1>6, <1>11, <2>2
    <3>4. Balanced(I, cs, rs, k + 1, w)
      BY <1>5, <1>8, <1>9, <2>2, <3>2, <3>3 DEF Balanced
    <3>5. NamedIds(cs, Len(cs)) \cap Had(rs, k + 1) = NamedIds(cs, Len(cs)) \cap Had(rs, k)
      BY <1>5, <1>10, <2>2
    <3> QED BY <1>6, <2>1, <3>4, <3>5 DEF Replied, w
  <2>3. CASE r.id # 0
    <3>1. r.id \in NamelessIds(cs, Len(cs)) /\ v.dropped[r.id] = 1
      BY <1>2, <1>9, <1>11, <2>3
    <3>2. /\ w.dropped[r.id] = 0 /\ w.dropped[0] = v.dropped[0]
          /\ \A x \in I \ {0} : x # r.id => w.dropped[x] = v.dropped[x]
      BY <1>2, <1>3, <1>6, <1>11, <2>3, <3>1
    <3>3. Balanced(I, cs, rs, k + 1, w)
      BY <1>5, <1>7, <1>8, <1>9, <2>1, <2>3, <3>2 DEF Balanced
    <3>4. r.id \notin NamedIds(cs, Len(cs))
      <4>1. cs \in Seq(CallBlock) /\ DOMAIN cs = 1..Len(cs) /\ NonzeroApart(cs)
        BY DEF Fit
      <4>2. PICK i \in DOMAIN cs : ~cs[i].named /\ cs[i].id # 0 /\ cs[i].id = r.id
        BY <3>1, <4>1 DEF NamelessIds
      <4>3. \A j \in DOMAIN cs : cs[j].id = r.id => j = i
        BY <4>1, <4>2 DEF NonzeroApart
      <4> QED BY <4>1, <4>2, <4>3 DEF NamedIds
    <3>5. NamedIds(cs, Len(cs)) \cap Had(rs, k + 1) = NamedIds(cs, Len(cs)) \cap Had(rs, k)
      BY <1>5, <3>4
    <3> QED BY <1>6, <2>1, <3>3, <3>5 DEF Replied, w
  <2> QED BY <2>2, <2>3
<1>12. CASE ~(v.dropped[r.id] > 0) /\ r.id = 0
  <2>1. v.dropped[0] = 0 /\ Len(v.generated) > 0
    BY <1>7, <1>9, <1>12
  <2>2. v.generated # <<>> /\ takes /\ id = Head(v.generated)
    <3>1. v.generated # <<>>
      BY <1>3, <2>1
    <3> QED BY <1>12, <3>1
  <2>3. w.generated = Tail(v.generated) /\ w.dropped = v.dropped
    BY <1>6, <1>12, <2>2
  <2>4. /\ id \in Made(v) /\ Made(w) = Made(v) \ {id}
        /\ Len(v.generated) = Len(w.generated) + 1 /\ Len(w.generated) \in Nat
        /\ \A i, j \in DOMAIN w.generated : w.generated[i] = w.generated[j] => i = j
    <3>1. \A i, j \in DOMAIN v.generated : v.generated[i] = v.generated[j] => i = j
      BY DEF Replied
    <3> QED BY <1>3, <2>2, <2>3, <3>1, TailMade
  <2>5. id \in v.available /\ id < 0 /\ id \in Int
    <3>1. id \in Made(was) /\ v.available = was.available
      BY <2>4 DEF Replied
    <3> QED BY <1>3, <3>1 DEF Open
  <2>6. id \notin Ids(v.out)
    <3>1. id \notin NamedIds(cs, Len(cs))
      <4>1. \A c \in CallBlock : c.id \in Nat
        BY DEF CallBlock
      <4>2. \A i \in 1..Len(cs) : cs[i].id \in Nat
        BY <4>1 DEF Fit
      <4>3. ~(id \in Nat)
        BY <2>5
      <4> QED BY <4>2, <4>3 DEF NamedIds
    <3> QED BY <2>4, <3>1 DEF Replied
  <2> DEFINE b == [id |-> id, n |-> r.n]
  <2>7. b \in Block /\ b.id = id /\ w.out = Append(v.out, b)
    BY <1>1, <1>6, <1>12, <2>5 DEF Block
  <2> HIDE DEF b, id
  <2>8. Ids(w.out) = Ids(v.out) \cup {id} /\ IdsApart(w.out)
    BY <1>3, <2>6, <2>7, AppendIds DEF Replied
  <2>9. Balanced(I, cs, rs, k + 1, w)
    <3>1. w.dropped[0] \in Nat
      BY <1>9, <2>3
    <3>2. w.dropped[0] + Len(w.generated) = Cardinality(Zeros(rs, k + 2, Len(rs)))
      <4>1. v.dropped[0] + Len(v.generated) = Cardinality(Zeros(rs, k + 2, Len(rs))) + 1
        BY <1>7, <1>9, <1>12
      <4>2. w.dropped[0] = v.dropped[0] /\ Len(v.generated) = Len(w.generated) + 1
        BY <2>3, <2>4
      <4>3. \A x, y, z \in Nat : x + (y + 1) = z + 1 => x + y = z
        OBVIOUS
      <4>4. /\ v.dropped[0] \in Nat /\ Len(w.generated) \in Nat
            /\ Cardinality(Zeros(rs, k + 2, Len(rs))) \in Nat
        BY <1>7, <1>9, <2>4
      <4> HIDE DEF r, takes, id
      <4> QED BY <4>1, <4>2, <4>3, <4>4
    <3>3. \A x \in I \ {0} :
            w.dropped[x] = IF x \in NamelessIds(cs, Len(cs)) \ Had(rs, k + 1) THEN 1 ELSE 0
      BY <1>5, <1>9, <1>12, <2>3
    <3> QED BY <1>8, <3>1, <3>2, <3>3 DEF Balanced
  <2>10. NamedIds(cs, Len(cs)) \cap Had(rs, k + 1) = NamedIds(cs, Len(cs)) \cap Had(rs, k)
    BY <1>5, <1>10, <1>12
  <2>11. Made(was) \ Made(w) = (Made(was) \ Made(v)) \cup {id}
    BY <2>4 DEF Replied
  <2>12. Replied(cs, rs, was, k + 1, w)
    BY <1>6, <2>4, <2>8, <2>10, <2>11 DEF Replied
  <2> QED BY <2>9, <2>12 DEF w
<1>13. CASE ~(v.dropped[r.id] > 0) /\ r.id # 0
  <2>1. r.id \notin NamelessIds(cs, Len(cs))
    BY <1>2, <1>4, <1>9, <1>13
  <2>2. r.id \in NamedIds(cs, Len(cs))
    <3>1. cs \in Seq(CallBlock) /\ DOMAIN cs = 1..Len(cs)
      BY DEF Fit
    <3>2. PICK i \in DOMAIN cs : cs[i].id = r.id
      BY <1>2 DEF Ids
    <3>3. cs[i].named
      BY <1>13, <2>1, <3>1, <3>2 DEF NamelessIds
    <3> QED BY <1>13, <3>1, <3>2, <3>3 DEF NamedIds
  <2>3. id = r.id /\ w.generated = v.generated /\ w.dropped = v.dropped /\ Made(w) = Made(v)
    BY <1>6, <1>13 DEF Made
  <2>4. r.id \in v.available
    BY <2>2 DEF Replied, Open
  <2> DEFINE b == [id |-> r.id, n |-> r.n]
  <2>5. b \in Block /\ b.id = r.id /\ w.out = Append(v.out, b)
    BY <1>1, <1>6, <1>13, <2>3, <2>4 DEF Block
  <2>6. r.id \notin Ids(v.out)
    <3>1. r.id \notin Made(was)
      BY <1>1 DEF Open
    <3> QED BY <1>4, <1>13, <3>1 DEF Replied
  <2> HIDE DEF b
  <2>7. Ids(w.out) = Ids(v.out) \cup {r.id} /\ IdsApart(w.out)
    BY <1>3, <2>5, <2>6, AppendIds DEF Replied
  <2>8. Balanced(I, cs, rs, k + 1, w)
    BY <1>5, <1>7, <1>8, <1>9, <1>13, <2>1, <2>3 DEF Balanced
  <2>9. Replied(cs, rs, was, k + 1, w)
    BY <1>5, <1>6, <2>2, <2>3, <2>7 DEF Replied
  <2> QED BY <2>8, <2>9 DEF w
<1> QED BY <1>11, <1>12, <1>13

LEMMA ReleasedOpen ==
  ASSUME NEW I, NEW before, NEW cs, NEW v, NEW uses,
         Counted(I, cs, Len(cs), v), Listed(before, cs, Len(cs), v, uses)
  PROVE  Open(I, cs, v)
BY DEF Open, Listed

(* All results of a round.                                                 *)
LEMMA ResultsProjected ==
  ASSUME NEW I, NEW Out, NEW was \in States(I, Out), NEW cs, NEW rs, Fit(cs, rs), 0 \in I,
         Ids(cs) \subseteq I, Open(I, cs, was)
  PROVE  LET w == ResultBlocks(was, rs)
         IN /\ w \in States(I, Block) /\ Clean(I, w) /\ IdsApart(w.out)
            /\ Ids(w.out) = NamedIds(cs, Len(cs)) \cup Made(was)
            /\ w.available = was.available /\ w.fresh = was.fresh /\ w.tick = was.tick
<1> DEFINE n == Len(rs)
           Holds(k, v) == Balanced(I, cs, rs, k, v) /\ Replied(cs, rs, was, k, v)
<1>1. /\ rs \in Seq(ResultBlock) /\ Ids(rs) \subseteq I /\ n \in Nat /\ DOMAIN rs = 1..n
      /\ cs \in Seq(CallBlock) /\ DOMAIN cs = 1..n /\ Len(cs) = n
  BY DEF Fit
<1>2. PICK it \in [0..n -> States(I, Block)] :
        /\ it[0] = [was EXCEPT !.out = <<>>] /\ it[n] = ResultBlocks(was, rs)
        /\ \A k \in 1..n : it[k] = ProjectResult(it[k - 1], rs[k])
  BY <1>1, ResultsTrace
<1> DEFINE S == {k \in Nat : k <= n => Holds(k, it[k])}
<1>3. 0 \in S
  <2>1. it[0].out = <<>> /\ Same(it[0], was)
    <3>1. /\ [was EXCEPT !.out = <<>>].out = <<>>
          /\ Same([was EXCEPT !.out = <<>>], was)
      BY DEF States, Same
    <3> QED BY <1>2, <3>1
  <2>2. Had(rs, 0) = {}
    BY DEF Had
  <2>3. Balanced(I, cs, rs, 0, it[0])
    <3>1. Zeros(rs, 0 + 1, Len(rs)) = Zeros(cs, 1, Len(cs))
      BY <1>1 DEF Fit, Zeros
    <3> QED BY <2>1, <2>2, <3>1 DEF Balanced, Open, Counted, Same
  <2>4. Replied(cs, rs, was, 0, it[0])
    <3>1. DOMAIN <<>> = {}
      OBVIOUS
    <3>2. Ids(it[0].out) = {} /\ IdsApart(it[0].out) /\ Made(it[0]) = Made(was)
      BY <2>1, <3>1 DEF Ids, Made, IdsApart, Same
    <3> QED BY <2>1, <2>2, <3>2 DEF Replied, Open, Same
  <2> QED BY <2>3, <2>4
<1>4. ASSUME NEW k \in Nat, k \in S PROVE k + 1 \in S
  <2> SUFFICES ASSUME k + 1 <= n PROVE Holds(k + 1, it[k + 1])
    OBVIOUS
  <2>1. k <= n /\ k \in 0..n /\ k + 1 \in 1..n /\ (k + 1) - 1 = k
    BY <1>1
  <2>2. it[k] \in States(I, Block) /\ it[k + 1] = ProjectResult(it[k], rs[k + 1])
    BY <1>2, <2>1
  <2>3. Holds(k, it[k])
    BY <1>4, <2>1
  <2> QED BY <2>2, <2>3, RepliedStep
<1> HIDE DEF S, Holds
<1>5. n \in S
  BY <1>1, <1>3, <1>4, NatSetInduction
<1> DEFINE w == ResultBlocks(was, rs)
<1>6. Holds(n, w) /\ w \in States(I, Block)
  <2>1. Holds(n, it[n])
    BY <1>1, <1>5 DEF S
  <2>2. n \in 0..n
    BY <1>1
  <2> QED BY <1>2, <2>1, <2>2
<1> HIDE DEF w
<1>7. Balanced(I, cs, rs, n, w) /\ Replied(cs, rs, was, n, w)
  BY <1>6 DEF Holds
<1>8. Had(rs, n) = Ids(cs)
  BY <1>1 DEF Had, Fit, Ids
<1>9. NamedIds(cs, Len(cs)) \subseteq Ids(cs) /\ NamelessIds(cs, Len(cs)) \subseteq Ids(cs)
  BY <1>1 DEF NamedIds, NamelessIds, Ids
<1>10. Clean(I, w)
  <2>1. Zeros(rs, n + 1, Len(rs)) = {}
    BY <1>1 DEF Zeros
  <2>2. Cardinality(Zeros(rs, n + 1, Len(rs))) = 0
    BY <2>1, FS_EmptySet
  <2>3. w.generated \in Seq(Int)
    BY <1>6 DEF States
  <2>4. w.dropped[0] \in Nat /\ w.dropped[0] + Len(w.generated) = 0
    BY <1>7, <2>2 DEF Balanced
  <2>5. w.dropped[0] = 0 /\ Len(w.generated) = 0
    BY <2>3, <2>4
  <2>6. w.generated = <<>>
    BY <2>3, <2>5
  <2>7. \A x \in I \ {0} : w.dropped[x] = 0
    BY <1>7, <1>8, <1>9 DEF Balanced
  <2> QED BY <2>5, <2>6, <2>7 DEF Clean
<1>11. Made(w) = {}
  <2>1. DOMAIN <<>> = {}
    OBVIOUS
  <2> QED BY <1>10, <2>1 DEF Made, Clean
<1>12. Ids(w.out) = NamedIds(cs, Len(cs)) \cup Made(was)
  BY <1>7, <1>8, <1>9, <1>11 DEF Replied
<1> QED BY <1>6, <1>7, <1>10, <1>12 DEF Replied, w

(* A message without calls, or without results, leaves the state alone.    *)
LEMMA NoCalls ==
  ASSUME NEW I, NEW Out, NEW st \in States(I, Out), NEW cs \in Seq(CallBlock)
  PROVE  Len(cs) = 0 => CallBlocks(st, cs) = [st EXCEPT !.out = <<>>]
<1>1. ASSUME Len(cs) = 0 PROVE Ids(cs) \subseteq I
  BY <1>1 DEF Ids
<1>2. ASSUME Ids(cs) \subseteq I
      PROVE  \E it \in [0..Len(cs) -> States(I, Block)] :
        /\ it[0] = [st EXCEPT !.out = <<>>] /\ it[Len(cs)] = CallBlocks(st, cs)
        /\ \A k \in 1..Len(cs) : it[k] = ProjectCall(it[k - 1], cs[k])
  BY <1>2, CallsTrace
<1> QED BY <1>1, <1>2

LEMMA NoResults ==
  ASSUME NEW I, NEW Out, NEW st \in States(I, Out), NEW rs \in Seq(ResultBlock)
  PROVE  Len(rs) = 0 => ResultBlocks(st, rs) = [st EXCEPT !.out = <<>>]
<1>1. ASSUME Len(rs) = 0 PROVE Ids(rs) \subseteq I
  BY <1>1 DEF Ids
<1>2. ASSUME Ids(rs) \subseteq I
      PROVE  \E it \in [0..Len(rs) -> States(I, Block)] :
        /\ it[0] = [st EXCEPT !.out = <<>>] /\ it[Len(rs)] = ResultBlocks(st, rs)
        /\ \A k \in 1..Len(rs) : it[k] = ProjectResult(it[k - 1], rs[k])
  BY <1>2, ResultsTrace
<1> QED BY <1>1, <1>2

(* Results in front of every call are orphans.                             *)
LEMMA OrphansProjected ==
  ASSUME NEW I, NEW Out, NEW was \in States(I, Out), NEW rs \in Seq(ResultBlock),
         Ids(rs) \subseteq I, Clean(I, was), was.available = {}
  PROVE  LET w == ResultBlocks(was, rs)
         IN w \in States(I, Block) /\ w.out = <<>> /\ Same(w, was)
<1> DEFINE n == Len(rs)
           Holds(v) == v.out = <<>> /\ Same(v, was)
<1>1. n \in Nat /\ DOMAIN rs = 1..n /\ \A k \in 1..n : rs[k] \in ResultBlock /\ rs[k].id \in I
  BY DEF Ids
<1>2. PICK it \in [0..n -> States(I, Block)] :
        /\ it[0] = [was EXCEPT !.out = <<>>] /\ it[n] = ResultBlocks(was, rs)
        /\ \A k \in 1..n : it[k] = ProjectResult(it[k - 1], rs[k])
  BY ResultsTrace
<1> DEFINE S == {k \in Nat : k <= n => Holds(it[k])}
<1>3. 0 \in S
  <2>1. /\ [was EXCEPT !.out = <<>>].out = <<>>
        /\ Same([was EXCEPT !.out = <<>>], was)
    BY DEF States, Same
  <2> QED BY <1>2, <2>1
<1>4. ASSUME NEW k \in Nat, k \in S PROVE k + 1 \in S
  <2> SUFFICES ASSUME k + 1 <= n PROVE Holds(it[k + 1])
    OBVIOUS
  <2>1. k <= n /\ k \in 0..n /\ k + 1 \in 1..n /\ (k + 1) - 1 = k
    BY <1>1
  <2>2. it[k] \in States(I, Block) /\ it[k + 1] = ProjectResult(it[k], rs[k + 1])
    BY <1>2, <2>1
  <2>3. Holds(it[k])
    BY <1>4, <2>1
  <2>4. rs[k + 1] \in ResultBlock /\ rs[k + 1].id \in I
    BY <1>1, <2>1
  <2>5. ASSUME NEW v \in States(I, Block), NEW r \in ResultBlock, r.id \in I,
               v.dropped[r.id] = 0, v.generated = <<>>, v.available = {}
        PROVE  LET new == ProjectResult(v, r) IN Same(new, v) /\ new.out = v.out
    <3>1. \A x : x \notin v.available
      BY <2>5
    <3>2. ~(v.dropped[r.id] > 0) /\ ~(r.id = 0 /\ v.generated # <<>>)
      BY <2>5
    <3> QED BY <3>1, <3>2, <2>5 DEF ProjectResult, Same, States
  <2>6. it[k].generated = <<>> /\ it[k].dropped[rs[k + 1].id] = 0 /\ it[k].available = {}
    BY <2>3, <2>4 DEF Same, Clean
  <2>7. Same(it[k + 1], it[k]) /\ it[k + 1].out = it[k].out
    BY <2>2, <2>4, <2>5, <2>6
  <2> QED BY <2>3, <2>7 DEF Same
<1> HIDE DEF S, Holds
<1>5. n \in S
  BY <1>1, <1>3, <1>4, NatSetInduction
<1>6. Holds(it[n]) /\ n \in 0..n
  BY <1>1, <1>5 DEF S
<1> QED BY <1>2, <1>6 DEF Holds

(* Blocks with the same ids, each of them once, are as many.               *)
LEMMA ApartCount ==
  ASSUME NEW s \in Seq(Block), IdsApart(s)
  PROVE  Cardinality(Ids(s)) = Len(s)
<1> DEFINE f == [k \in 1..Len(s) |-> s[k].id]
<1>1. Len(s) \in Nat /\ DOMAIN s = 1..Len(s)
  OBVIOUS
<1>2. f \in [1..Len(s) -> Ids(s)]
  BY <1>1 DEF Ids
<1>3. \A k, l \in 1..Len(s) : f[k] = f[l] => k = l
  BY <1>1 DEF IdsApart
<1>4. \A e \in Ids(s) : \E k \in 1..Len(s) : f[k] = e
  BY <1>1 DEF Ids
<1> HIDE DEF f
<1>5. f \in Bijection(1..Len(s), Ids(s))
  BY <1>2, <1>3, <1>4 DEF Bijection, Injection, Surjection, IsInjective
<1>6. ExistsBijection(1..Len(s), Ids(s))
  BY <1>5 DEF ExistsBijection
<1> QED BY <1>1, <1>6, FS_CountingElements

-----------------------------------------------------------------------------
(***************************************************************************)
(* The request.  While it grows, its roles alternate, the results of every *)
(* message but the first answer the uses of the one before it, and no use  *)
(* has an id twice; what is added is a message that answers nothing, with  *)
(* new uses, when no use is left open, or the answers to those left open.  *)
(***************************************************************************)
LastUses(out) == IF out = <<>> THEN <<>> ELSE out[Len(out)].uses
UseIds(out) == UNION {Ids(out[i].uses) : i \in DOMAIN out}
RoleAt(i) == IF i % 2 = 1 THEN "user" ELSE "assistant"

Chained(out) ==
  /\ \A i \in DOMAIN out : out[i].role = RoleAt(i)
  /\ \A i \in DOMAIN out : i + 1 \in DOMAIN out =>
       Ids(out[i + 1].results) = Ids(out[i].uses) /\ Len(out[i + 1].results) = Len(out[i].uses)
  /\ out # <<>> => out[1].results = <<>>
  /\ UsesUnique(out)

LEMMA RoleFlips ==
  ASSUME NEW n \in Nat
  PROVE  RoleAt(n + 1) # RoleAt(n) /\ RoleAt(1) = "user"
<1>1. n % 2 = 0 \/ n % 2 = 1
  OBVIOUS
<1>2. (n + 1) % 2 = 1 - (n % 2) /\ 1 % 2 = 1
  OBVIOUS
<1> QED BY <1>1, <1>2 DEF RoleAt

LEMMA JoinedEmpty ==
  ASSUME NEW S, NEW s \in Seq(S)
  PROVE  s \o <<>> = s /\ <<>> \o s = s
OBVIOUS

LEMMA Positions ==
  ASSUME NEW n \in Nat
  PROVE  /\ \A i \in 1..n : i = n \/ i \in 1..n - 1
         /\ \A i \in 1..n + 1 : i = n + 1 \/ i \in 1..n
         /\ \A i \in 1..n : i + 1 # i /\ (i + 1 \in 1..n => i # n) /\ (i + 1 = n + 1 => i = n)
         /\ \A i \in 1..n + 1 : i + 1 \in 1..n + 1 => i \in 1..n
         /\ n + 1 \in 1..n + 1 /\ n + 1 # n /\ n + 1 # 0 /\ n + 1 \notin 1..n
OBVIOUS

LEMMA UniqueAt ==
  ASSUME NEW out, UsesUnique(out), NEW i \in DOMAIN out, NEW j \in DOMAIN out,
         NEW k \in DOMAIN out[i].uses, NEW l \in DOMAIN out[j].uses,
         out[i].uses[k].id = out[j].uses[l].id
  PROVE  i = j /\ k = l
BY DEF UsesUnique

LEMMA UseOf ==
  ASSUME NEW out
  PROVE  \A a \in DOMAIN out : \A b \in DOMAIN out[a].uses : out[a].uses[b].id \in UseIds(out)
<1> TAKE a \in DOMAIN out
<1> TAKE b \in DOMAIN out[a].uses
<1>1. out[a].uses[b].id \in Ids(out[a].uses)
  BY DEF Ids
<1> QED BY <1>1 DEF UseIds

LEMMA MergeQuiet ==
  ASSUME NEW out \in Seq(WireMessage), Chained(out), LastUses(out) = <<>>,
         NEW msg \in WireMessage, msg.results = <<>>, IdsApart(msg.uses),
         UseIds(out) \cap Ids(msg.uses) = {}, out = <<>> => msg.role = "user"
  PROVE  LET new == MergeSameRole(out, msg)
         IN /\ new \in Seq(WireMessage) /\ new # <<>> /\ Chained(new)
            /\ LastUses(new) = msg.uses /\ new[Len(new)].role = msg.role
            /\ UseIds(new) = UseIds(out) \cup Ids(msg.uses)
<1> DEFINE new == MergeSameRole(out, msg)
           n == Len(out)
<1>1. /\ n \in Nat /\ DOMAIN out = 1..n /\ msg.uses \in Seq(Block) /\ msg.role \in {"user", "assistant"}
      /\ \A i \in 1..n : out[i] \in WireMessage /\ out[i].results \in Seq(Block) /\ out[i].uses \in Seq(Block)
      /\ out = <<>> <=> n = 0
  <2>1. n \in Nat /\ DOMAIN out = 1..n /\ \A i \in 1..n : out[i] \in WireMessage
    OBVIOUS
  <2>2. \A m \in WireMessage : m.results \in Seq(Block) /\ m.uses \in Seq(Block)
                              /\ m.role \in {"user", "assistant"}
    BY DEF WireMessage
  <2>3. out = <<>> <=> n = 0
    OBVIOUS
  <2> QED BY <2>1, <2>2, <2>3
<1>2. CASE out # <<>> /\ out[n].role = msg.role
  <2>1. n \in 1..n
    BY <1>1, <1>2
  <2>2. /\ new \in Seq(WireMessage) /\ Len(new) = n /\ \A i \in 1..n - 1 : new[i] = out[i]
        /\ new[n].role = msg.role /\ new[n].uses = out[n].uses \o msg.uses
        /\ new[n].results = out[n].results \o msg.results
    BY <1>2, MergeType
  <2> HIDE DEF new
  <2>3. new[n].uses = msg.uses /\ new[n].results = out[n].results /\ out[n].uses = <<>>
    <3>1. out[n].uses = <<>>
      BY <1>2 DEF LastUses
    <3> QED BY <1>1, <2>1, <2>2, <3>1, JoinedEmpty
  <2>4. DOMAIN new = 1..n /\ new # <<>> /\ \A i \in 1..n : i = n \/ new[i] = out[i]
    <3>1. \A i \in 1..n : i = n \/ i \in 1..n - 1
      BY <1>1, Positions
    <3>2. DOMAIN new = 1..n
      BY <2>2
    <3>3. new # <<>>
      BY <2>1, <3>2
    <3> QED BY <2>2, <3>1, <3>2, <3>3
  <2>5. \A i \in 1..n : new[i].role = out[i].role /\ new[i].results = out[i].results
    BY <1>2, <2>2, <2>3, <2>4
  <2>6. \A i \in 1..n : i + 1 \in 1..n => i # n /\ i + 1 # i
    BY <1>1, Positions
  <2>7. UsesUnique(new)
    <3> SUFFICES ASSUME NEW i \in 1..n, NEW j \in 1..n, NEW k \in DOMAIN new[i].uses,
                        NEW l \in DOMAIN new[j].uses, new[i].uses[k].id = new[j].uses[l].id
                 PROVE  i = j /\ k = l
      BY <2>4 DEF UsesUnique
    <3>1. CASE i = n /\ j = n
      BY <2>3, <3>1 DEF IdsApart
    <3>2. CASE i # n /\ j # n
      <4>1. new[i] = out[i] /\ new[j] = out[j]
        BY <2>4, <3>2
      <4>2. k \in DOMAIN out[i].uses /\ l \in DOMAIN out[j].uses
            /\ out[i].uses[k].id = out[j].uses[l].id
        BY <4>1
      <4>3. UsesUnique(out) /\ i \in DOMAIN out /\ j \in DOMAIN out
        BY <1>1, <3>2 DEF Chained
      <4> HIDE DEF n
      <4> QED BY <4>2, <4>3, UniqueAt
    <3>3. \A a \in 1..n : \A b \in DOMAIN out[a].uses : out[a].uses[b].id \in UseIds(out)
      BY <1>1, UseOf
    <3>4. CASE i = n /\ j # n
      <4>1. new[i].uses[k].id \in Ids(msg.uses)
        BY <2>3, <3>4 DEF Ids
      <4>2. new[j].uses[l].id \in UseIds(out)
        BY <2>4, <3>3, <3>4
      <4> QED BY <4>1, <4>2
    <3>5. CASE i # n /\ j = n
      <4>1. new[j].uses[l].id \in Ids(msg.uses)
        BY <2>3, <3>5 DEF Ids
      <4>2. new[i].uses[k].id \in UseIds(out)
        BY <2>4, <3>3, <3>5
      <4> QED BY <4>1, <4>2
    <3> QED BY <3>1, <3>2, <3>4, <3>5
  <2>8. Chained(new)
    <3>1. \A i \in 1..n : i + 1 \in 1..n =>
            Ids(new[i + 1].results) = Ids(new[i].uses) /\ Len(new[i + 1].results) = Len(new[i].uses)
      BY <1>1, <2>4, <2>5, <2>6 DEF Chained
    <3>2. 1 \in 1..n
      BY <1>1, <2>1
    <3> QED BY <1>1, <1>2, <2>4, <2>5, <2>7, <3>1, <3>2 DEF Chained
  <2>9. UseIds(new) = UseIds(out) \cup Ids(msg.uses)
    <3>1. Ids(out[n].uses) = {}
      <4>1. DOMAIN <<>> = {}
        OBVIOUS
      <4> QED BY <2>3, <4>1 DEF Ids
    <3>2. UseIds(new) = UNION {Ids(new[i].uses) : i \in 1..n}
      BY <2>4 DEF UseIds
    <3>3. UseIds(out) = UNION {Ids(out[i].uses) : i \in 1..n}
      BY <1>1 DEF UseIds
    <3> QED BY <2>1, <2>3, <2>4, <3>1, <3>2, <3>3
  <2> QED BY <1>2, <2>2, <2>3, <2>4, <2>8, <2>9 DEF new, LastUses
<1>3. CASE ~(out # <<>> /\ out[n].role = msg.role)
  <2>1. new = Append(out, msg)
    BY <1>3, MergeType
  <2> HIDE DEF new
  <2>2. /\ new \in Seq(WireMessage) /\ Len(new) = n + 1 /\ DOMAIN new = 1..n + 1 /\ new[n + 1] = msg
        /\ \A i \in 1..n : new[i] = out[i]
    BY <1>1, <2>1
  <2>3. new # <<>> /\ n + 1 \in 1..n + 1 /\ n + 1 # n /\ \A i \in 1..n + 1 : i \in 1..n \/ i = n + 1
    <3>1. new # <<>>
      BY <2>2
    <3> QED BY <1>1, <3>1, Positions
  <2>4. msg.role = RoleAt(n + 1)
    <3>1. CASE n = 0
      BY <1>1, <3>1, RoleFlips
    <3>2. CASE n # 0
      <4>1. n \in 1..n
        BY <1>1, <3>2
      <4>2. out[n].role = RoleAt(n) /\ msg.role # RoleAt(n)
        BY <1>1, <1>3, <3>2, <4>1 DEF Chained
      <4>3. RoleAt(n) \in {"user", "assistant"} /\ RoleAt(n + 1) \in {"user", "assistant"}
        BY DEF RoleAt
      <4> QED BY <1>1, <4>2, <4>3, RoleFlips
    <3> QED BY <3>1, <3>2
  <2>5. UsesUnique(new)
    <3> SUFFICES ASSUME NEW i \in 1..n + 1, NEW j \in 1..n + 1, NEW k \in DOMAIN new[i].uses,
                        NEW l \in DOMAIN new[j].uses, new[i].uses[k].id = new[j].uses[l].id
                 PROVE  i = j /\ k = l
      BY <2>2 DEF UsesUnique
    <3>1. CASE i = n + 1 /\ j = n + 1
      BY <2>2, <3>1 DEF IdsApart
    <3>2. CASE i \in 1..n /\ j \in 1..n
      <4>1. new[i] = out[i] /\ new[j] = out[j]
        BY <2>2, <3>2
      <4>2. k \in DOMAIN out[i].uses /\ l \in DOMAIN out[j].uses
            /\ out[i].uses[k].id = out[j].uses[l].id
        BY <4>1
      <4>3. UsesUnique(out) /\ i \in DOMAIN out /\ j \in DOMAIN out
        BY <1>1, <3>2 DEF Chained
      <4> HIDE DEF n
      <4> QED BY <4>2, <4>3, UniqueAt
    <3>3. \A a \in 1..n : \A b \in DOMAIN out[a].uses : out[a].uses[b].id \in UseIds(out)
      BY <1>1, UseOf
    <3>4. CASE i = n + 1 /\ j \in 1..n
      <4>1. new[i].uses[k].id \in Ids(msg.uses)
        BY <2>2, <3>4 DEF Ids
      <4>2. new[j].uses[l].id \in UseIds(out)
        BY <2>2, <3>3, <3>4
      <4> QED BY <4>1, <4>2
    <3>5. CASE i \in 1..n /\ j = n + 1
      <4>1. new[j].uses[l].id \in Ids(msg.uses)
        BY <2>2, <3>5 DEF Ids
      <4>2. new[i].uses[k].id \in UseIds(out)
        BY <2>2, <3>3, <3>5
      <4> QED BY <4>1, <4>2
    <3> QED BY <2>3, <3>1, <3>2, <3>4, <3>5
  <2>6. \A i \in 1..n + 1 : i + 1 \in 1..n + 1 =>
          Ids(new[i + 1].results) = Ids(new[i].uses) /\ Len(new[i + 1].results) = Len(new[i].uses)
    <3> SUFFICES ASSUME NEW i \in 1..n + 1, i + 1 \in 1..n + 1
                 PROVE  Ids(new[i + 1].results) = Ids(new[i].uses)
                        /\ Len(new[i + 1].results) = Len(new[i].uses)
      OBVIOUS
    <3>1. i \in 1..n
      BY <1>1
    <3>2. CASE i + 1 \in 1..n
      BY <1>1, <2>2, <3>1, <3>2 DEF Chained
    <3>3. CASE i + 1 = n + 1
      <4>1. i = n /\ n # 0
        <5>1. i = n
          BY <1>1, <3>1, <3>3, Positions
        <5>2. 0 \notin 1..n
          OBVIOUS
        <5> QED BY <3>1, <5>1, <5>2
      <4>2. new[i].uses = <<>> /\ new[i + 1].results = <<>>
        BY <1>1, <2>2, <3>1, <3>3, <4>1 DEF LastUses
      <4> QED BY <4>2
    <3> QED BY <2>3, <3>2, <3>3
  <2>7. Chained(new)
    <3>1. \A i \in 1..n + 1 : new[i].role = RoleAt(i)
      BY <1>1, <2>2, <2>3, <2>4 DEF Chained
    <3>2. new[1].results = <<>>
      <4>1. CASE n = 0
        BY <2>2, <4>1
      <4>2. CASE n # 0
        <5>1. 1 \in 1..n
          BY <1>1, <4>2
        <5> QED BY <1>1, <2>2, <4>2, <5>1 DEF Chained
      <4> QED BY <4>1, <4>2
    <3> QED BY <2>2, <2>5, <2>6, <3>1, <3>2 DEF Chained
  <2>8. UseIds(new) = UseIds(out) \cup Ids(msg.uses)
    <3>2. UseIds(new) = UNION {Ids(new[i].uses) : i \in 1..n + 1}
      BY <2>2 DEF UseIds
    <3>3. UseIds(out) = UNION {Ids(out[i].uses) : i \in 1..n}
      BY <1>1 DEF UseIds
    <3>4. 1..n + 1 = (1..n) \cup {n + 1}
      BY <1>1
    <3> QED BY <2>2, <3>2, <3>3, <3>4
  <2> QED BY <2>2, <2>3, <2>7, <2>8 DEF new, LastUses
<1> QED BY <1>2, <1>3

LEMMA MergeAnswers ==
  ASSUME NEW out \in Seq(WireMessage), Chained(out), out # <<>>, out[Len(out)].role = "assistant",
         NEW msg \in WireMessage, msg.role = "user", msg.uses = <<>>,
         Ids(msg.results) = Ids(LastUses(out)), Len(msg.results) = Len(LastUses(out))
  PROVE  LET new == MergeSameRole(out, msg)
         IN /\ new \in Seq(WireMessage) /\ new # <<>> /\ Chained(new)
            /\ LastUses(new) = <<>> /\ new[Len(new)].role = "user"
            /\ UseIds(new) = UseIds(out)
<1> DEFINE new == MergeSameRole(out, msg)
           n == Len(out)
<1>1. /\ n \in Nat /\ DOMAIN out = 1..n /\ n \in 1..n /\ 1 \in 1..n
  OBVIOUS
<1>2. new = Append(out, msg)
  BY MergeType
<1> HIDE DEF new
<1>3. /\ new \in Seq(WireMessage) /\ Len(new) = n + 1 /\ DOMAIN new = 1..n + 1 /\ new[n + 1] = msg
      /\ \A i \in 1..n : new[i] = out[i]
  BY <1>1, <1>2
<1>4. new # <<>> /\ \A i \in 1..n + 1 : i \in 1..n \/ i = n + 1
  BY <1>1, <1>3
<1>5. msg.role = RoleAt(n + 1)
  <2>1. RoleAt(n) = "assistant" /\ RoleAt(n + 1) \in {"user", "assistant"}
    BY <1>1 DEF Chained, RoleAt
  <2> QED BY <1>1, <2>1, RoleFlips
<1>6. DOMAIN msg.uses = {}
  OBVIOUS
<1>7. UsesUnique(new)
  <2> SUFFICES ASSUME NEW i \in 1..n + 1, NEW j \in 1..n + 1, NEW k \in DOMAIN new[i].uses,
                      NEW l \in DOMAIN new[j].uses, new[i].uses[k].id = new[j].uses[l].id
               PROVE  i = j /\ k = l
    BY <1>3 DEF UsesUnique
  <2>1. i \in 1..n /\ j \in 1..n
    BY <1>3, <1>4, <1>6
  <2>2. new[i] = out[i] /\ new[j] = out[j]
    BY <1>3, <2>1
  <2>3. k \in DOMAIN out[i].uses /\ l \in DOMAIN out[j].uses /\ out[i].uses[k].id = out[j].uses[l].id
    BY <2>2
  <2>4. UsesUnique(out) /\ i \in DOMAIN out /\ j \in DOMAIN out
    BY <1>1, <2>1 DEF Chained
  <2> HIDE DEF n
  <2> QED BY <2>3, <2>4, UniqueAt
<1>8. \A i \in 1..n + 1 : i + 1 \in 1..n + 1 =>
        Ids(new[i + 1].results) = Ids(new[i].uses) /\ Len(new[i + 1].results) = Len(new[i].uses)
  <2> SUFFICES ASSUME NEW i \in 1..n + 1, i + 1 \in 1..n + 1
               PROVE  Ids(new[i + 1].results) = Ids(new[i].uses)
                      /\ Len(new[i + 1].results) = Len(new[i].uses)
    OBVIOUS
  <2>1. i \in 1..n
    BY <1>1
  <2>2. CASE i + 1 \in 1..n
    BY <1>1, <1>3, <2>1, <2>2 DEF Chained
  <2>3. CASE i + 1 = n + 1
    <3>1. i = n
      BY <1>1, <2>1, <2>3, Positions
    <3>2. new[i].uses = LastUses(out) /\ new[i + 1].results = msg.results
      BY <1>3, <2>1, <2>3, <3>1 DEF LastUses
    <3> QED BY <3>2
  <2> QED BY <1>4, <2>2, <2>3
<1>9. Chained(new)
  <2>1. \A i \in 1..n + 1 : new[i].role = RoleAt(i)
    BY <1>1, <1>3, <1>4, <1>5 DEF Chained
  <2>2. new[1].results = <<>>
    BY <1>1, <1>3 DEF Chained
  <2> QED BY <1>3, <1>7, <1>8, <2>1, <2>2 DEF Chained
<1>10. UseIds(new) = UseIds(out)
  <2>1. Ids(msg.uses) = {}
    BY <1>6 DEF Ids
  <2>2. UseIds(new) = UNION {Ids(new[i].uses) : i \in 1..n + 1}
    BY <1>3 DEF UseIds
  <2>3. UseIds(out) = UNION {Ids(out[i].uses) : i \in 1..n}
    BY <1>1 DEF UseIds
  <2>4. 1..n + 1 = (1..n) \cup {n + 1}
    BY <1>1
  <2> QED BY <1>3, <2>1, <2>2, <2>3, <2>4
<1> QED BY <1>3, <1>4, <1>9, <1>10 DEF new, LastUses

-----------------------------------------------------------------------------
(***************************************************************************)
(* One message.                                                            *)
(***************************************************************************)
Cleared(st) == [st EXCEPT !.out = <<>>]

LEMMA CallsProjectedAlone ==
  ASSUME NEW I, NEW st \in States(I, WireMessage), NEW msg \in Messages(I)
  PROVE  LET v   == CallBlocks(st, msg.calls)
             new == AnthropicStep(st, msg)
         IN Len(msg.results) = 0 =>
              /\ v \in States(I, Block) /\ new \in States(I, WireMessage) /\ Same(new, v)
              /\ AnthropicMessage(msg.role, v.out, <<>>) \in WireMessage
              /\ new.out = MergeSameRole(st.out, AnthropicMessage(msg.role, v.out, <<>>))
<1> DEFINE v == CallBlocks(st, msg.calls)
           w == ResultBlocks(v, msg.results)
           new == AnthropicStep(st, msg)
<1>1. /\ v \in States(I, Block) /\ w \in States(I, Block)
      /\ new \in States(I, WireMessage) /\ Same(new, w)
      /\ AnthropicMessage(msg.role, v.out, w.out) \in WireMessage
      /\ new.out = MergeSameRole(st.out, AnthropicMessage(msg.role, v.out, w.out))
  BY MessageStep
<1>2. msg.results \in Seq(ResultBlock)
  BY DEF Messages
<1> HIDE DEF v, new
<1>3. Len(msg.results) = 0 => w = [v EXCEPT !.out = <<>>]
  BY <1>1, <1>2, NoResults
<1>4. [v EXCEPT !.out = <<>>].out = <<>> /\ Same([v EXCEPT !.out = <<>>], v)
  BY <1>1 DEF States, Same
<1> HIDE DEF w
<1>5. Len(msg.results) = 0 => w.out = <<>> /\ Same(w, v)
  BY <1>3, <1>4
<1> QED BY <1>1, <1>5 DEF Same, v, new

LEMMA ResultsProjectedAlone ==
  ASSUME NEW I, NEW st \in States(I, WireMessage), NEW msg \in Messages(I),
         NEW v, v = Cleared(st), NEW w, w = ResultBlocks(v, msg.results),
         NEW new, new = AnthropicStep(st, msg)
  PROVE  Len(msg.calls) = 0 =>
           /\ v \in States(I, Block) /\ w \in States(I, Block) /\ v.out = <<>> /\ Same(v, st)
           /\ new \in States(I, WireMessage) /\ Same(new, w)
           /\ AnthropicMessage(msg.role, <<>>, w.out) \in WireMessage
           /\ new.out = MergeSameRole(st.out, AnthropicMessage(msg.role, <<>>, w.out))
<1> DEFINE c == CallBlocks(st, msg.calls)
           r == ResultBlocks(c, msg.results)
<1>1. /\ c \in States(I, Block) /\ r \in States(I, Block)
      /\ new \in States(I, WireMessage) /\ Same(new, r)
      /\ AnthropicMessage(msg.role, c.out, r.out) \in WireMessage
      /\ new.out = MergeSameRole(st.out, AnthropicMessage(msg.role, c.out, r.out))
  BY MessageStep
<1>2. msg.calls \in Seq(CallBlock)
  BY DEF Messages
<1>3. Len(msg.calls) = 0 => c = v
  BY <1>2, NoCalls DEF Cleared
<1>4. v.out = <<>> /\ Same(v, st)
  BY DEF States, Same, Cleared
<1> HIDE DEF c
<1>5. Len(msg.calls) = 0 => r = w
  BY <1>3
<1> HIDE DEF r
<1>6. Len(msg.calls) = 0 => c = v /\ r = w /\ c.out = <<>>
  BY <1>3, <1>4, <1>5
<1>7. Len(msg.calls) = 0 => AnthropicMessage(msg.role, c.out, r.out) = AnthropicMessage(msg.role, <<>>, w.out)
  BY <1>6
<1>8. Len(msg.calls) = 0 => v \in States(I, Block) /\ w \in States(I, Block)
  BY <1>1, <1>6
<1>9. Len(msg.calls) = 0 => Same(new, w)
  BY <1>1, <1>6
<1>10. Len(msg.calls) = 0 =>
         /\ AnthropicMessage(msg.role, <<>>, w.out) \in WireMessage
         /\ new.out = MergeSameRole(st.out, AnthropicMessage(msg.role, <<>>, w.out))
  BY <1>1, <1>7
<1>11. new \in States(I, WireMessage)
  BY <1>1
<1> QED BY <1>4, <1>8, <1>9, <1>10, <1>11

-----------------------------------------------------------------------------
(***************************************************************************)
(* A conversation.  It starts with the user, ids of calls are used once,   *)
(* and results answer the message before them, or come first, where the    *)
(* truncation has cut their calls off.  It is closed when every call is    *)
(* answered by the next message.                                           *)
(***************************************************************************)
CallsApart(h) ==
  \A i, j \in DOMAIN h : \A k \in DOMAIN h[i].calls, l \in DOMAIN h[j].calls :
    h[i].calls[k].id = h[j].calls[l].id /\ h[i].calls[k].id # 0 => i = j /\ k = l

Formed(I, h) ==
  /\ h \in Seq(Messages(I)) /\ 0 \in I /\ CallsApart(h)
  /\ h # <<>> => h[1].role = "user"
  /\ \A i \in DOMAIN h :
       /\ Len(h[i].calls) # 0 => h[i].role = "assistant" /\ Len(h[i].results) = 0
       /\ Len(h[i].results) # 0 => h[i].role = "user" /\ (i # 1 => Fit(h[i - 1].calls, h[i].results))

AnsweredNext(h, i) == i + 1 \in DOMAIN h /\ Len(h[i + 1].results) # 0
Closed(h) == \A i \in DOMAIN h : Len(h[i].calls) # 0 => AnsweredNext(h, i)

CallIds(h, j) == UNION {Ids(h[i].calls) : i \in 1..j}
Pending(h, j) == j # 0 /\ Len(h[j].calls) # 0
MadeAnId(h, j) == \E i \in 1..j : \E k \in DOMAIN h[i].calls : Idless(h[i].calls[k])

(* The projection after j messages.                                        *)
SoFar(I, h, tick, j, st) ==
  /\ Chained(st.out) /\ (st.out = <<>> <=> j = 0)
  /\ j # 0 => st.out[Len(st.out)].role = h[j].role
  /\ st.available = UseIds(st.out)
  /\ \A a \in st.available : a < 0 \/ a \in CallIds(h, j)
  /\ st.fresh < 0 /\ st.tick = tick
  /\ Ready(st) \/ (tick = 0 /\ MadeAnId(h, j))
  /\ IF Pending(h, j)
     THEN Open(I, h[j].calls, st)
          /\ Ids(LastUses(st.out)) = NamedIds(h[j].calls, Len(h[j].calls)) \cup Made(st)
     ELSE Clean(I, st) /\ LastUses(st.out) = <<>>

LEMMA CallIdsGrow ==
  ASSUME NEW h, NEW j \in Nat
  PROVE  /\ CallIds(h, j + 1) = CallIds(h, j) \cup Ids(h[j + 1].calls)
         /\ MadeAnId(h, j) => MadeAnId(h, j + 1)
         /\ (\E k \in DOMAIN h[j + 1].calls : Idless(h[j + 1].calls[k])) => MadeAnId(h, j + 1)
<1>1. 1..j + 1 = (1..j) \cup {j + 1}
  OBVIOUS
<1> QED BY <1>1 DEF CallIds, MadeAnId

LEMMA MessageAt ==
  ASSUME NEW I, NEW h, Formed(I, h), Closed(h), NEW j \in Nat, j + 1 <= Len(h)
  PROVE  /\ Len(h) \in Nat /\ DOMAIN h = 1..Len(h) /\ j + 1 \in DOMAIN h /\ h[j + 1] \in Messages(I)
         /\ \A i \in 1..j : i \in DOMAIN h /\ i # j + 1 /\ h[i] \in Messages(I)
         /\ j # 0 => j \in 1..j
         /\ Pending(h, j) => Len(h[j + 1].results) # 0
         /\ j = 0 => h[j + 1].role = "user"
<1>1. Len(h) \in Nat /\ DOMAIN h = 1..Len(h) /\ j + 1 \in DOMAIN h /\ h[j + 1] \in Messages(I)
  BY DEF Formed
<1>2. \A i \in 1..j : i \in DOMAIN h /\ i # j + 1 /\ h[i] \in Messages(I)
  BY <1>1 DEF Formed
<1>3. j # 0 => j \in 1..j
  OBVIOUS
<1>4. Pending(h, j) => Len(h[j + 1].results) # 0
  BY <1>2, <1>3 DEF Pending, Closed, AnsweredNext
<1>5. j = 0 => h[j + 1].role = "user"
  <2>1. h # <<>>
    BY <1>1
  <2> QED BY <2>1 DEF Formed
<1> QED BY <1>1, <1>2, <1>3, <1>4, <1>5

(* Calls.                                                                  *)
LEMMA CallsAcceptable ==
  ASSUME NEW I, NEW h, Formed(I, h), Closed(h), NEW tick \in {0, 1}, tick = 1 \/ OneIdless(h),
         NEW j \in Nat, j + 1 <= Len(h), NEW st \in States(I, WireMessage),
         SoFar(I, h, tick, j, st), ~Pending(h, j)
  PROVE  Acceptable(I, st, h[j + 1].calls)
<1> DEFINE cs == h[j + 1].calls
<1>1. /\ j + 1 \in DOMAIN h /\ h[j + 1] \in Messages(I)
      /\ \A i \in 1..j : i \in DOMAIN h /\ i # j + 1 /\ h[i] \in Messages(I)
  BY MessageAt
<1>2. cs \in Seq(CallBlock) /\ Ids(cs) \subseteq I /\ 0 \in I
  BY <1>1 DEF Messages, Formed
<1>3. NonzeroApart(cs)
  BY <1>1 DEF Formed, CallsApart, NonzeroApart
<1>4. ASSUME NEW i \in DOMAIN cs, cs[i].id # 0 PROVE cs[i].id \notin st.available
  <2>1. cs[i] \in CallBlock
    BY <1>2
  <2>2. cs[i].id \in Nat
    BY <2>1 DEF CallBlock
  <2>3. ~(cs[i].id < 0)
    BY <2>2
  <2>4. cs[i].id \notin CallIds(h, j)
    <3> SUFFICES ASSUME NEW a \in 1..j, cs[i].id \in Ids(h[a].calls) PROVE FALSE
      BY DEF CallIds
    <3>1. PICK k \in DOMAIN h[a].calls : h[a].calls[k].id = cs[i].id
      BY DEF Ids
    <3>2. a = j + 1
      BY <1>1, <1>4, <3>1 DEF Formed, CallsApart
    <3> QED BY <1>1, <3>2
  <2> QED BY <2>3, <2>4 DEF SoFar
<1>5. Clean(I, st) /\ st.fresh < 0 /\ st.tick = tick
  BY DEF SoFar
<1>6. ASSUME NEW i \in DOMAIN cs, Idless(cs[i]) PROVE Ready(st)
  <2> SUFFICES ASSUME tick = 0, MadeAnId(h, j) PROVE FALSE
    BY DEF SoFar
  <2>1. PICK a \in 1..j : \E k \in DOMAIN h[a].calls : Idless(h[a].calls[k])
    BY DEF MadeAnId
  <2>2. a = j + 1
    BY <1>1, <1>6, <2>1 DEF OneIdless
  <2> QED BY <1>1, <2>2
<1>7. st.tick = 1 \/ AtMostOneIdless(cs)
  BY <1>1, <1>5 DEF OneIdless, AtMostOneIdless
<1> QED BY <1>2, <1>3, <1>4, <1>5, <1>6, <1>7 DEF Acceptable

LEMMA CallsSoFar ==
  ASSUME NEW I, NEW h, Formed(I, h), Closed(h), NEW tick \in {0, 1}, tick = 1 \/ OneIdless(h),
         NEW j \in Nat, j + 1 <= Len(h), NEW st \in States(I, WireMessage),
         SoFar(I, h, tick, j, st), Len(h[j + 1].calls) # 0
  PROVE  SoFar(I, h, tick, j + 1, AnthropicStep(st, h[j + 1]))
<1> DEFINE msg == h[j + 1]
           cs == msg.calls
           v == CallBlocks(st, cs)
           new == AnthropicStep(st, msg)
           wire == AnthropicMessage(msg.role, v.out, <<>>)
<1>1. msg \in Messages(I) /\ j + 1 \in DOMAIN h /\ ~Pending(h, j) /\ j # 0
      /\ msg.role = "assistant" /\ Len(msg.results) = 0
  <2>1. j + 1 \in DOMAIN h /\ msg \in Messages(I) /\ (Pending(h, j) => Len(msg.results) # 0)
        /\ (j = 0 => msg.role = "user")
    BY MessageAt
  <2>2. msg.role = "assistant" /\ Len(msg.results) = 0
    BY <2>1 DEF Formed
  <2> QED BY <2>1, <2>2
<1>2. Acceptable(I, st, cs)
  BY <1>1, CallsAcceptable
<1>3. /\ v \in States(I, Block) /\ Counted(I, cs, Len(cs), v)
      /\ Listed(st, cs, Len(cs), v, v.out) /\ Freshly(st, cs, Len(cs), v)
  BY <1>2, CallsProjected
<1>4. /\ new \in States(I, WireMessage) /\ Same(new, v) /\ wire \in WireMessage
      /\ new.out = MergeSameRole(st.out, wire)
  BY <1>1, CallsProjectedAlone
<1> HIDE DEF v, new, msg
<1>5. wire.role = "assistant" /\ wire.uses = v.out /\ wire.results = <<>>
  BY <1>1 DEF AnthropicMessage
<1> HIDE DEF wire
<1>6. st.out \in Seq(WireMessage) /\ st.out # <<>> /\ Chained(st.out) /\ LastUses(st.out) = <<>>
      /\ st.available = UseIds(st.out)
  BY <1>1 DEF SoFar, States
<1>7. IdsApart(v.out) /\ UseIds(st.out) \cap Ids(v.out) = {}
      /\ v.available = st.available \cup Ids(v.out)
  BY <1>3, <1>6 DEF Listed
<1>8. /\ new.out # <<>> /\ Chained(new.out) /\ LastUses(new.out) = v.out
      /\ new.out[Len(new.out)].role = "assistant"
      /\ UseIds(new.out) = UseIds(st.out) \cup Ids(v.out)
  BY <1>4, <1>5, <1>6, <1>7, MergeQuiet
<1>9. j + 1 # 0 /\ Pending(h, j + 1) /\ h[j + 1].calls = cs
  BY DEF Pending, msg
<1>10. Open(I, cs, new) /\ Ids(LastUses(new.out)) = NamedIds(cs, Len(cs)) \cup Made(new)
  <2>1. Open(I, cs, v)
    BY <1>3, ReleasedOpen
  <2>2. Made(new) = Made(v)
    BY <1>4 DEF Same, Made
  <2>3. Open(I, cs, new)
    BY <1>4, <2>1, <2>2 DEF Same, Open, Counted
  <2>4. Ids(v.out) = NamedIds(cs, Len(cs)) \cup Made(v)
    BY <1>3 DEF Listed
  <2> QED BY <1>8, <2>2, <2>3, <2>4
<1>11. \A a \in new.available : a < 0 \/ a \in CallIds(h, j + 1)
  <2>1. CallIds(h, j + 1) = CallIds(h, j) \cup Ids(cs)
    BY CallIdsGrow DEF msg
  <2>2. new.available = st.available \cup NamedIds(cs, Len(cs)) \cup Made(v)
    BY <1>3, <1>4 DEF Listed, Same
  <2>3. cs \in Seq(CallBlock)
    BY <1>2 DEF Acceptable
  <2>4. NamedIds(cs, Len(cs)) \subseteq Ids(cs)
    BY <2>3 DEF NamedIds, Ids
  <2>5. \A a \in Made(v) : a < 0
    BY <1>3 DEF Listed
  <2> QED BY <2>1, <2>2, <2>4, <2>5 DEF SoFar
<1>12. new.fresh < 0 /\ new.tick = tick /\ (Ready(new) \/ (tick = 0 /\ MadeAnId(h, j + 1)))
  <2>1. new.fresh = v.fresh /\ new.tick = v.tick /\ (Ready(v) => Ready(new))
    BY <1>4 DEF Same, Ready
  <2>2. v.fresh < 0 /\ v.tick = st.tick /\ st.tick = tick
    BY <1>3 DEF Freshly, SoFar
  <2>3. CASE Ready(st)
    <3>1. Ready(v) \/ (v.tick = 0 /\ \E i \in 1..Len(cs) : Idless(cs[i]))
      BY <1>3, <2>3 DEF Freshly
    <3>2. cs \in Seq(CallBlock)
      BY <1>2 DEF Acceptable
    <3>3. (\E i \in 1..Len(cs) : Idless(cs[i])) => MadeAnId(h, j + 1)
      <4>1. cs = h[j + 1].calls
        BY DEF msg
      <4>2. DOMAIN cs = 1..Len(cs)
        BY <3>2
      <4> QED BY <4>1, <4>2, CallIdsGrow
    <3> QED BY <2>1, <2>2, <3>1, <3>3
  <2>4. CASE ~Ready(st)
    BY <2>1, <2>2, <2>4, CallIdsGrow DEF SoFar
  <2> QED BY <2>3, <2>4
<1>13. new.available = UseIds(new.out)
  BY <1>4, <1>6, <1>7, <1>8 DEF Same
<1>14. h[j + 1].role = "assistant"
  BY <1>1 DEF msg
<1> QED BY <1>8, <1>9, <1>10, <1>11, <1>12, <1>13, <1>14 DEF SoFar, msg, new

(* Text, and results in front of every call.                               *)
LEMMA QuietSoFar ==
  ASSUME NEW I, NEW h, Formed(I, h), Closed(h), NEW tick \in {0, 1},
         NEW j \in Nat, j + 1 <= Len(h), NEW st \in States(I, WireMessage),
         SoFar(I, h, tick, j, st), Len(h[j + 1].calls) = 0,
         Len(h[j + 1].results) = 0 \/ j = 0
  PROVE  SoFar(I, h, tick, j + 1, AnthropicStep(st, h[j + 1]))
<1> DEFINE msg == h[j + 1]
           v == Cleared(st)
           w == ResultBlocks(v, msg.results)
           new == AnthropicStep(st, msg)
           wire == AnthropicMessage(msg.role, <<>>, w.out)
<1>1. msg \in Messages(I) /\ j + 1 \in DOMAIN h /\ ~Pending(h, j) /\ (j = 0 => msg.role = "user")
  BY MessageAt DEF Pending
<1>2. /\ v \in States(I, Block) /\ w \in States(I, Block) /\ v.out = <<>> /\ Same(v, st)
      /\ new \in States(I, WireMessage) /\ Same(new, w) /\ wire \in WireMessage
      /\ new.out = MergeSameRole(st.out, wire)
  BY <1>1, ResultsProjectedAlone
<1>3. msg.results \in Seq(ResultBlock) /\ Ids(msg.results) \subseteq I
  BY <1>1 DEF Messages
<1>4. Clean(I, st) /\ LastUses(st.out) = <<>>
  BY <1>1 DEF SoFar
<1> HIDE DEF new, msg, v
<1>5. w.out = <<>> /\ Same(w, st)
  <2>1. CASE Len(msg.results) = 0
    <3>1. w = [v EXCEPT !.out = <<>>]
      BY <1>2, <1>3, <2>1, NoResults
    <3>2. [v EXCEPT !.out = <<>>].out = <<>> /\ Same([v EXCEPT !.out = <<>>], v)
      BY <1>2 DEF States, Same
    <3> HIDE DEF w
    <3> QED BY <1>2, <3>1, <3>2 DEF Same
  <2>2. CASE j = 0
    <3>1. st.out = <<>>
      BY <2>2 DEF SoFar
    <3>2. st.available = {}
      <4>1. DOMAIN <<>> = {}
        OBVIOUS
      <4> QED BY <3>1, <4>1 DEF SoFar, UseIds
    <3>3. Clean(I, v) /\ v.available = {}
      BY <1>2, <1>4, <3>2 DEF Clean, Same
    <3>4. w.out = <<>> /\ Same(w, v)
      BY <1>2, <1>3, <3>3, OrphansProjected
    <3> QED BY <1>2, <3>4 DEF Same
  <2>3. Len(msg.results) = 0 \/ j = 0
    BY DEF msg
  <2> QED BY <2>1, <2>2, <2>3
<1> HIDE DEF w
<1>6. wire.role = msg.role /\ wire.uses = <<>> /\ wire.results = <<>>
  BY <1>5 DEF AnthropicMessage
<1> HIDE DEF wire
<1>7. IdsApart(wire.uses) /\ Ids(wire.uses) = {}
  <2>1. DOMAIN <<>> = {}
    OBVIOUS
  <2> QED BY <1>6, <2>1 DEF IdsApart, Ids
<1>8. st.out \in Seq(WireMessage) /\ Chained(st.out) /\ (st.out = <<>> => wire.role = "user")
  BY <1>1, <1>6 DEF SoFar, States
<1>9. /\ new.out # <<>> /\ Chained(new.out) /\ LastUses(new.out) = <<>>
      /\ new.out[Len(new.out)].role = msg.role /\ UseIds(new.out) = UseIds(st.out)
  <2>1. LET out == MergeSameRole(st.out, wire)
        IN /\ out # <<>> /\ Chained(out) /\ LastUses(out) = wire.uses
           /\ out[Len(out)].role = wire.role /\ UseIds(out) = UseIds(st.out) \cup Ids(wire.uses)
    BY <1>2, <1>4, <1>6, <1>7, <1>8, MergeQuiet
  <2> QED BY <1>2, <1>6, <1>7, <2>1
<1>10. j + 1 # 0 /\ ~Pending(h, j + 1)
  BY DEF Pending, msg
<1>11. Same(new, st)
  BY <1>2, <1>5 DEF Same
<1>12. Clean(I, new)
  BY <1>4, <1>11 DEF Clean, Same
<1>13. new.fresh < 0 /\ new.tick = tick /\ (Ready(new) \/ (tick = 0 /\ MadeAnId(h, j + 1)))
  <2>1. Ready(st) => Ready(new)
    BY <1>11 DEF Same, Ready
  <2> QED BY <1>11, <2>1, CallIdsGrow DEF Same, SoFar
<1>14. new.available = UseIds(new.out) /\ \A a \in new.available : a < 0 \/ a \in CallIds(h, j + 1)
  <2>1. CallIds(h, j) \subseteq CallIds(h, j + 1)
    BY CallIdsGrow
  <2> QED BY <1>9, <1>11, <2>1 DEF Same, SoFar
<1> QED BY <1>9, <1>10, <1>12, <1>13, <1>14 DEF SoFar, msg, new

(* Results of the calls before them.                                       *)
LEMMA AnswersSoFar ==
  ASSUME NEW I, NEW h, Formed(I, h), Closed(h), NEW tick \in {0, 1},
         NEW j \in Nat, j + 1 <= Len(h), NEW st \in States(I, WireMessage),
         SoFar(I, h, tick, j, st), Len(h[j + 1].results) # 0, j # 0
  PROVE  SoFar(I, h, tick, j + 1, AnthropicStep(st, h[j + 1]))
<1> DEFINE msg == h[j + 1]
           cs == h[j].calls
           v == Cleared(st)
           w == ResultBlocks(v, msg.results)
           new == AnthropicStep(st, msg)
           wire == AnthropicMessage(msg.role, <<>>, w.out)
<1>1. /\ msg \in Messages(I) /\ j + 1 \in DOMAIN h /\ j \in DOMAIN h /\ h[j] \in Messages(I)
      /\ j + 1 # 1 /\ (j + 1) - 1 = j
  BY MessageAt
<1>2. msg.role = "user" /\ Fit(cs, msg.results) /\ Len(msg.calls) = 0
  BY <1>1 DEF Formed
<1>3. Pending(h, j) /\ h[j].role = "assistant" /\ Ids(cs) \subseteq I /\ 0 \in I
  BY <1>1, <1>2 DEF Pending, Fit, Formed, Messages
<1>4. /\ v \in States(I, Block) /\ w \in States(I, Block) /\ Same(v, st)
      /\ new \in States(I, WireMessage) /\ Same(new, w) /\ wire \in WireMessage
      /\ new.out = MergeSameRole(st.out, wire)
  BY <1>1, <1>2, ResultsProjectedAlone
<1>5. Open(I, cs, st) /\ Ids(LastUses(st.out)) = NamedIds(cs, Len(cs)) \cup Made(st)
  BY <1>3 DEF SoFar
<1> HIDE DEF new, msg, v
<1>6. Open(I, cs, v) /\ Made(v) = Made(st)
  BY <1>4, <1>5 DEF Open, Same, Counted, Made
<1>7. /\ Clean(I, w) /\ IdsApart(w.out) /\ Ids(w.out) = NamedIds(cs, Len(cs)) \cup Made(v)
      /\ w.available = v.available /\ w.fresh = v.fresh /\ w.tick = v.tick
  BY <1>2, <1>3, <1>4, <1>6, ResultsProjected
<1> HIDE DEF w
<1>8. wire.role = "user" /\ wire.uses = <<>> /\ wire.results = w.out
  BY <1>2 DEF AnthropicMessage
<1> HIDE DEF wire
<1>9. st.out \in Seq(WireMessage) /\ Chained(st.out) /\ st.out # <<>>
      /\ st.out[Len(st.out)].role = "assistant"
  BY <1>3 DEF SoFar, States
<1>10. Ids(w.out) = Ids(LastUses(st.out)) /\ Len(w.out) = Len(LastUses(st.out))
  <2>1. Ids(w.out) = Ids(LastUses(st.out))
    BY <1>5, <1>6, <1>7
  <2>2. w.out \in Seq(Block)
    BY <1>4 DEF States
  <2>3. LastUses(st.out) \in Seq(Block) /\ IdsApart(LastUses(st.out))
    <3>1. Len(st.out) \in DOMAIN st.out /\ st.out[Len(st.out)] \in WireMessage
      BY <1>9
    <3>2. LastUses(st.out) = st.out[Len(st.out)].uses
      BY <1>9 DEF LastUses
    <3>3. UsesUnique(st.out)
      BY <1>9 DEF Chained
    <3>4. IdsApart(st.out[Len(st.out)].uses)
      BY <3>1, <3>3 DEF UsesUnique, IdsApart
    <3>5. st.out[Len(st.out)].uses \in Seq(Block)
      BY <3>1 DEF WireMessage
    <3> QED BY <3>2, <3>4, <3>5
  <2>4. Cardinality(Ids(w.out)) = Len(w.out)
    BY <1>7, <2>2, ApartCount
  <2>5. Cardinality(Ids(LastUses(st.out))) = Len(LastUses(st.out))
    BY <2>3, ApartCount
  <2> QED BY <2>1, <2>4, <2>5
<1>11. /\ new.out # <<>> /\ Chained(new.out) /\ LastUses(new.out) = <<>>
       /\ new.out[Len(new.out)].role = "user" /\ UseIds(new.out) = UseIds(st.out)
  BY <1>4, <1>8, <1>9, <1>10, MergeAnswers
<1>12. j + 1 # 0 /\ ~Pending(h, j + 1) /\ h[j + 1].role = "user"
  BY <1>2 DEF Pending, msg
<1>13. /\ new.available = st.available /\ new.fresh = st.fresh /\ new.tick = st.tick
       /\ Clean(I, new)
  BY <1>4, <1>7 DEF Same, Clean
<1>14. new.fresh < 0 /\ new.tick = tick /\ (Ready(new) \/ (tick = 0 /\ MadeAnId(h, j + 1)))
  <2>1. Ready(st) => Ready(new)
    BY <1>13 DEF Ready
  <2> QED BY <1>13, <2>1, CallIdsGrow DEF SoFar
<1>15. new.available = UseIds(new.out) /\ \A a \in new.available : a < 0 \/ a \in CallIds(h, j + 1)
  <2>1. CallIds(h, j) \subseteq CallIds(h, j + 1)
    BY CallIdsGrow
  <2> QED BY <1>11, <1>13, <2>1 DEF SoFar
<1> QED BY <1>11, <1>12, <1>13, <1>14, <1>15 DEF SoFar, msg, new

(* The whole conversation.                                                 *)
LEMMA ProjectedSoFar ==
  ASSUME NEW I, NEW h, Formed(I, h), Closed(h), NEW tick \in {0, 1}, tick = 1 \/ OneIdless(h)
  PROVE  SoFar(I, h, tick, Len(h), MessagesFolded(Start(I, tick), h))
<1> DEFINE st == Start(I, tick)
           n == Len(h)
<1>1. h \in Seq(Messages(I)) /\ n \in Nat
  BY DEF Formed
<1>2. /\ st \in States(I, WireMessage) /\ st.out = <<>> /\ st.dropped = [i \in I |-> 0]
      /\ st.generated = <<>> /\ st.available = {} /\ st.fresh = -1 /\ st.tick = tick
  BY DEF States, Start
<1> HIDE DEF st
<1>3. PICK it \in [0..n -> States(I, WireMessage)] :
        /\ it[0] = st /\ it[n] = MessagesFolded(st, h)
        /\ \A k \in 1..n : it[k] = AnthropicStep(it[k - 1], h[k])
  <2>1. st \in States(I, WireMessage)
    BY <1>2
  <2> QED BY <1>1, <2>1, MessagesTrace
<1> DEFINE S == {k \in Nat : k <= n => SoFar(I, h, tick, k, it[k])}
<1>4. 0 \in S
  <2>1. DOMAIN <<>> = {}
    OBVIOUS
  <2>2. Chained(st.out) /\ UseIds(st.out) = {} /\ LastUses(st.out) = <<>>
    BY <1>2, <2>1 DEF Chained, UseIds, LastUses, UsesUnique
  <2>3. Clean(I, st)
    BY <1>2 DEF Clean
  <2>4. Ready(st) /\ ~Pending(h, 0)
    BY <1>2 DEF Ready, Pending
  <2>5. SoFar(I, h, tick, 0, st)
    BY <1>2, <2>2, <2>3, <2>4 DEF SoFar
  <2> QED BY <1>3, <2>5
<1>5. ASSUME NEW k \in Nat, k \in S PROVE k + 1 \in S
  <2> SUFFICES ASSUME k + 1 <= n PROVE SoFar(I, h, tick, k + 1, it[k + 1])
    OBVIOUS
  <2>1. k <= n /\ k \in 0..n /\ k + 1 \in 1..n /\ (k + 1) - 1 = k
    BY <1>1
  <2>2. it[k] \in States(I, WireMessage) /\ it[k + 1] = AnthropicStep(it[k], h[k + 1])
    BY <1>3, <2>1
  <2>3. SoFar(I, h, tick, k, it[k])
    BY <1>5, <2>1
  <2>4. CASE Len(h[k + 1].calls) # 0
    BY <2>2, <2>3, <2>4, CallsSoFar
  <2>5. CASE Len(h[k + 1].calls) = 0 /\ (Len(h[k + 1].results) = 0 \/ k = 0)
    BY <2>2, <2>3, <2>5, QuietSoFar
  <2>6. CASE Len(h[k + 1].results) # 0 /\ k # 0
    BY <2>2, <2>3, <2>6, AnswersSoFar
  <2> QED BY <2>4, <2>5, <2>6
<1> HIDE DEF S
<1>6. n \in S
  BY <1>1, <1>4, <1>5, NatSetInduction
<1>7. SoFar(I, h, tick, n, it[n])
  BY <1>1, <1>6 DEF S
<1> QED BY <1>3, <1>7 DEF st

LEMMA ConversationsPair ==
  ASSUME NEW h, Formed(HistoryIds(h) \cup {0}, h), Closed(h), NEW tick \in {0, 1},
         tick = 1 \/ OneIdless(h)
  PROVE  AnthropicPaired(AnthropicRequest(h, tick))
<1> DEFINE I == HistoryIds(h) \cup {0}
           st == MessagesFolded(Start(I, tick), h)
           out == st.out
<1>1. SoFar(I, h, tick, Len(h), st)
  BY ProjectedSoFar
<1>2. AnthropicRequest(h, tick) = EnsureAlternation(out)
  BY DEF AnthropicRequest, MessagesFolded
<1>3. h \in Seq(Messages(I)) /\ Len(h) \in Nat
  BY DEF Formed
<1> HIDE DEF st, I
<1>4. ~Pending(h, Len(h))
  <2> SUFFICES ASSUME Len(h) # 0, Len(h[Len(h)].calls) # 0 PROVE FALSE
    BY DEF Pending
  <2>1. Len(h) \in DOMAIN h /\ Len(h) + 1 \notin DOMAIN h
    BY <1>3
  <2> QED BY <2>1 DEF Closed, AnsweredNext
<1>5. Chained(out) /\ LastUses(out) = <<>>
  BY <1>1, <1>4 DEF SoFar
<1>6. st \in States(I, WireMessage)
  <2>1. Start(I, tick) \in States(I, WireMessage)
    BY DEF States, Start
  <2>2. \E it \in [0..Len(h) -> States(I, WireMessage)] :
          /\ it[0] = Start(I, tick) /\ it[Len(h)] = MessagesFolded(Start(I, tick), h)
          /\ \A k \in 1..Len(h) : it[k] = AnthropicStep(it[k - 1], h[k])
    BY <1>3, <2>1, MessagesTrace
  <2>3. Len(h) \in 0..Len(h)
    BY <1>3
  <2> QED BY <2>2, <2>3 DEF st
<1>7. out \in Seq(WireMessage)
  BY <1>6 DEF States
<1> HIDE DEF out
<1>8. Len(out) \in Nat /\ DOMAIN out = 1..Len(out)
  BY <1>7
<1>9. EnsureAlternation(out) = out
  <2> SUFFICES ASSUME out # <<>> PROVE out[1].role # "assistant"
    BY DEF EnsureAlternation
  <2>1. 1 \in DOMAIN out
    BY <1>7
  <2> QED BY <1>5, <2>1, RoleFlips DEF Chained
<1>10. AnthropicPaired(out)
  <2>1. ASSUME NEW i \in DOMAIN out
        PROVE  LET results == IF i < Len(out) THEN out[i+1].results ELSE <<>>
               IN /\ Ids(results) = Ids(out[i].uses)
                  /\ Len(results) = Len(out[i].uses)
                  /\ out[i].role = (IF i % 2 = 1 THEN "user" ELSE "assistant")
    <3>1. out[i].role = (IF i % 2 = 1 THEN "user" ELSE "assistant")
      BY <1>5 DEF Chained, RoleAt
    <3>2. CASE i < Len(out)
      <4>1. i + 1 \in DOMAIN out
        BY <1>8, <3>2
      <4> QED BY <1>5, <3>1, <3>2, <4>1 DEF Chained
    <3>3. CASE ~(i < Len(out))
      <4>1. i = Len(out) /\ out # <<>>
        BY <1>8, <3>3
      <4>2. out[i].uses = <<>>
        BY <1>5, <4>1 DEF LastUses
      <4> QED BY <3>1, <3>3, <4>2
    <3> QED BY <3>2, <3>3
  <2> QED BY <1>5, <2>1 DEF AnthropicPaired, Chained
<1> QED BY <1>2, <1>9, <1>10

-----------------------------------------------------------------------------
(***************************************************************************)
(* How a conversation grows, and is cut.                                   *)
(***************************************************************************)
WellFormed(h) == Formed(Nat, h)
OpenAtEnd(h) == \A i \in DOMAIN h : Len(h[i].calls) # 0 => i = Len(h) \/ AnsweredNext(h, i)
IdsUpTo(h, n) == \A i \in DOMAIN h : \A k \in DOMAIN h[i].calls : h[i].calls[k].id <= n

Fits(h, m) ==
  /\ m \in Messages(Nat)
  /\ h = <<>> => m.role = "user"
  /\ Len(m.calls) # 0 => m.role = "assistant" /\ Len(m.results) = 0
  /\ Len(m.results) # 0 => m.role = "user" /\ (h # <<>> => Fit(h[Len(h)].calls, m.results))
  /\ NonzeroApart(m.calls)
  /\ \A i \in DOMAIN h : \A k \in DOMAIN h[i].calls, l \in DOMAIN m.calls :
       h[i].calls[k].id = m.calls[l].id => m.calls[l].id = 0

LEMMA Grown ==
  ASSUME NEW h, h \in Seq(Messages(Nat)), NEW m \in Messages(Nat), NEW g, g = Append(h, m)
  PROVE  /\ g \in Seq(Messages(Nat)) /\ Len(h) \in Nat /\ Len(g) = Len(h) + 1
         /\ DOMAIN h = 1..Len(h) /\ DOMAIN g = 1..Len(h) + 1
         /\ g[Len(h) + 1] = m /\ \A i \in 1..Len(h) : g[i] = h[i]
OBVIOUS

LEMMA AppendFormed ==
  ASSUME NEW h, WellFormed(h), NEW m, Fits(h, m), NEW g, g = Append(h, m)
  PROVE  WellFormed(g) /\ g # <<>>
<1> DEFINE n == Len(h)
<1>1. h \in Seq(Messages(Nat)) /\ m \in Messages(Nat)
  BY DEF WellFormed, Formed, Fits
<1>2. /\ g \in Seq(Messages(Nat)) /\ n \in Nat /\ Len(g) = n + 1 /\ DOMAIN h = 1..n
      /\ DOMAIN g = 1..n + 1 /\ g[n + 1] = m /\ \A i \in 1..n : g[i] = h[i]
  BY <1>1, Grown
<1>3. h = <<>> <=> n = 0
  BY <1>1
<1> HIDE DEF n
<1>4. /\ \A i \in 1..n + 1 : i = n + 1 \/ i \in 1..n
      /\ n + 1 \in 1..n + 1 /\ n + 1 \notin 1..n /\ (n + 1) - 1 = n /\ (n + 1 # 1 => n # 0)
      /\ \A i \in 1..n : i # 1 => i - 1 \in 1..n
      /\ n # 0 => 1 \in 1..n
  BY <1>2
<1>5. CallsApart(g)
  <2> SUFFICES ASSUME NEW i \in 1..n + 1, NEW j \in 1..n + 1, NEW k \in DOMAIN g[i].calls,
                      NEW l \in DOMAIN g[j].calls, g[i].calls[k].id = g[j].calls[l].id,
                      g[i].calls[k].id # 0
               PROVE  i = j /\ k = l
    BY <1>2 DEF CallsApart
  <2>1. CASE i = n + 1 /\ j = n + 1
    BY <1>2, <2>1 DEF Fits, NonzeroApart
  <2>2. CASE i \in 1..n /\ j \in 1..n
    <3>1. g[i] = h[i] /\ g[j] = h[j]
      BY <1>2, <2>2
    <3> QED BY <1>2, <2>2, <3>1 DEF WellFormed, Formed, CallsApart
  <2>3. CASE i = n + 1 /\ j \in 1..n
    BY <1>2, <2>3 DEF Fits
  <2>4. CASE i \in 1..n /\ j = n + 1
    BY <1>2, <2>4 DEF Fits
  <2> QED BY <1>4, <2>1, <2>2, <2>3, <2>4
<1>6. g[1].role = "user" /\ g # <<>>
  <2>1. g # <<>>
    BY <1>2, <1>4
  <2>2. CASE n = 0
    BY <1>2, <1>3, <2>2 DEF Fits
  <2>3. CASE n # 0
    BY <1>2, <1>3, <1>4, <2>3 DEF WellFormed, Formed
  <2> QED BY <2>1, <2>2, <2>3
<1>7. ASSUME NEW i \in 1..n + 1
      PROVE  /\ Len(g[i].calls) # 0 => g[i].role = "assistant" /\ Len(g[i].results) = 0
             /\ Len(g[i].results) # 0 =>
                  g[i].role = "user" /\ (i # 1 => Fit(g[i - 1].calls, g[i].results))
  <2>1. CASE i = n + 1
    <3>1. n # 0 => g[i - 1] = h[Len(h)] /\ h # <<>>
      <4>1. n # 0 => n \in 1..n
        BY <1>2
      <4> QED BY <1>2, <1>3, <1>4, <2>1, <4>1 DEF n
    <3> QED BY <1>2, <1>4, <2>1, <3>1 DEF Fits
  <2>2. CASE i \in 1..n
    <3>1. g[i] = h[i] /\ (i # 1 => g[i - 1] = h[i - 1])
      BY <1>2, <1>4, <2>2
    <3> QED BY <1>2, <2>2, <3>1 DEF WellFormed, Formed
  <2> QED BY <1>4, <2>1, <2>2
<1> QED BY <1>2, <1>5, <1>6, <1>7 DEF WellFormed, Formed

LEMMA AppendClosed ==
  ASSUME NEW h \in Seq(Messages(Nat)), NEW m \in Messages(Nat), NEW g, g = Append(h, m)
  PROVE  /\ Closed(h) => OpenAtEnd(g)
         /\ Closed(h) /\ Len(m.calls) = 0 => Closed(g)
         /\ OpenAtEnd(h) /\ Len(m.calls) = 0 /\ Len(m.results) # 0 => Closed(g)
<1> DEFINE n == Len(h)
<1>1. /\ n \in Nat /\ Len(g) = n + 1 /\ DOMAIN h = 1..n
      /\ DOMAIN g = 1..n + 1 /\ g[n + 1] = m /\ \A i \in 1..n : g[i] = h[i]
  BY Grown
<1>2. /\ \A i \in 1..n + 1 : i = n + 1 \/ i \in 1..n
      /\ \A i \in 1..n : i + 1 \in 1..n + 1
  BY <1>1
<1>3. ASSUME NEW i \in 1..n, AnsweredNext(h, i) PROVE AnsweredNext(g, i)
  BY <1>1, <1>2, <1>3 DEF AnsweredNext
<1>4. Closed(h) => OpenAtEnd(g)
  BY <1>1, <1>2, <1>3 DEF Closed, OpenAtEnd
<1>5. Closed(h) /\ Len(m.calls) = 0 => Closed(g)
  BY <1>1, <1>2, <1>3 DEF Closed
<1>6. ASSUME OpenAtEnd(h), Len(m.calls) = 0, Len(m.results) # 0 PROVE Closed(g)
  <2> SUFFICES ASSUME NEW i \in 1..n + 1, Len(g[i].calls) # 0 PROVE AnsweredNext(g, i)
    BY <1>1 DEF Closed
  <2>1. i \in 1..n
    BY <1>1, <1>2, <1>6
  <2>2. CASE i = n
    BY <1>1, <1>2, <1>6, <2>1, <2>2 DEF AnsweredNext
  <2>3. CASE i # n
    <3>1. AnsweredNext(h, i)
      BY <1>1, <1>6, <2>1, <2>3 DEF OpenAtEnd
    <3> QED BY <1>3, <2>1, <3>1
  <2> QED BY <2>2, <2>3
<1> QED BY <1>4, <1>5, <1>6

LEMMA AppendIdsUpTo ==
  ASSUME NEW h \in Seq(Messages(Nat)), NEW m \in Messages(Nat), NEW g, g = Append(h, m),
         NEW from, IdsUpTo(h, from), NEW to, \A a \in Nat : a <= from => a <= to,
         \A k \in DOMAIN m.calls : m.calls[k].id <= to
  PROVE  IdsUpTo(g, to)
<1> DEFINE n == Len(h)
<1>1. /\ n \in Nat /\ Len(g) = n + 1 /\ DOMAIN h = 1..n
      /\ DOMAIN g = 1..n + 1 /\ g[n + 1] = m /\ \A i \in 1..n : g[i] = h[i]
  BY Grown
<1>2. \A i \in 1..n + 1 : i = n + 1 \/ i \in 1..n
  BY <1>1
<1>3. \A i \in 1..n : \A k \in DOMAIN h[i].calls : h[i].calls[k].id \in Nat
  <2>1. \A c \in CallBlock : c.id \in Nat
    BY DEF CallBlock
  <2>2. \A i \in 1..n : h[i].calls \in Seq(CallBlock)
    BY <1>1 DEF Messages
  <2> QED BY <2>1, <2>2
<1>4. \A i \in 1..n : \A k \in DOMAIN h[i].calls : h[i].calls[k].id <= to
  BY <1>1, <1>3 DEF IdsUpTo
<1> QED BY <1>1, <1>2, <1>4 DEF IdsUpTo

LEMMA TextFits ==
  ASSUME NEW h, NEW m \in {UserText, AssistantText}, h # <<>> \/ m = UserText
  PROVE  Fits(h, m) /\ Len(m.calls) = 0 /\ m \in Messages(Nat)
<1>1. m.calls = <<>> /\ m.results = <<>> /\ m.role \in {"user", "assistant"}
      /\ (m = UserText => m.role = "user")
  BY DEF UserText, AssistantText
<1>2. DOMAIN <<>> = {} /\ Len(<<>>) = 0 /\ <<>> \in Seq(CallBlock) /\ <<>> \in Seq(ResultBlock)
  OBVIOUS
<1>3. Ids(<<>>) = {}
  BY <1>2 DEF Ids
<1>4. m \in [role : {"user", "assistant"}, calls : Seq(CallBlock), results : Seq(ResultBlock)]
  <2>1. UserText \in [role : {"user", "assistant"}, calls : Seq(CallBlock), results : Seq(ResultBlock)]
    BY <1>2 DEF UserText
  <2>2. AssistantText \in [role : {"user", "assistant"}, calls : Seq(CallBlock), results : Seq(ResultBlock)]
    BY <1>2 DEF AssistantText
  <2> QED BY <2>1, <2>2
<1>5. m \in Messages(Nat)
  BY <1>1, <1>3, <1>4 DEF Messages
<1> QED BY <1>1, <1>2, <1>5 DEF Fits, NonzeroApart

(* The results of a round fit its calls, in every order that keeps those of *)
(* malformed calls in place.                                               *)
LEMMA OrdersFit ==
  ASSUME NEW cs \in Seq(CallBlock), NonzeroApart(cs), NEW order \in Orders(cs)
  PROVE  Fit(cs, RoundResults(cs, order))
<1> DEFINE n == Len(cs)
           rs == RoundResults(cs, order)
<1>1. n \in Nat /\ DOMAIN cs = 1..n /\ \A i \in 1..n : cs[i] \in CallBlock
  OBVIOUS
<1>2. /\ order \in [1..n -> 1..n] /\ \A i, j \in 1..n : order[i] = order[j] => i = j
      /\ \A i \in 1..n : ~Executable(cs[i]) => order[i] = i
  BY <1>1 DEF Orders
<1>3. \A c \in CallBlock : [id |-> c.id, n |-> c.n] \in ResultBlock /\ c.id \in Nat
  BY DEF CallBlock, ResultBlock
<1>4. rs = [i \in 1..n |-> [id |-> cs[order[i]].id, n |-> cs[order[i]].n]]
  BY <1>1 DEF RoundResults
<1> HIDE DEF rs
<1>5. rs \in [1..n -> ResultBlock] /\ \A i \in 1..n : rs[i].id = cs[order[i]].id
  BY <1>1, <1>2, <1>3, <1>4
<1>6. rs \in Seq(ResultBlock) /\ Len(rs) = n /\ DOMAIN rs = 1..n
  BY <1>1, <1>5
<1>7. \A j \in 1..n : \E i \in 1..n : order[i] = j
  <2>1. order \in Injection(1..n, 1..n)
    BY <1>2 DEF Injection, IsInjective
  <2>2. IsFiniteSet(1..n)
    BY <1>1, FS_Interval
  <2>3. order \in Surjection(1..n, 1..n)
    BY <2>1, <2>2, FS_Injection
  <2> QED BY <2>3 DEF Surjection
<1>8. Ids(rs) = Ids(cs)
  <2>1. \A i \in 1..n : cs[order[i]].id \in Ids(cs)
    BY <1>1, <1>2 DEF Ids
  <2>2. \A j \in 1..n : cs[j].id \in Ids(rs)
    <3> TAKE j \in 1..n
    <3>1. PICK i \in 1..n : order[i] = j
      BY <1>7
    <3>2. rs[i].id = cs[j].id
      BY <1>5, <3>1
    <3> QED BY <1>6, <3>2 DEF Ids
  <2>3. Ids(rs) = {rs[i].id : i \in 1..n} /\ Ids(cs) = {cs[i].id : i \in 1..n}
    BY <1>1, <1>6 DEF Ids
  <2>4. Ids(rs) \subseteq Ids(cs)
    BY <1>5, <2>1, <2>3
  <2>5. Ids(cs) \subseteq Ids(rs)
    BY <2>2, <2>3
  <2> QED BY <2>4, <2>5
<1>9. \A i \in 1..n : cs[i].id = 0 <=> rs[i].id = 0
  <2> TAKE i \in 1..n
  <2>1. \A k \in 1..n : cs[k].id = 0 => order[k] = k
    BY <1>2 DEF Executable
  <2>2. cs[i].id = 0 => rs[i].id = 0
    BY <1>5, <2>1
  <2>3. ASSUME rs[i].id = 0 PROVE cs[i].id = 0
    <3>1. order[i] \in 1..n /\ cs[order[i]].id = 0
      BY <1>2, <1>5, <2>3
    <3>2. order[order[i]] = order[i]
      BY <2>1, <3>1
    <3>3. order[i] = i
      BY <1>2, <3>1, <3>2
    <3> QED BY <3>1, <3>3
  <2> QED BY <2>2, <2>3
<1>10. NonzeroApart(rs)
  <2> SUFFICES ASSUME NEW k \in 1..n, NEW l \in 1..n, rs[k].id = rs[l].id, rs[k].id # 0 PROVE k = l
    BY <1>6 DEF NonzeroApart
  <2>1. order[k] \in 1..n /\ order[l] \in 1..n /\ cs[order[k]].id = cs[order[l]].id /\ cs[order[k]].id # 0
    BY <1>2, <1>5
  <2>2. order[k] = order[l]
    BY <1>1, <2>1 DEF NonzeroApart
  <2> QED BY <1>2, <2>2
<1> QED BY <1>1, <1>6, <1>8, <1>9, <1>10 DEF Fit, rs

LEMMA SameOrder ==
  ASSUME NEW cs
  PROVE  [i \in DOMAIN cs |-> i] \in Orders(cs)
BY DEF Orders

LEMMA ResultsFit ==
  ASSUME NEW h, WellFormed(h), h # <<>>, NEW cs, cs = h[Len(h)].calls, Len(cs) # 0,
         NEW order \in Orders(cs), NEW m, m = Results(RoundResults(cs, order))
  PROVE  Fits(h, m) /\ Len(m.calls) = 0 /\ Len(m.results) # 0 /\ m \in Messages(Nat)
<1> DEFINE rs == RoundResults(cs, order)
<1>1. Len(h) \in DOMAIN h /\ h[Len(h)] \in Messages(Nat)
  BY DEF WellFormed, Formed
<1>2. cs \in Seq(CallBlock) /\ NonzeroApart(cs)
  BY <1>1 DEF WellFormed, Formed, Messages, CallsApart, NonzeroApart
<1>3. Fit(cs, rs)
  BY <1>2, OrdersFit
<1> HIDE DEF rs
<1>4. rs \in Seq(ResultBlock) /\ Len(rs) # 0
  BY <1>3 DEF Fit
<1>5. m.role = "user" /\ m.calls = <<>> /\ m.results = rs
  BY DEF Results, rs
<1>6. DOMAIN <<>> = {} /\ Len(<<>>) = 0 /\ <<>> \in Seq(CallBlock)
  OBVIOUS
<1>7. m \in Messages(Nat)
  <2>1. \A r \in ResultBlock : r.id \in Nat
    BY DEF ResultBlock
  <2>2. Ids(m.results) \subseteq Nat /\ Ids(m.calls) \subseteq Nat
    BY <1>4, <1>5, <1>6, <2>1 DEF Ids
  <2>3. m \in [role : {"user", "assistant"}, calls : Seq(CallBlock), results : Seq(ResultBlock)]
    BY <1>4, <1>6 DEF Results, rs
  <2> QED BY <2>2, <2>3 DEF Messages
<1> QED BY <1>3, <1>4, <1>5, <1>6, <1>7 DEF Fits, NonzeroApart

(* A round's calls have new ids.                                           *)
LEMMA RoundFits ==
  ASSUME NEW h, WellFormed(h), h # <<>>, lastId \in Nat, IdsUpTo(h, lastId), NEW shapes \in Rounds,
         NEW m, m = Calls(RoundCalls(shapes))
  PROVE  /\ Fits(h, m) /\ Len(m.calls) # 0 /\ m \in Messages(Nat)
         /\ lastId + Len(shapes) \in Nat
         /\ \A a \in Nat : a <= lastId => a <= lastId + Len(shapes)
         /\ \A k \in DOMAIN m.calls : m.calls[k].id <= lastId + Len(shapes)
<1> DEFINE cs == RoundCalls(shapes)
<1>1. PICK n \in 1..MaxPerRound : shapes \in [1..n -> Shapes]
  BY DEF Rounds
<1>2. n \in Nat /\ n # 0 /\ n > 0
  BY BoundsAssumption
<1>3. Len(shapes) = n /\ DOMAIN shapes = 1..n
  BY <1>1, <1>2
<1>4. \A i \in 1..n : lastId + i \in Nat /\ lastId + i > lastId /\ lastId + i <= lastId + n
  BY <1>2
<1>5. /\ DOMAIN cs = 1..n
      /\ \A i \in 1..n : /\ cs[i] \in CallBlock /\ cs[i].id \in {0, lastId + i}
  <2>1. cs = [i \in 1..n |->
               [id |-> IF shapes[i] \in {"noid", "neither"} THEN 0 ELSE lastId + i,
                named |-> shapes[i] \notin {"noname", "neither"}, n |-> lastId + i]]
    BY <1>3 DEF RoundCalls
  <2> HIDE DEF cs
  <2>2. DOMAIN cs = 1..n
    BY <2>1
  <2>3. ASSUME NEW i \in 1..n PROVE cs[i] \in CallBlock /\ cs[i].id \in {0, lastId + i}
    <3>1. cs[i] = [id |-> IF shapes[i] \in {"noid", "neither"} THEN 0 ELSE lastId + i,
                   named |-> shapes[i] \notin {"noname", "neither"}, n |-> lastId + i]
      BY <2>1
    <3>2. lastId + i \in Nat
      BY <1>4
    <3>3. (IF shapes[i] \in {"noid", "neither"} THEN 0 ELSE lastId + i) \in Nat
      BY <3>2
    <3>4. (shapes[i] \notin {"noname", "neither"}) \in BOOLEAN
      OBVIOUS
    <3> QED BY <3>1, <3>2, <3>3, <3>4 DEF CallBlock
  <2> QED BY <2>2, <2>3
<1> HIDE DEF cs
<1>6. cs \in [1..n -> CallBlock]
  <2>1. cs = [i \in 1..n |-> cs[i]]
    BY <1>3 DEF cs, RoundCalls
  <2> QED BY <1>5, <2>1
<1>7. cs \in Seq(CallBlock) /\ Len(cs) = n
  BY <1>2, <1>6
<1>8. m.role = "assistant" /\ m.calls = cs /\ m.results = <<>>
  BY DEF Calls, cs
<1>9. DOMAIN <<>> = {} /\ Len(<<>>) = 0 /\ <<>> \in Seq(ResultBlock)
  OBVIOUS
<1>10. m \in Messages(Nat)
  <2>1. \A c \in CallBlock : c.id \in Nat
    BY DEF CallBlock
  <2>2. Ids(m.results) \subseteq Nat /\ Ids(m.calls) \subseteq Nat
    BY <1>5, <1>8, <1>9, <2>1 DEF Ids
  <2>3. m \in [role : {"user", "assistant"}, calls : Seq(CallBlock), results : Seq(ResultBlock)]
    BY <1>7, <1>9 DEF Calls, cs
  <2> QED BY <2>2, <2>3 DEF Messages
<1>11. NonzeroApart(cs)
  <2> SUFFICES ASSUME NEW k \in 1..n, NEW l \in 1..n, cs[k].id = cs[l].id, cs[k].id # 0 PROVE k = l
    BY <1>5 DEF NonzeroApart
  <2>1. lastId + k = lastId + l
    BY <1>5
  <2> QED BY <2>1
<1>12. ASSUME NEW i \in DOMAIN h, NEW k \in DOMAIN h[i].calls, NEW l \in DOMAIN m.calls,
              h[i].calls[k].id = m.calls[l].id
       PROVE  m.calls[l].id = 0
  <2>1. h[i].calls[k].id <= lastId
    BY DEF IdsUpTo
  <2>2. l \in 1..n /\ m.calls[l].id \in {0, lastId + l} /\ m.calls[l].id <= lastId
    BY <1>5, <1>8, <1>12, <2>1
  <2> QED BY <1>4, <2>2
<1>13. /\ lastId + Len(shapes) \in Nat
       /\ \A a \in Nat : a <= lastId => a <= lastId + Len(shapes)
       /\ \A k \in DOMAIN m.calls : m.calls[k].id <= lastId + Len(shapes)
  BY <1>2, <1>3, <1>4, <1>5, <1>8
<1> QED BY <1>2, <1>7, <1>8, <1>9, <1>10, <1>11, <1>12, <1>13 DEF Fits

(* What is left when the first messages are gone, the first of the rest    *)
(* behind a text of the user when it was the assistant's.                  *)
IsCut(g, s, e, first) ==
  /\ g \in Seq(Messages(Nat)) /\ Len(g) = Len(s) - e /\ Len(g) >= first
  /\ \A i \in first..Len(g) : g[i] = s[i + e]
  /\ first = 1 => s[1 + e].role = "user"
  /\ first = 2 => g[1] = UserText /\ s[2 + e].role = "assistant"

LEMMA CutFormed ==
  ASSUME NEW s, WellFormed(s), NEW g, NEW e \in Nat, NEW first \in {1, 2}, IsCut(g, s, e, first)
  PROVE  /\ WellFormed(g) /\ (Closed(s) => Closed(g))
         /\ \A n : IdsUpTo(s, n) => IdsUpTo(g, n)
<1> DEFINE m == Len(g)
<1>1. s \in Seq(Messages(Nat)) /\ Len(s) \in Nat /\ DOMAIN s = 1..Len(s) /\ m \in Nat /\ DOMAIN g = 1..m
  BY DEF WellFormed, Formed, IsCut
<1>2. Len(s) = m + e
  BY <1>1 DEF IsCut
<1> HIDE DEF m
<1>3. /\ \A i \in first..m : i + e \in DOMAIN s /\ (i # 1 => i + e # 1) /\ i \in 1..m
      /\ \A i \in first..m : i + e + 1 \in DOMAIN s => i + 1 \in 1..m /\ i + 1 \in first..m
      /\ \A i \in first..m : i + 1 + e = i + e + 1 /\ i + e - 1 = (i - 1) + e
      /\ \A i, j \in first..m : i + e = j + e => i = j
      /\ \A i \in 1..m : i \in first..m \/ (i = 1 /\ first = 2)
      /\ \A i \in first..m : i = 1 \/ i - 1 \in first..m \/ (i = 2 /\ first = 2)
      /\ first \in first..m /\ 1 \in 1..m
  <2>1. m >= first
    BY DEF m, IsCut
  <2> QED BY <1>1, <1>2, <2>1
<1>4. \A i \in first..m : g[i] = s[i + e]
  BY DEF m, IsCut
<1>5. first = 2 => DOMAIN g[1].calls = {} /\ Len(g[1].calls) = 0 /\ Len(g[1].results) = 0
                   /\ g[1].role = "user"
  <2>1. DOMAIN <<>> = {} /\ Len(<<>>) = 0
    OBVIOUS
  <2> QED BY <2>1 DEF UserText, IsCut
<1>6. CallsApart(g)
  <2> SUFFICES ASSUME NEW i \in 1..m, NEW j \in 1..m, NEW k \in DOMAIN g[i].calls,
                      NEW l \in DOMAIN g[j].calls, g[i].calls[k].id = g[j].calls[l].id,
                      g[i].calls[k].id # 0
               PROVE  i = j /\ k = l
    BY <1>1 DEF CallsApart
  <2>1. i \in first..m /\ j \in first..m
    BY <1>3, <1>5
  <2>2. g[i] = s[i + e] /\ g[j] = s[j + e] /\ i + e \in DOMAIN s /\ j + e \in DOMAIN s
    BY <1>3, <1>4, <2>1
  <2>3. CallsApart(s)
    BY DEF WellFormed, Formed
  <2>4. \A c, d \in DOMAIN s : \A a \in DOMAIN s[c].calls, b \in DOMAIN s[d].calls :
          s[c].calls[a].id = s[d].calls[b].id /\ s[c].calls[a].id # 0 => c = d /\ a = b
    BY <2>3 DEF CallsApart
  <2>5. /\ k \in DOMAIN s[i + e].calls /\ l \in DOMAIN s[j + e].calls
        /\ s[i + e].calls[k].id = s[j + e].calls[l].id /\ s[i + e].calls[k].id # 0
    BY <2>2
  <2>6. i + e = j + e /\ k = l
    BY <2>2, <2>4, <2>5
  <2> QED BY <1>3, <2>1, <2>6
<1>7. g[1].role = "user"
  <2>1. CASE first = 1
    BY <1>3, <1>4, <2>1 DEF IsCut
  <2>2. CASE first = 2
    BY <1>5, <2>2
  <2> QED BY <2>1, <2>2
<1>8. ASSUME NEW i \in 1..m
      PROVE  /\ Len(g[i].calls) # 0 => g[i].role = "assistant" /\ Len(g[i].results) = 0
             /\ Len(g[i].results) # 0 =>
                  g[i].role = "user" /\ (i # 1 => Fit(g[i - 1].calls, g[i].results))
  <2>1. CASE i = 1 /\ first = 2
    BY <1>5, <2>1
  <2>2. CASE i \in first..m
    <3>1. g[i] = s[i + e] /\ i + e \in DOMAIN s /\ (i # 1 => i + e # 1)
      BY <1>3, <1>4, <2>2
    <3>2. Len(g[i].calls) # 0 => g[i].role = "assistant" /\ Len(g[i].results) = 0
      BY <3>1 DEF WellFormed, Formed
    <3>3. Len(g[i].results) # 0 => g[i].role = "user"
      BY <3>1 DEF WellFormed, Formed
    <3>4. ASSUME Len(g[i].results) # 0, i # 1 PROVE Fit(g[i - 1].calls, g[i].results)
      <4>1. i - 1 \in first..m
        <5>1. ~(i = 2 /\ first = 2)
          BY <3>1, <3>3, <3>4 DEF IsCut
        <5> QED BY <1>3, <2>2, <3>4, <5>1
      <4>2. g[i - 1] = s[i + e - 1]
        BY <1>3, <1>4, <2>2, <4>1
      <4>3. Fit(s[i + e - 1].calls, s[i + e].results)
        <5>1. \A j \in DOMAIN s :
                Len(s[j].results) # 0 /\ j # 1 => Fit(s[j - 1].calls, s[j].results)
          BY DEF WellFormed, Formed
        <5> QED BY <3>1, <3>4, <5>1
      <4> QED BY <3>1, <4>2, <4>3
    <3> QED BY <3>2, <3>3, <3>4
  <2> QED BY <1>3, <2>1, <2>2
<1>9. WellFormed(g)
  BY <1>1, <1>6, <1>7, <1>8 DEF WellFormed, Formed, IsCut
<1>10. ASSUME Closed(s) PROVE Closed(g)
  <2> SUFFICES ASSUME NEW i \in 1..m, Len(g[i].calls) # 0 PROVE AnsweredNext(g, i)
    BY <1>1 DEF Closed
  <2>1. i \in first..m
    BY <1>3, <1>5
  <2>2. g[i] = s[i + e] /\ i + e \in DOMAIN s
    BY <1>3, <1>4, <2>1
  <2>3. i + e + 1 \in DOMAIN s /\ Len(s[i + e + 1].results) # 0
    BY <1>10, <2>2 DEF Closed, AnsweredNext
  <2>4. i + 1 \in 1..m /\ g[i + 1] = s[i + e + 1]
    BY <1>3, <1>4, <2>1, <2>3
  <2> QED BY <1>1, <2>3, <2>4 DEF AnsweredNext
<1>11. ASSUME NEW n, IdsUpTo(s, n) PROVE IdsUpTo(g, n)
  <2> SUFFICES ASSUME NEW i \in 1..m, NEW k \in DOMAIN g[i].calls PROVE g[i].calls[k].id <= n
    BY <1>1 DEF IdsUpTo
  <2>1. i \in first..m
    BY <1>3, <1>5
  <2>2. g[i] = s[i + e] /\ i + e \in DOMAIN s
    BY <1>3, <1>4, <2>1
  <2> QED BY <1>11, <2>2 DEF IdsUpTo
<1> QED BY <1>9, <1>10, <1>11

LEMMA TruncatedFormed ==
  ASSUME NEW s, WellFormed(s), Len(s) >= 2, NEW g, g = TruncateForRetry(s)
  PROVE  /\ WellFormed(g) /\ (Closed(s) => Closed(g))
         /\ \A n : IdsUpTo(s, n) => IdsUpTo(g, n)
<1> DEFINE drop == IF Len(s) \div 5 > 1 THEN Len(s) \div 5 ELSE 1
           rest == SubSeq(s, drop + 1, Len(s))
           n == Len(s)
<1>1. s \in Seq(Messages(Nat)) /\ n \in Nat
  BY DEF WellFormed, Formed
<1>2. drop \in Nat /\ drop >= 1 /\ drop + 1 \in 1..n
  BY <1>1
<1>3. g = IF rest[1].role = "user" THEN rest ELSE <<UserText>> \o rest
  BY DEF TruncateForRetry
<1> HIDE DEF drop
<1>4. /\ rest \in Seq(Messages(Nat)) /\ Len(rest) = n - drop
      /\ \A i \in 1..n - drop : rest[i] = s[i + drop]
  BY <1>1, <1>2
<1> HIDE DEF rest, n
<1>5. n - drop \in Nat /\ n - drop >= 1 /\ 1 \in 1..n - drop
  BY <1>1, <1>2
<1>6. rest[1] = s[1 + drop] /\ rest[1].role \in {"user", "assistant"}
  <2>1. rest[1] \in Messages(Nat)
    BY <1>4, <1>5
  <2> QED BY <1>4, <1>5, <2>1 DEF Messages
<1>7. CASE rest[1].role = "user"
  <2>1. g = rest
    BY <1>3, <1>7
  <2>2. Len(g) = Len(s) - drop /\ Len(g) >= 1 /\ \A i \in 1..Len(g) : g[i] = s[i + drop]
    BY <1>4, <1>5, <2>1 DEF n
  <2>3. s[1 + drop].role = "user" /\ g \in Seq(Messages(Nat)) /\ 1 \in {1, 2}
    BY <1>4, <1>6, <1>7, <2>1
  <2>4. IsCut(g, s, drop, 1)
    BY <2>2, <2>3 DEF IsCut
  <2> QED BY <1>2, <2>3, <2>4, CutFormed
<1>8. CASE rest[1].role # "user"
  <2>1. g = <<UserText>> \o rest
    BY <1>3, <1>8
  <2>2. UserText \in Messages(Nat)
    BY TextFits
  <2>3. /\ g \in Seq(Messages(Nat)) /\ Len(g) = n - drop + 1 /\ g[1] = UserText
        /\ \A i \in 1..n - drop : g[i + 1] = rest[i]
    BY <1>4, <1>5, <2>1, <2>2
  <2>4. \A i \in 2..n - drop + 1 :
          i - 1 \in 1..n - drop /\ (i - 1) + 1 = i /\ (i - 1) + drop = i + (drop - 1)
    BY <1>2, <1>5
  <2>5. \A i \in 2..n - drop + 1 : g[i] = s[i + (drop - 1)]
    BY <1>4, <2>3, <2>4
  <2>6. drop - 1 \in Nat /\ n - drop + 1 = n - (drop - 1) /\ n - drop + 1 >= 2 /\ 2 + (drop - 1) = 1 + drop
    BY <1>1, <1>2, <1>5
  <2>7. s[2 + (drop - 1)].role = "assistant"
    BY <1>6, <1>8, <2>6
  <2> DEFINE e == drop - 1
  <2>8. /\ e \in Nat /\ Len(g) = Len(s) - e /\ Len(g) >= 2 /\ \A i \in 2..Len(g) : g[i] = s[i + e]
        /\ s[2 + e].role = "assistant"
    BY <2>3, <2>5, <2>6, <2>7 DEF n
  <2> HIDE DEF e
  <2>9. IsCut(g, s, e, 2) /\ 2 \in {1, 2}
    BY <2>3, <2>8 DEF IsCut
  <2> QED BY <2>8, <2>9, CutFormed
<1> QED BY <1>7, <1>8

LEMMA OwnIds ==
  ASSUME NEW h, WellFormed(h)
  PROVE  Formed(HistoryIds(h) \cup {0}, h)
<1> DEFINE I == HistoryIds(h) \cup {0}
<1>1. Len(h) \in Nat /\ DOMAIN h = 1..Len(h) /\ \A i \in DOMAIN h : h[i] \in Messages(Nat)
  BY DEF WellFormed, Formed
<1>2. ASSUME NEW i \in DOMAIN h PROVE h[i] \in Messages(I)
  <2>1. Ids(h[i].calls) \subseteq I /\ Ids(h[i].results) \subseteq I
    BY DEF HistoryIds
  <2>2. h[i] \in [role : {"user", "assistant"}, calls : Seq(CallBlock), results : Seq(ResultBlock)]
    BY <1>1 DEF Messages
  <2> HIDE DEF I
  <2> QED BY <2>1, <2>2 DEF Messages
<1>3. 0 \in I
  OBVIOUS
<1> HIDE DEF I
<1>4. h = [i \in 1..Len(h) |-> h[i]]
  BY <1>1 DEF WellFormed, Formed
<1>5. h \in Seq(Messages(I))
  BY <1>1, <1>2, <1>4
<1>6. Formed(I, h)
  BY <1>3, <1>5 DEF WellFormed, Formed
<1> QED BY <1>6 DEF I

-----------------------------------------------------------------------------
(***************************************************************************)
(* The invariant: the three conversations are well formed, with ids up to  *)
(* the last one used, and unless a round was cut off and resumed, every    *)
(* round but the one in flight has its results.                            *)
(***************************************************************************)
Known(h, n) == WellFormed(h) /\ IdsUpTo(h, n)

Flow ==
  /\ phase \in {"head", "turn", "compact", "model", "tools"} => history # <<>>
  /\ phase = "tools" => Len(Last(history).calls) # 0
  /\ phase # "compact" => conv = <<>>

AnswersInv ==
  interrupted = {} =>
    Closed(conv) /\ (IF phase = "tools" THEN OpenAtEnd(history) ELSE Closed(history))

PairInv ==
  /\ Known(history, lastId) /\ Known(disk, lastId) /\ Known(conv, lastId)
  /\ Flow /\ AnswersInv

LEMMA LastIdCounts ==
  ASSUME TypeOK
  PROVE  lastId \in Nat /\ phase \in Phases
<1>1. \A n \in Nat : 0..n \subseteq Nat
  OBVIOUS
<1> QED BY <1>1, BoundsAssumption DEF TypeOK

LEMMA EmptyKnown ==
  ASSUME NEW n
  PROVE  Known(<<>>, n) /\ Closed(<<>>)
<1>1. DOMAIN <<>> = {} /\ <<>> \in Seq(Messages(Nat))
  OBVIOUS
<1> QED BY <1>1 DEF Known, WellFormed, Formed, CallsApart, IdsUpTo, Closed

LEMMA LaterKnown ==
  ASSUME NEW from \in Nat, NEW to \in Nat, from <= to, NEW h, Known(h, from)
  PROVE  Known(h, to)
<1>1. h \in Seq(Messages(Nat)) /\ DOMAIN h = 1..Len(h)
  BY DEF Known, WellFormed, Formed
<1>2. \A i \in DOMAIN h : h[i].calls \in Seq(CallBlock)
  BY <1>1 DEF Messages
<1>3. \A c \in CallBlock : c.id \in Nat
  BY DEF CallBlock
<1>4. \A i \in DOMAIN h : \A k \in DOMAIN h[i].calls : h[i].calls[k].id \in Nat
  BY <1>2, <1>3
<1>5. \A i \in DOMAIN h : \A k \in DOMAIN h[i].calls : h[i].calls[k].id <= from
  BY DEF Known, IdsUpTo
<1>6. \A a \in Nat : a <= from => a <= to
  OBVIOUS
<1>7. IdsUpTo(h, to)
  BY <1>4, <1>5, <1>6 DEF IdsUpTo
<1> QED BY <1>7 DEF Known

UpTo(m, n) == \A k \in DOMAIN m.calls : m.calls[k].id <= n

(* A message that fits, behind a conversation.                             *)
LEMMA FitKnown ==
  ASSUME NEW n \in Nat, NEW h, Known(h, n), NEW m, Fits(h, m), UpTo(m, n), NEW g, g = h \o <<m>>
  PROVE  /\ Known(g, n) /\ g # <<>> /\ Last(g) = m
         /\ Closed(h) => OpenAtEnd(g)
         /\ Closed(h) /\ Len(m.calls) = 0 => Closed(g)
         /\ OpenAtEnd(h) /\ Len(m.calls) = 0 /\ Len(m.results) # 0 => Closed(g)
<1>1. h \in Seq(Messages(Nat)) /\ m \in Messages(Nat)
  BY DEF Known, WellFormed, Formed, Fits
<1>2. g = Append(h, m)
  BY <1>1
<1>3. WellFormed(g) /\ g # <<>>
  BY <1>2, AppendFormed DEF Known
<1>4. \A a \in Nat : a <= n => a <= n
  OBVIOUS
<1>5. IdsUpTo(g, n)
  BY <1>1, <1>2, <1>4, AppendIdsUpTo DEF Known, UpTo
<1>6. Last(g) = m
  BY <1>1, <1>2, Grown DEF Last
<1> QED BY <1>1, <1>2, <1>3, <1>5, <1>6, AppendClosed DEF Known

LEMMA TextKnown ==
  ASSUME NEW n \in Nat, NEW h, Known(h, n), NEW m \in {UserText, AssistantText},
         h # <<>> \/ m = UserText, NEW g, g = h \o <<m>>
  PROVE  Known(g, n) /\ g # <<>> /\ (Closed(h) => Closed(g))
<1>1. Fits(h, m) /\ Len(m.calls) = 0 /\ m \in Messages(Nat)
  BY TextFits
<1>2. m.calls \in Seq(CallBlock)
  BY <1>1 DEF Messages
<1>3. UpTo(m, n)
  BY <1>1, <1>2 DEF UpTo
<1> QED BY <1>1, <1>3, FitKnown

LEMMA SummaryKnown ==
  ASSUME NEW n \in Nat
  PROVE  Known(<<UserText, UserText>>, n) /\ Closed(<<UserText, UserText>>)
<1>1. <<UserText>> = <<>> \o <<UserText>> /\ <<UserText, UserText>> = <<UserText>> \o <<UserText>>
  OBVIOUS
<1>2. Known(<<UserText>>, n) /\ Closed(<<UserText>>)
  BY <1>1, EmptyKnown, TextKnown
<1> QED BY <1>1, <1>2, TextKnown

(* The results of the last round, behind it.                               *)
Answered(h, order) == h \o <<Results(RoundResults(Last(h).calls, order))>>

LEMMA AnswersKnown ==
  ASSUME NEW n \in Nat, NEW h, Known(h, n), h # <<>>, Len(Last(h).calls) # 0,
         NEW order, order \in Orders(Last(h).calls)
  PROVE  /\ Known(Answered(h, order), n) /\ Answered(h, order) # <<>>
         /\ Closed(h) \/ OpenAtEnd(h) => Closed(Answered(h, order))
<1> DEFINE m == Results(RoundResults(Last(h).calls, order))
           g == Answered(h, order)
<1>1. Last(h).calls = h[Len(h)].calls
  BY DEF Last
<1>2. Fits(h, m) /\ Len(m.calls) = 0 /\ Len(m.results) # 0 /\ m \in Messages(Nat)
  BY <1>1, ResultsFit DEF Known
<1>3. g = h \o <<m>>
  BY DEF Answered
<1> HIDE DEF m, g
<1>4. m.calls \in Seq(CallBlock)
  BY <1>2 DEF Messages
<1>5. UpTo(m, n)
  BY <1>2, <1>4 DEF UpTo
<1>6. Closed(h) => OpenAtEnd(h)
  BY DEF Closed, OpenAtEnd
<1>7. Known(g, n) /\ g # <<>> /\ (Closed(h) \/ OpenAtEnd(h) => Closed(g))
  BY <1>2, <1>3, <1>5, <1>6, FitKnown
<1> QED BY <1>7 DEF g

-----------------------------------------------------------------------------
(* What is saved is known.                                                 *)
LEMMA SavedKnown ==
  ASSUME PairInv, lastId \in Nat, lastId' \in Nat, lastId <= lastId',
         Known(history', lastId'), SaveSession \/ NoSave
  PROVE  Known(disk', lastId')
<1>1. Known(disk, lastId')
  BY LaterKnown DEF PairInv
<1> QED BY <1>1 DEF SaveSession, NoSave

(* A step to where no calls are open and no autocompact is under way.      *)
LEMMA SettledPair ==
  ASSUME Known(history', lastId'), Known(disk', lastId'), conv' = <<>>,
         phase' \in {"idle", "head", "turn", "model", "down"},
         phase' \in {"head", "turn", "model"} => history' # <<>>,
         interrupted' = {} => Closed(history')
  PROVE  PairInv'
BY EmptyKnown DEF PairInv, Flow, AnswersInv

(* The same from such a state, with the conversation left alone.           *)
LEMMA QuietPair ==
  ASSUME PairInv, lastId \in Nat, UNCHANGED <<history, lastId, interrupted>>, phase # "tools",
         SaveSession \/ NoSave, conv' = <<>>,
         phase' \in {"idle", "head", "turn", "model", "down"},
         phase' \in {"head", "turn", "model"} => phase \in {"head", "turn", "model", "compact"}
  PROVE  PairInv'
<1>1. Known(history', lastId') /\ lastId <= lastId'
  BY DEF PairInv
<1>2. Known(disk', lastId')
  BY <1>1, SavedKnown
<1>3. interrupted' = {} => Closed(history')
  BY DEF PairInv, AnswersInv
<1>4. phase' \in {"head", "turn", "model"} => history' # <<>>
  BY DEF PairInv, Flow
<1> QED BY <1>1, <1>2, <1>3, <1>4, SettledPair

(* A text is pushed.                                                       *)
LEMMA TextPair ==
  ASSUME PairInv, lastId \in Nat, UNCHANGED <<lastId, interrupted>>, phase # "tools",
         NEW m \in {UserText, AssistantText}, history # <<>> \/ m = UserText,
         Push(<<m>>), conv' = <<>>, phase' \in {"idle", "head", "turn", "model", "down"}
  PROVE  PairInv'
<1>1. Known(history', lastId') /\ history' # <<>> /\ (Closed(history) => Closed(history'))
  BY TextKnown DEF PairInv, Push
<1>2. Known(disk', lastId')
  BY <1>1, SavedKnown DEF Push
<1>3. interrupted' = {} => Closed(history')
  BY <1>1 DEF PairInv, AnswersInv
<1> QED BY <1>1, <1>2, <1>3, SettledPair

(* An autocompact gets the conversation.                                   *)
LEMMA CompactPair ==
  ASSUME PairInv, lastId \in Nat, UNCHANGED <<history, lastId, interrupted>>, phase # "tools",
         SaveSession \/ NoSave, phase' = "compact", history # <<>>,
         \/ conv' = history
         \/ Len(conv) >= 2 /\ conv' = TruncateForRetry(conv)
  PROVE  PairInv'
<1>1. Known(history', lastId') /\ lastId <= lastId'
  BY DEF PairInv
<1>2. Known(disk', lastId')
  BY <1>1, SavedKnown
<1>3. Known(conv', lastId') /\ (interrupted' = {} => Closed(conv'))
  <2>1. CASE conv' = history
    BY <1>1, <2>1 DEF PairInv, AnswersInv
  <2>2. CASE Len(conv) >= 2 /\ conv' = TruncateForRetry(conv)
    <3>1. Known(conv, lastId) /\ (interrupted = {} => Closed(conv))
      BY DEF PairInv, AnswersInv
    <3>2. /\ WellFormed(conv') /\ (Closed(conv) => Closed(conv'))
          /\ \A n : IdsUpTo(conv, n) => IdsUpTo(conv', n)
      BY <2>2, <3>1, TruncatedFormed DEF Known
    <3> QED BY <3>1, <3>2 DEF Known
  <2> QED BY <2>1, <2>2
<1> QED BY <1>1, <1>2, <1>3 DEF PairInv, Flow, AnswersInv

LEMMA RoundPair ==
  ASSUME PairInv, lastId \in Nat, NEW shapes \in Rounds, ToolRound(shapes)
  PROVE  PairInv'
<1> DEFINE m == Calls(RoundCalls(shapes))
<1>1. history # <<>> /\ WellFormed(history) /\ IdsUpTo(history, lastId) /\ phase = "model"
  BY DEF ToolRound, PairInv, Known, Flow
<1>2. /\ Fits(history, m) /\ Len(m.calls) # 0 /\ m \in Messages(Nat)
      /\ lastId + Len(shapes) \in Nat
      /\ \A a \in Nat : a <= lastId => a <= lastId + Len(shapes)
      /\ \A k \in DOMAIN m.calls : m.calls[k].id <= lastId + Len(shapes)
  BY <1>1, RoundFits
<1>3. history' = history \o <<m>> /\ SaveSession
  BY DEF ToolRound, Push
<1>4. lastId' = lastId + Len(shapes) /\ phase' = "tools" /\ UNCHANGED <<conv, interrupted>>
  BY DEF ToolRound
<1> HIDE DEF m
<1>5. lastId' \in Nat /\ lastId <= lastId' /\ UpTo(m, lastId')
  BY <1>2, <1>4 DEF UpTo
<1>6. /\ Known(history', lastId') /\ history' # <<>> /\ Last(history') = m
      /\ Closed(history) => OpenAtEnd(history')
  <2>1. Known(history, lastId')
    BY <1>5, LaterKnown DEF PairInv
  <2> QED BY <1>2, <1>3, <1>5, <2>1, FitKnown
<1>7. Known(disk', lastId')
  BY <1>3, <1>5, <1>6, SavedKnown
<1>8. Known(conv', lastId') /\ conv' = <<>>
  BY <1>1, <1>4, EmptyKnown DEF PairInv, Flow
<1>9. AnswersInv'
  BY <1>1, <1>4, <1>6 DEF PairInv, AnswersInv
<1> QED BY <1>2, <1>4, <1>6, <1>7, <1>8, <1>9 DEF PairInv, Flow

(* The results of the round in flight, and what the tools add.             *)
LEMMA DonePair ==
  ASSUME PairInv, lastId \in Nat, NEW order, NEW follow \in BOOLEAN, ToolsDone(order, follow)
  PROVE  PairInv'
<1> DEFINE results_ == <<Results(RoundResults(Last(history).calls, order))>>
           g == Answered(history, order)
<1>1. /\ phase = "tools" /\ order \in Orders(Last(history).calls) /\ history # <<>>
      /\ Len(Last(history).calls) # 0 /\ Known(history, lastId)
      /\ interrupted = {} => OpenAtEnd(history)
  BY DEF ToolsDone, PairInv, Flow, AnswersInv
<1>2. Known(g, lastId) /\ g # <<>> /\ (Closed(history) \/ OpenAtEnd(history) => Closed(g))
  BY <1>1, AnswersKnown
<1>3. history' = history \o (results_ \o (IF follow THEN <<UserText>> ELSE <<>>)) /\ SaveSession
  BY DEF ToolsDone, Push
<1>4. /\ UNCHANGED <<lastId, interrupted>> /\ conv' = <<>>
      /\ phase' \in {"head", "turn", "idle"}
  BY <1>1 DEF ToolsDone, Goto, Finalize, Return, staticVars, boundVars, PairInv, Flow
<1>5. g = history \o results_
  BY DEF Answered
<1>6. \E S : history \in Seq(S) /\ results_ \in Seq(S) /\ <<UserText>> \in Seq(S)
  <2> DEFINE S == Messages(Nat) \cup {results_[1], UserText}
  <2>1. history \in Seq(Messages(Nat))
    BY <1>1 DEF Known, WellFormed, Formed
  <2>2. Len(history) \in Nat /\ DOMAIN history = 1..Len(history)
        /\ \A i \in 1..Len(history) : history[i] \in Messages(Nat)
    BY <2>1
  <2>3. history = [i \in 1..Len(history) |-> history[i]]
    BY <2>1
  <2>4. history \in Seq(S)
    BY <2>2, <2>3
  <2>5. results_ \in Seq(S) /\ <<UserText>> \in Seq(S)
    OBVIOUS
  <2> QED BY <2>4, <2>5
<1>7. IF follow THEN history' = g \o <<UserText>> ELSE history' = g
  BY <1>3, <1>5, <1>6
<1> HIDE DEF g, results_
<1>8. Known(history', lastId) /\ history' # <<>> /\ (Closed(g) => Closed(history'))
  BY <1>2, <1>7, TextKnown
<1>9. Known(disk', lastId')
  BY <1>3, <1>4, <1>8, SavedKnown
<1>10. interrupted' = {} => Closed(history')
  BY <1>1, <1>2, <1>4, <1>8
<1> QED BY <1>4, <1>8, <1>9, <1>10, SettledPair

LEMMA AbortPair ==
  ASSUME PairInv, lastId \in Nat, HostAborts
  PROVE  PairInv'
<1>1. /\ phase' = "idle" /\ conv' = <<>> /\ UNCHANGED <<lastId, interrupted>>
  BY DEF HostAborts, Return, staticVars, boundVars
<1>2. CASE history # <<>> /\ Last(history).calls # <<>>
  <2> DEFINE order == [i \in DOMAIN Last(history).calls |-> i]
  <2>1. order \in Orders(Last(history).calls)
    BY SameOrder
  <2>2. history' = Answered(history, order) /\ SaveSession
    BY <1>2 DEF HostAborts, Push, Answered
  <2> HIDE DEF order
  <2>3. Len(Last(history).calls) # 0
    <3>1. Last(history) \in Messages(Nat)
      BY <1>2 DEF PairInv, Known, WellFormed, Formed, Last
    <3>2. Last(history).calls \in Seq(CallBlock)
      BY <3>1 DEF Messages
    <3> QED BY <1>2, <3>2
  <2>4. /\ Known(history', lastId) /\ history' # <<>>
        /\ (Closed(history) \/ OpenAtEnd(history) => Closed(history'))
    BY <1>2, <2>1, <2>2, <2>3, AnswersKnown DEF PairInv
  <2>5. Known(disk', lastId')
    BY <1>1, <2>2, <2>4, SavedKnown
  <2>6. interrupted' = {} => Closed(history')
    BY <1>1, <2>4 DEF PairInv, AnswersInv
  <2> QED BY <1>1, <2>4, <2>5, <2>6, SettledPair
<1>3. CASE ~(history # <<>> /\ Last(history).calls # <<>>)
  <2>1. UNCHANGED history /\ NoSave
    BY <1>3 DEF HostAborts
  <2>2. phase # "tools"
    <3>1. ASSUME phase = "tools" PROVE FALSE
      <4>1. history # <<>> /\ Len(Last(history).calls) # 0
        BY <3>1 DEF PairInv, Flow
      <4>2. Last(history).calls = <<>>
        BY <1>3, <4>1
      <4>3. Len(<<>>) = 0
        OBVIOUS
      <4> QED BY <4>1, <4>2, <4>3
    <3> QED BY <3>1
  <2> QED BY <1>1, <2>1, <2>2, QuietPair
<1> QED BY <1>2, <1>3

(* A resume takes back what was saved, whose open calls, if any, are the   *)
(* interrupted ones.                                                       *)
LEMMA ResumedPair ==
  ASSUME PairInv, Resume
  PROVE  PairInv'
<1>1. /\ history' = disk /\ disk' = disk /\ conv' = <<>> /\ lastId' = lastId /\ phase' = "idle"
      /\ interrupted' = UNION {Ids(disk[i].calls) :
           i \in {j \in DOMAIN disk : j = Len(disk) \/ disk[j + 1].results = <<>>}}
  BY DEF Resume, runVars, boundVars, PairInv, Flow
<1>2. Known(disk, lastId)
  BY DEF PairInv
<1>3. ASSUME interrupted' = {} PROVE Closed(disk)
  <2>1. disk \in Seq(Messages(Nat)) /\ Len(disk) \in Nat /\ DOMAIN disk = 1..Len(disk)
    BY <1>2 DEF Known, WellFormed, Formed
  <2> SUFFICES ASSUME NEW i \in DOMAIN disk, Len(disk[i].calls) # 0 PROVE AnsweredNext(disk, i)
    BY DEF Closed
  <2>2. disk[i].calls \in Seq(CallBlock)
    BY <2>1 DEF Messages
  <2>3. 1 \in DOMAIN disk[i].calls
    BY <2>2
  <2>4. disk[i].calls[1].id \in Ids(disk[i].calls)
    BY <2>3 DEF Ids
  <2>5. ~(i = Len(disk) \/ disk[i + 1].results = <<>>)
    BY <1>1, <1>3, <2>4
  <2>6. i + 1 \in DOMAIN disk
    BY <2>1, <2>5
  <2>7. disk[i + 1].results \in Seq(ResultBlock)
    BY <2>1, <2>6 DEF Messages
  <2>8. Len(disk[i + 1].results) # 0
    BY <2>5, <2>7
  <2> QED BY <2>6, <2>8 DEF AnsweredNext
<1> QED BY <1>1, <1>2, <1>3, SettledPair

LEMMA SummaryPair ==
  ASSUME PairInv, lastId \in Nat, AutocompactSucceeds
  PROVE  PairInv'
<1>1. /\ history' = <<UserText, UserText>> /\ SaveSession /\ UNCHANGED lastId
      /\ conv' = <<>> /\ phase' \in {"model", "idle"}
  BY DEF AutocompactSucceeds, Return, boundVars
<1>2. Known(history', lastId') /\ Closed(history') /\ history' # <<>> /\ lastId <= lastId'
  <2>1. <<UserText, UserText>> # <<>>
    OBVIOUS
  <2> QED BY <1>1, <2>1, SummaryKnown
<1>3. Known(disk', lastId')
  BY <1>1, <1>2, SavedKnown
<1> QED BY <1>1, <1>2, <1>3, SettledPair

-----------------------------------------------------------------------------
LEMMA PairInvStep ==
  ASSUME PairInv, TypeOK, [Next]_vars
  PROVE  PairInv'
<1>1. lastId \in Nat /\ phase \in Phases
  BY LastIdCounts
<1>2. phase # "compact" => conv = <<>>
  BY DEF PairInv, Flow
<1>3. CASE UNCHANGED vars
  BY <1>3 DEF vars, runVars, staticVars, boundVars, PairInv, Flow, AnswersInv
<1>4. CASE Submit
  BY <1>1, <1>2, <1>4, TextPair DEF Submit
<1>5. CASE ClearCommand
  <2>1. /\ history' = <<>> /\ SaveSession /\ UNCHANGED <<phase, conv, lastId>> /\ phase = "idle"
    BY <1>5 DEF ClearCommand
  <2>2. Known(history', lastId') /\ Closed(history') /\ lastId <= lastId'
    BY <1>1, <2>1, EmptyKnown
  <2>3. Known(disk', lastId')
    BY <1>1, <2>1, <2>2, SavedKnown
  <2> QED BY <1>2, <2>1, <2>2, <2>3, SettledPair
<1>6. CASE CompactCommand
  <2>1. history # <<>>
    <3>1. Len(<<>>) = 0
      OBVIOUS
    <3> QED BY <1>6, <3>1 DEF CompactCommand
  <2> QED BY <1>1, <1>6, <2>1, CompactPair DEF CompactCommand
<1>7. CASE RunSteps
  <2>1. CASE BudgetStop \/ StartTurn \/ ModelFails \/ EmptyAnswer
    BY <1>1, <1>2, <2>1, QuietPair
       DEF BudgetStop, StartTurn, ModelFails, EmptyAnswer, Return, Goto, Finalize, staticVars, boundVars
  <2>2. ASSUME NEW micro \in BOOLEAN, NoAutocompact(micro) PROVE PairInv'
    <3>1. SaveSession \/ NoSave
      BY <2>2 DEF NoAutocompact, Microcompact
    <3> QED BY <1>1, <1>2, <2>2, <3>1, QuietPair
            DEF NoAutocompact, Microcompact, Return, staticVars, boundVars
  <2>3. ASSUME NEW micro \in BOOLEAN, StartAutocompact(micro) PROVE PairInv'
    <3>1. SaveSession \/ NoSave
      BY <2>3 DEF StartAutocompact, Microcompact
    <3>2. history # <<>>
      BY <2>3 DEF StartAutocompact, PairInv, Flow
    <3> QED BY <1>1, <2>3, <3>1, <3>2, CompactPair
            DEF StartAutocompact, Microcompact, staticVars, boundVars
  <2>4. CASE AutocompactTooLong
    <3>1. history # <<>>
      BY <2>4 DEF AutocompactTooLong, PairInv, Flow
    <3> QED BY <1>1, <2>4, <3>1, CompactPair DEF AutocompactTooLong, staticVars, boundVars
  <2>5. CASE AutocompactFails
    BY <1>1, <2>5, QuietPair DEF AutocompactFails, Return, staticVars, boundVars
  <2>6. CASE AutocompactSucceeds
    BY <1>1, <2>6, SummaryPair
  <2>7. CASE FinalAnswer \/ TruncatedAnswer \/ Finalization
    <3>1. history # <<>> /\ conv = <<>>
      BY <2>7 DEF FinalAnswer, TruncatedAnswer, Finalization, PairInv, Flow
    <3> QED BY <1>1, <2>7, <3>1, TextPair
            DEF FinalAnswer, TruncatedAnswer, Finalization, Return, Finalize, staticVars, boundVars
  <2>8. ASSUME NEW shapes \in Rounds, ToolRound(shapes) PROVE PairInv'
    BY <1>1, <2>8, RoundPair
  <2>9. ASSUME NEW order, NEW follow \in BOOLEAN, ToolsDone(order, follow) PROVE PairInv'
    BY <1>1, <2>9, DonePair
  <2> QED BY <1>7, <2>1, <2>2, <2>3, <2>4, <2>5, <2>6, <2>7, <2>8, <2>9 DEF RunSteps
<1>8. CASE HostAborts
  BY <1>1, <1>8, AbortPair
<1>9. CASE ToolsQuit \/ Crash
  <2>1. /\ history' = <<>> /\ conv' = <<>> /\ phase' = "down" /\ disk' \in {disk, history}
        /\ UNCHANGED lastId
    BY <1>9 DEF ToolsQuit, Crash
  <2>2. Known(disk', lastId')
    BY <2>1 DEF PairInv
  <2> QED BY <2>1, <2>2, EmptyKnown, SettledPair
<1>10. CASE Resume
  BY <1>10, ResumedPair
<1> QED BY <1>3, <1>4, <1>5, <1>6, <1>7, <1>8, <1>9, <1>10 DEF Next

(* The request in flight is a conversation of which every round has its    *)
(* results, whether it is the history, or the history or a truncated       *)
(* conversation with a prompt behind it.                                   *)
LEMMA RequestKnown ==
  ASSUME PairInv, TypeOK, InFlight, interrupted = {}
  PROVE  WellFormed(Request) /\ Closed(Request)
<1>1. lastId \in Nat
  BY LastIdCounts
<1>2. /\ Known(history, lastId) /\ Known(conv, lastId) /\ Closed(conv) /\ Closed(history)
  BY DEF PairInv, AnswersInv, InFlight
<1>3. Request \in {conv \o <<UserText>>, history \o <<UserText>>, history}
  BY DEF Request
<1>4. /\ Known(conv \o <<UserText>>, lastId) /\ Closed(conv \o <<UserText>>)
      /\ Known(history \o <<UserText>>, lastId) /\ Closed(history \o <<UserText>>)
  BY <1>1, <1>2, TextKnown
<1> QED BY <1>2, <1>3, <1>4 DEF Known

(* Whatever rounds were malformed, dropped, aborted or compacted away, as  *)
(* long as none was cut off by a crash and resumed, each request to an     *)
(* Anthropic provider answers every tool use in the next message, once,    *)
(* with unique ids and alternating roles (anthropic_shared.rs); where      *)
(* several calls lack an id, as long as the clock their ids are made from  *)
(* moves on.                                                               *)
THEOREM AnthropicPairs == Spec => []AnthropicRequestsPaired
<1>1. Init => PairInv
  <2> SUFFICES ASSUME Init PROVE PairInv
    OBVIOUS
  <2> QED BY EmptyKnown DEF Init, PairInv, Flow, AnswersInv
<1>2. PairInv /\ TypeOK /\ [Next]_vars => PairInv'
  BY PairInvStep
<1>3. PairInv /\ TypeOK => AnthropicRequestsPaired
  <2> SUFFICES ASSUME PairInv, TypeOK, InFlight, interrupted = {}, NEW tick \in {0, 1},
                      tick = 1 \/ OneIdless(Request)
               PROVE  AnthropicPaired(AnthropicRequest(Request, tick))
    BY DEF AnthropicRequestsPaired
  <2>1. WellFormed(Request) /\ Closed(Request)
    BY RequestKnown
  <2> QED BY <2>1, OwnIds, ConversationsPair
<1> QED BY <1>1, <1>2, <1>3, RunTypeCorrect, PTL DEF Spec
=============================================================================
