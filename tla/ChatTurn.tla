------------------------------- MODULE ChatTurn -------------------------------
(***************************************************************************)
(* A turn of the Copilot chat: startChatTurn and processChatTurn of        *)
(* chat/engine.ts with executeChatTool of chat/tools.ts, from await to     *)
(* await, on the events of RunEvents.  The model's answers, the market     *)
(* briefing, memory and the MCP connection are outside: any outcome.  Of   *)
(* the tools two kinds are told apart: those that ask the user and those   *)
(* that put a widget on the board while they work.                         *)
(***************************************************************************)
EXTENDS RunEvents

CONSTANTS ChatRuns,     \* the runs that are chat turns
          MaxRounds,    \* chatMaxToolRounds
          CallLists,    \* the lists of tool calls a model may answer with
          MaxDbErrors   \* bound: statements that fail

ASSUME ChatAssumption == /\ ChatRuns \subseteq Runs
                         /\ MaxRounds \in Nat \ {0}
                         /\ CallLists \subseteq Seq({"ask", "board"}) \ {<<>>}

VARIABLES turn,      \* where the turn of each run stands
          thread,    \* agent_messages of the thread
          dbErrors

turnVars == <<turn, thread, dbErrors>>

NoTurn == [pc |-> "none", round |-> 0, tools |-> FALSE, calls |-> <<>>,
           asked |-> FALSE, outcome |-> "completed"]

TurnInit == /\ turn = [r \in ChatRuns |-> NoTurn]
            /\ thread = <<>>
            /\ dbErrors = 0

InTry == {"prepare", "direct", "directStep", "llm", "billed", "toolStep", "say", "finish"}
Ended == {"none", "ended", "dead"}

TurnTo(r, pc) == turn' = [turn EXCEPT ![r].pc = pc]
Quiet == UNCHANGED <<busVars, rows, stream, heard, lost>>

(* startChatTurn: the message is stored, then the run; the turn itself begins when *)
(* the request is done.                                                            *)
AcceptMessage(r) ==
    /\ status[r] = "none"
    /\ thread' = Append(thread, [role |-> "user", run |-> r])
    /\ \/ status' = [status EXCEPT ![r] = "running"] /\ TurnTo(r, "begin") /\ UNCHANGED dbErrors
       \/ /\ dbErrors < MaxDbErrors /\ dbErrors' = dbErrors + 1
          /\ UNCHANGED <<status, turn>>
    /\ Quiet

Begin(r) ==
    /\ turn[r].pc = "begin"
    /\ Publish(r, <<"run.started">>)
    /\ TurnTo(r, "prepare")
    /\ UNCHANGED <<status, thread, dbErrors>>

(* Preferences, provider, history, briefing, recall, MCP: with or without tools, and *)
(* straight to reason_portfolio when the message is the answer to the intake.        *)
Prepare(r) ==
    /\ turn[r].pc = "prepare"
    /\ \E tools, submitted \in BOOLEAN, notes \in {<<>>, <<"run.step">>} :
         /\ Publish(r, notes \o <<"run.step">>)
         /\ turn' = [turn EXCEPT ![r].tools = tools,
                                 ![r].pc = IF tools /\ submitted THEN "direct" ELSE "llm"]
    /\ UNCHANGED <<status, thread, dbErrors>>

Direct(r) ==
    /\ turn[r].pc = "direct"
    /\ \E outcome \in {"completed", "error"} :
         turn' = [turn EXCEPT ![r].pc = "directStep", ![r].outcome = outcome]
    /\ UNCHANGED <<status, thread, dbErrors>> /\ Quiet

DirectStep(r) ==
    /\ turn[r].pc = "directStep"
    /\ Publish(r, <<"run.step">>)
    /\ TurnTo(r, "say")
    /\ UNCHANGED <<status, thread, dbErrors>>

(* llmGateway.complete answers; the last round offers no tools. *)
Answer(r) ==
    /\ turn[r].pc = "llm"
    /\ \E calls \in {<<>>} \union (IF turn[r].tools /\ turn[r].round < MaxRounds - 1
                                   THEN CallLists ELSE {}) :
         turn' = [turn EXCEPT ![r].pc = "billed", ![r].calls = calls]
    /\ UNCHANGED <<status, thread, dbErrors>> /\ Quiet

(* What a tool call publishes before its first await. *)
Opens(call) == <<"run.step">> \o (IF call = "ask" THEN <<"question">> ELSE <<"widget">>)

(* The step of the model call is stored, and its first tool call, if any, begins. *)
Billed(r) ==
    LET calls == turn[r].calls IN
    /\ turn[r].pc = "billed"
    /\ Publish(r, <<"cost">> \o (IF calls = <<>> THEN <<>> ELSE Opens(Head(calls))))
    /\ TurnTo(r, IF calls = <<>> THEN "say" ELSE "tool")
    /\ UNCHANGED <<status, thread, dbErrors>>

(* executeChatTool, which turns an exception into a result. *)
ToolReturns(r) ==
    /\ turn[r].pc = "tool"
    /\ \/ Head(turn[r].calls) = "board" /\ Publish(r, <<"widget">>)
       \/ Publish(r, <<>>)
    /\ turn' = [turn EXCEPT ![r].pc = "toolStep",
                            ![r].asked = @ \/ Head(turn[r].calls) = "ask"]
    /\ UNCHANGED <<status, thread, dbErrors>>

ToolStep(r) ==
    LET t == turn[r]
        more == Tail(t.calls)
        again == more = <<>> /\ ~ t.asked /\ t.round + 1 < MaxRounds
    IN /\ t.pc = "toolStep"
       /\ Publish(r, <<"run.step">> \o (IF more # <<>> THEN Opens(Head(more))
                                        ELSE IF again THEN <<"run.step">> ELSE <<>>))
       /\ turn' = [turn EXCEPT ![r].calls = more,
                               ![r].round = IF again THEN @ + 1 ELSE @,
                               ![r].pc = IF more # <<>> THEN "tool"
                                         ELSE IF again THEN "llm" ELSE "say"]
       /\ UNCHANGED <<status, thread, dbErrors>>

Say(r) ==
    /\ turn[r].pc = "say"
    /\ thread' = Append(thread, [role |-> "assistant", run |-> r])
    /\ TurnTo(r, "finish")
    /\ UNCHANGED <<status, dbErrors>> /\ Quiet

(* finishRun of the turn that went well. *)
Finish(r) ==
    /\ turn[r].pc = "finish"
    /\ status' = [status EXCEPT ![r] = turn[r].outcome]
    /\ TurnTo(r, "tell")
    /\ UNCHANGED <<thread, dbErrors>> /\ Quiet

(* The model call or the preparation throws; a statement fails. *)
Throws(r) ==
    /\ turn[r].pc \in InTry
    /\ \/ turn[r].pc \in {"prepare", "llm"} /\ UNCHANGED dbErrors
       \/ dbErrors < MaxDbErrors /\ dbErrors' = dbErrors + 1
    /\ TurnTo(r, "failStep")
    /\ UNCHANGED <<status, thread>> /\ Quiet

(* The catch: its two statements may fail too, the event is published anyway. *)
FailStep(r) ==
    /\ turn[r].pc = "failStep"
    /\ TurnTo(r, "failFinish")
    /\ UNCHANGED <<status, thread, dbErrors>> /\ Quiet

\* Mutation: a statement of the catch that fails ends the turn there.
FailFinishThrows(r) ==
    /\ turn[r].pc = "failFinish"
    /\ \/ status' = [status EXCEPT ![r] = "error"] /\ TurnTo(r, "failTell") /\ UNCHANGED dbErrors
       \/ /\ dbErrors < MaxDbErrors /\ dbErrors' = dbErrors + 1
          /\ TurnTo(r, "ended") /\ UNCHANGED status
    /\ UNCHANGED thread /\ Quiet

FailFinish(r) ==
    /\ turn[r].pc = "failFinish"
    /\ \/ status' = [status EXCEPT ![r] = "error"] /\ UNCHANGED dbErrors
       \/ /\ dbErrors < MaxDbErrors /\ dbErrors' = dbErrors + 1
          /\ UNCHANGED status
    /\ TurnTo(r, "failTell")
    /\ UNCHANGED thread /\ Quiet

\* Mutation: finishRun is not awaited, and the page is told first.
TellFirst(r) ==
    /\ turn[r].pc \in {"finish", "tell", "failTell"}
    /\ Publish(r, IF turn[r].pc = "failTell" THEN <<"run.error">> ELSE <<"message", "run.done">>)
    /\ TurnTo(r, "ended")
    /\ UNCHANGED <<status, thread, dbErrors>>

(* The row is written: the answer and the end of the stream, or the error. *)
Tell(r) ==
    /\ turn[r].pc \in {"tell", "failTell"}
    /\ Publish(r, IF turn[r].pc = "tell" THEN <<"message", "run.done">> ELSE <<"run.error">>)
    /\ TurnTo(r, "ended")
    /\ UNCHANGED <<status, thread, dbErrors>>

TurnStep(r) ==
    \/ Begin(r) \/ Prepare(r) \/ Direct(r) \/ DirectStep(r) \/ Answer(r) \/ Billed(r)
    \/ ToolReturns(r) \/ ToolStep(r) \/ Say(r) \/ Finish(r) \/ FailStep(r) \/ FailFinish(r)
    \/ Tell(r)

TurnsDie == /\ turn' = [r \in ChatRuns |-> IF turn[r].pc \in Ended THEN turn[r]
                                           ELSE [turn[r] EXCEPT !.pc = "dead"]]
            /\ UNCHANGED <<thread, dbErrors>>
=============================================================================
