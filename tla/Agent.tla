-------------------------------- MODULE Agent --------------------------------
(***************************************************************************)
(* The conversational agent: Agent.run of src/agent/agent.py, driven by    *)
(* the page src/dashboard/pages/5_Agent.py, which keeps the conversation,  *)
(* the chat log and the alert drafts in its session.                       *)
(*                                                                         *)
(* A message is its kind: what the analyst asks, what the model says, a    *)
(* call of tools, their results, and the note that the page appends when   *)
(* an alert was sent.  An alert draft is its place in alert_drafts.        *)
(* Streamlit may stop the page's script at any of its calls, when the      *)
(* analyst clicks elsewhere; the script then starts again from the top.    *)
(***************************************************************************)
EXTENDS Naturals, Sequences, FiniteSets

CONSTANTS
    MAX_HISTORY_ROUNDS,
    MaxIterations,      \* settings.agent_max_iterations
    SQL_FAILURE_LIMIT,
    MaxBlocks,          \* bound: tools called by one answer of the model
    MaxMessages,        \* bound: messages in a conversation that goes on
    MaxTurns            \* bound: turns in the chat log

ASSUME AgentAssumption ==
    /\ MAX_HISTORY_ROUNDS \in Nat \ {0}
    /\ MaxIterations \in Nat \ {0}
    /\ SQL_FAILURE_LIMIT \in Nat \ {0}
    /\ {MaxBlocks, MaxMessages, MaxTurns} \subseteq Nat

VARIABLES
    pc,             \* where the page's script is
    history,        \* session_state.agent_messages
    chat,           \* session_state.agent_chat_log: the role of each entry
    drafts,         \* session_state.alert_drafts
    msgs,           \* run's msgs
    iteration,
    blocks,         \* tool_use blocks of the answer not yet dispatched
    sqlFailures,
    preview,        \* pending_preview is set
    calls,          \* the page's tool_calls of this turn
    outcomes,       \* history: the tools dispatched in this turn that returned
    posting,        \* the draft being posted
    disturbed,      \* history: a turn ran out of iterations or a note was added
    approved,       \* history: drafts approved
    delivered       \* history: drafts the SAP endpoint accepted

turnVars == <<msgs, iteration, blocks, sqlFailures, preview, calls, outcomes>>
alertVars == <<posting, approved, delivered>>
agentVars == <<pc, history, chat, drafts, turnVars, alertVars, disturbed>>

Tools == {"run_custom_query", "submit_alert", "other"}
Kinds == {"ask", "say", "call", "results", "note"}

NoTurn ==
    /\ msgs' = << >>
    /\ iteration' = 0
    /\ blocks' = << >>
    /\ sqlFailures' = 0
    /\ preview' = FALSE
    /\ calls' = << >>
    /\ outcomes' = << >>

Init ==
    /\ pc = "ready"
    /\ history = << >>
    /\ chat = << >>
    /\ drafts = << >>
    /\ msgs = << >>
    /\ iteration = 0
    /\ blocks = << >>
    /\ sqlFailures = 0
    /\ preview = FALSE
    /\ calls = << >>
    /\ outcomes = << >>
    /\ posting = 0
    /\ disturbed = FALSE
    /\ approved = {}
    /\ delivered = {}

-----------------------------------------------------------------------------
(* What is sent to the model.                                              *)

\* Mutant: an odd number of messages is kept.
TrimmedOdd(m) ==
    LET cap == 2 * MAX_HISTORY_ROUNDS - 1
    IN  SubSeq(m, IF Len(m) <= cap THEN 1 ELSE Len(m) - cap + 1, Len(m))

\* trim_history; compact_old_observations shortens contents, never the list.
Trimmed(m) ==
    LET cap == 2 * MAX_HISTORY_ROUNDS
    IN  SubSeq(m, IF Len(m) <= cap THEN 1 ELSE Len(m) - cap + 1, Len(m))

\* What the messages API requires: tool results follow the call they answer, and
\* every call is answered.
Paired(m) ==
    \A i \in 1 .. Len(m) :
        /\ m[i] = "results" => i > 1 /\ m[i - 1] = "call"
        /\ m[i] = "call" => i < Len(m) /\ m[i + 1] = "results"

-----------------------------------------------------------------------------
(* A turn of the page.                                                     *)

\* Mutant: pending drafts stay.
KeptDrafts(ds) == ds

\* "Any pending draft the analyst didn't act on is now obsolete."
ObsoleteDrafts(ds) ==
    [d \in DOMAIN ds |-> IF ds[d].status = "pending"
                         THEN [ds[d] EXCEPT !.status = "dropped"]
                         ELSE ds[d]]

\* _submit_user_turn up to the first answer of the model.
SubmitUserTurn ==
    /\ pc = "ready"
    /\ Len(history) < MaxMessages
    /\ Len(chat) < 2 * MaxTurns
    /\ drafts' = ObsoleteDrafts(drafts)
    /\ chat' = Append(chat, "user")
    /\ msgs' = Append(history, "ask")
    /\ pc' = "asking"
    /\ UNCHANGED <<history, iteration, blocks, sqlFailures, preview, calls, outcomes,
                   alertVars, disturbed>>

\* The turn ends: its entry goes to the chat log, and the preview it carries
\* becomes the pending draft.
FinishTurn(draft) ==
    /\ pc' = "ready"
    /\ chat' = Append(chat, "assistant")
    /\ drafts' = IF draft
                 THEN Append(drafts, [source |-> Len(chat) + 1, status |-> "pending"])
                 ELSE drafts
    /\ NoTurn

\* messages.create raises, as it does on a request that is not paired, or the
\* stream raises into the page: the conversation is left as it was.
ApiFails ==
    /\ pc = "asking"
    /\ FinishTurn(FALSE)
    /\ UNCHANGED <<history, alertVars, disturbed>>

\* The answer calls no tool.
ApiSays ==
    /\ pc = "asking"
    /\ Paired(Trimmed(msgs))
    /\ history' = Append(msgs, "say")
    /\ FinishTurn(preview)
    /\ UNCHANGED <<alertVars, disturbed>>

ApiCalls(tools) ==
    /\ pc = "asking"
    /\ Paired(Trimmed(msgs))
    /\ msgs' = Append(msgs, "call")
    /\ blocks' = tools
    /\ pc' = "dispatch"
    /\ UNCHANGED <<history, chat, drafts, iteration, sqlFailures, preview, calls,
                   outcomes, alertVars, disturbed>>

-----------------------------------------------------------------------------
(* The tools of one answer.                                                *)

\* Mutant: one failure more before the breaker opens.
TrippedLate == sqlFailures > SQL_FAILURE_LIMIT

Tripped == sqlFailures >= SQL_FAILURE_LIMIT

\* The page's reaction to tool_failed: the last entry if it has the tool's name,
\* an entry of its own otherwise.
ShowFailed(tool, why) ==
    IF calls # << >> /\ calls[Len(calls)].tool = tool
    THEN [calls EXCEPT ![Len(calls)].result = why]
    ELSE Append(calls, [tool |-> tool, started |-> FALSE, result |-> why])

\* Mutant: an entry of the same tool is reused for the call that starts.
ShowStartedOnce(tool) ==
    IF calls # << >> /\ calls[Len(calls)].tool = tool
    THEN calls
    ELSE Append(calls, [tool |-> tool, started |-> TRUE, result |-> "ok"])

\* tool_started: a new entry, ok until it fails.
ShowStarted(tool) ==
    Append(calls, [tool |-> tool, started |-> TRUE, result |-> "ok"])

StartTool ==
    /\ pc = "dispatch"
    /\ blocks # << >>
    /\ ~(Tripped /\ Head(blocks) = "run_custom_query")
    /\ calls' = ShowStarted(Head(blocks))
    /\ pc' = "tool"
    /\ UNCHANGED <<history, chat, drafts, msgs, iteration, blocks, sqlFailures, preview,
                   outcomes, alertVars, disturbed>>

\* Mutant: the skipped block is not passed.
SkipToolKept ==
    /\ pc = "dispatch"
    /\ blocks # << >>
    /\ Tripped /\ Head(blocks) = "run_custom_query"
    /\ calls' = ShowFailed("run_custom_query", "skipped")
    /\ UNCHANGED <<pc, history, chat, drafts, msgs, iteration, blocks, sqlFailures,
                   preview, outcomes, alertVars, disturbed>>

\* The circuit breaker answers in the tool's place.
SkipTool ==
    /\ pc = "dispatch"
    /\ blocks # << >>
    /\ Tripped /\ Head(blocks) = "run_custom_query"
    /\ calls' = ShowFailed("run_custom_query", "skipped")
    /\ blocks' = Tail(blocks)
    /\ UNCHANGED <<pc, history, chat, drafts, msgs, iteration, sqlFailures, preview,
                   outcomes, alertVars, disturbed>>

Returned(tool, result) ==
    /\ outcomes' = Append(outcomes, [tool |-> tool, result |-> result])
    /\ blocks' = Tail(blocks)
    /\ pc' = "dispatch"
    /\ UNCHANGED <<history, chat, drafts, msgs, iteration, alertVars, disturbed>>

\* The tool returned an error or raised, or its ten seconds are over.
ToolFailed ==
    /\ pc = "tool"
    /\ LET tool == Head(blocks)
       IN  /\ calls' = ShowFailed(tool, "error")
           /\ sqlFailures' = IF tool = "run_custom_query" THEN sqlFailures + 1
                                                          ELSE sqlFailures
           /\ Returned(tool, "error")
    /\ UNCHANGED preview

\* submit_alert only drafts: its preview travels with the turn.
ToolFinished ==
    /\ pc = "tool"
    /\ preview' = (preview \/ Head(blocks) = "submit_alert")
    /\ Returned(Head(blocks), "ok")
    /\ UNCHANGED <<calls, sqlFailures>>

\* Mutant: one iteration too many.
NextIterationOnceMore ==
    /\ pc = "dispatch"
    /\ blocks = << >>
    /\ iteration < MaxIterations
    /\ iteration' = iteration + 1
    /\ msgs' = Append(msgs, "results")
    /\ pc' = "asking"
    /\ UNCHANGED <<history, chat, drafts, blocks, sqlFailures, preview, calls, outcomes,
                   alertVars, disturbed>>

\* Every block has its result: the next iteration.
NextIteration ==
    /\ pc = "dispatch"
    /\ blocks = << >>
    /\ iteration + 1 < MaxIterations
    /\ iteration' = iteration + 1
    /\ msgs' = Append(msgs, "results")
    /\ pc' = "asking"
    /\ UNCHANGED <<history, chat, drafts, blocks, sqlFailures, preview, calls, outcomes,
                   alertVars, disturbed>>

\* "Hit max iterations without an end_turn."
Exhausted ==
    /\ pc = "dispatch"
    /\ blocks = << >>
    /\ iteration + 1 = MaxIterations
    /\ history' = Append(msgs, "results")
    /\ disturbed' = TRUE
    /\ FinishTurn(preview)
    /\ UNCHANGED alertVars

-----------------------------------------------------------------------------
(* Drafts and the conversation.                                            *)

Approve(d) ==
    /\ pc = "ready"
    /\ drafts[d].status = "pending"
    /\ posting' = d
    /\ approved' = approved \cup {d}
    /\ pc' = "posting"
    /\ UNCHANGED <<history, chat, drafts, turnVars, delivered, disturbed>>

Marked(d, status) == drafts' = [drafts EXCEPT ![d].status = status]

PostOver ==
    /\ posting' = 0
    /\ pc' = "ready"
    /\ UNCHANGED <<chat, turnVars, approved>>

\* post_alert_message answers ok: the draft is marked, the model is told.
PostOk ==
    /\ pc = "posting"
    /\ delivered' = delivered \cup {posting}
    /\ Marked(posting, "sent")
    /\ history' = Append(history, "note")
    /\ disturbed' = TRUE
    /\ PostOver

\* Mutant: the draft is marked before the answer is known.
PostFailsMarked ==
    /\ pc = "posting"
    /\ UNCHANGED delivered
    /\ Marked(posting, "sent")
    /\ UNCHANGED <<history, disturbed>>
    /\ PostOver

\* It does not: refused, or accepted and the answer lost.  The draft stays.
PostFails ==
    /\ pc = "posting"
    /\ delivered' \in {delivered, delivered \cup {posting}}
    /\ UNCHANGED <<history, drafts, disturbed>>
    /\ PostOver

\* Streamlit stops the script after the post, before the draft is marked or
\* between the mark and the note.
PostInterrupted ==
    /\ pc = "posting"
    /\ delivered' = delivered \cup {posting}
    /\ Marked(posting, "sent") \/ UNCHANGED drafts
    /\ UNCHANGED <<history, disturbed>>
    /\ PostOver

Discard(d) ==
    /\ pc = "ready"
    /\ drafts[d].status = "pending"
    /\ Marked(d, "dropped")
    /\ UNCHANGED <<pc, history, chat, turnVars, alertVars, disturbed>>

\* Streamlit stops the script in the middle of a turn: the generator is dropped.
TurnInterrupted ==
    /\ pc \in {"asking", "dispatch", "tool"}
    /\ pc' = "ready"
    /\ NoTurn
    /\ UNCHANGED <<history, chat, drafts, alertVars, disturbed>>

\* "Clear conversation".
Clear ==
    /\ pc = "ready"
    /\ history' = << >>
    /\ chat' = << >>
    /\ drafts' = << >>
    /\ disturbed' = FALSE
    /\ approved' = {}
    /\ delivered' = {}
    /\ UNCHANGED <<pc, turnVars, posting>>

-----------------------------------------------------------------------------

ToolStep == StartTool \/ SkipTool \/ ToolFailed \/ ToolFinished
RoundStep == NextIteration \/ Exhausted
PostStep == PostOk \/ PostFails

ApiStep ==
    \/ ApiFails
    \/ ApiSays
    \/ \E tools \in UNION {[1 .. n -> Tools] : n \in 1 .. MaxBlocks} : ApiCalls(tools)

Next ==
    \/ SubmitUserTurn
    \/ ApiStep
    \/ ToolStep
    \/ RoundStep
    \/ PostStep
    \/ PostInterrupted
    \/ TurnInterrupted
    \/ \E d \in DOMAIN drafts : Approve(d) \/ Discard(d)
    \/ Clear

\* The script runs on: the model's API answers or its client gives up, a tool ends
\* or times out, a post ends.  Nobody has to ask, approve or click.
Spec == Init /\ [][Next]_agentVars

FairSpec == Spec /\ WF_agentVars(ApiStep \/ ToolStep \/ RoundStep \/ PostStep)

-----------------------------------------------------------------------------
(* Properties.                                                             *)

\* Types of the session's and the turn's state.
TypeOK ==
    /\ pc \in {"ready", "asking", "dispatch", "tool", "posting"}
    /\ history \in Seq(Kinds)
    /\ chat \in Seq({"user", "assistant"})
    /\ drafts \in Seq([source : Nat, status : {"pending", "sent", "dropped"}])
    /\ msgs \in Seq(Kinds)
    /\ iteration \in 0 .. (MaxIterations - 1)
    /\ blocks \in Seq(Tools)
    /\ sqlFailures \in Nat
    /\ preview \in BOOLEAN
    /\ calls \in Seq([tool : Tools, started : BOOLEAN,
                      result : {"ok", "error", "skipped"}])
    /\ outcomes \in Seq([tool : Tools, result : {"ok", "error"}])
    /\ posting \in Nat
    /\ disturbed \in BOOLEAN
    /\ approved \subseteq Nat
    /\ delivered \subseteq approved

\* However long the conversation, trimming never parts a tool call from its
\* results, so that the API takes the request, as long as no turn ran out of
\* iterations and no note was added: these change the parity the trimming needs.
RequestIsPairedUnlessDisturbed ==
    pc = "asking" /\ ~disturbed => Paired(Trimmed(msgs))

\* "Anthropic messages alternate user/assistant; one round is two entries."
RequestIsPaired == pc = "asking" => Paired(Trimmed(msgs))

\* How many of the first k entries the page shows are of tools that were started.
Started(k) == Cardinality({j \in 1 .. k : calls[j].started})

FailedQuery == [tool |-> "run_custom_query", result |-> "error"]

\* The page shows every tool of the turn that was really run, in order, as failed
\* exactly when it failed; and of the queries no more fail than the breaker allows,
\* however they are spread over blocks and iterations.
TrailIsTrue ==
    /\ Started(Len(calls)) = Len(outcomes) + (IF pc = "tool" THEN 1 ELSE 0)
    /\ \A k \in DOMAIN calls :
          calls[k].started /\ Started(k) <= Len(outcomes) =>
             /\ calls[k].tool = outcomes[Started(k)].tool
             /\ (calls[k].result = "ok") = (outcomes[Started(k)].result = "ok")
    /\ Cardinality({i \in DOMAIN outcomes : outcomes[i] = FailedQuery})
          <= SQL_FAILURE_LIMIT

\* The only draft that can be approved is the newest, shown with the last answer of
\* the conversation; and what is shown as sent was approved and accepted, whatever
\* was interrupted in between.
DraftsAreCurrent ==
    /\ \A d \in DOMAIN drafts :
          /\ drafts[d].status = "pending" =>
                d = Len(drafts) /\ drafts[d].source = Len(chat)
          /\ drafts[d].status = "sent" => d \in delivered
    /\ posting # 0 => drafts[posting].status = "pending"

\* Whatever the model, the tools and the endpoint do, the analyst gets the page
\* back.
ScriptEnds == pc # "ready" ~> pc = "ready"
=============================================================================
