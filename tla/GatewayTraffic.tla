--------------------------- MODULE GatewayTraffic ---------------------------
(***************************************************************************)
(* What the LLM gateway changes in the traffic of one session: a request   *)
(* whose history outgrows the context budget loses its oldest turns        *)
(* (context-budget.ts) and gets its stable part in front (prompt-prefix),  *)
(* and the arguments of a streamed tool call that the backend truncated    *)
(* are closed (tool-call-argument-repair.ts).  The session, which is Pi's, *)
(* grows by messages of any size; its calls are answered by tool results.  *)
(*                                                                         *)
(* A message is its role, its estimated size, its own id and, for a tool   *)
(* result, the id of the call.  JSON is a sequence of symbols: brackets,   *)
(* "," and ":", "q" a quote, "b" a backslash, "1" a digit, "w" white space *)
(* and "x" any other character of a string.                                *)
(***************************************************************************)
EXTENDS Integers, Sequences, FiniteSets, FiniteSetsExt, SequencesExt

CONSTANTS
  Budget,        \* contextBudgetTokens, 0 when compaction is off
  NoticeTokens,  \* of the notice that replaces what is dropped
  ToolsTokens,   \* of the tool definitions
  Sizes,         \* of messages
  Documents,     \* arguments a model writes
  MaxMessages    \* bound on the history

Symbol == {"{", "}", "[", "]", ",", ":", "q", "b", "1", "w", "x"}

\* What the proofs use of the constants.
Configured ==
  /\ Budget \in Nat /\ NoticeTokens \in Nat /\ ToolsTokens \in Nat
  /\ Sizes \subseteq Nat /\ MaxMessages \in Nat /\ Documents \subseteq Seq(Symbol)

VARIABLES
  history,    \* the session's messages
  forwarded,  \* the messages of the last request, as a backend got them
  document,   \* the arguments the model is writing, or <<>>
  arguments,  \* what the tracker has accumulated of them
  delivered   \* the arguments of a call as the client got them, until it goes on

vars == <<history, forwarded, document, arguments, delivered>>

Message ==
  [role : {"system", "user", "assistant", "tool"}, size : Nat, id : Nat, call : Nat]

New(role, size, id, call) == [role |-> role, size |-> size, id |-> id, call |-> call]
Notice == New("system", NoticeTokens, 0, 0)

Init ==
  /\ history = <<>> /\ forwarded = <<>>
  /\ document = <<>> /\ arguments = <<>> /\ delivered = <<>>

-----------------------------------------------------------------------------
(* context-budget.ts *)

Tokens[messages \in Seq(Message)] ==
  IF messages = <<>> THEN 0 ELSE Tokens[Front(messages)] + Last(messages).size

\* The system messages, and the conversation.
Parts[messages \in Seq(Message)] ==
  IF messages = <<>> THEN [system |-> <<>>, talk |-> <<>>]
  ELSE LET parts == Parts[Front(messages)]
           m == Last(messages)
       IN  IF m.role = "system" THEN [parts EXCEPT !.system = Append(@, m)]
           ELSE [parts EXCEPT !.talk = Append(@, m)]

System(messages) == Parts[messages].system
Talk(messages) == Parts[messages].talk

\* Mutant of TurnStarts: every message is a turn.
MessageStarts(talk) == DOMAIN talk

\* A turn is a user message and what follows up to the next one.
TurnStarts(talk) == {i \in DOMAIN talk : i = 1 \/ talk[i].role = "user"}

LatestFrom(talk, i) == SubSeq(talk, i, Len(talk))

\* Where the latest turns begin that fit with what is always sent; at least
\* one is kept.
KeptFrom(talk, fixed) ==
  Min({Max(TurnStarts(talk))}
        \cup {i \in TurnStarts(talk) : fixed + Tokens[LatestFrom(talk, i)] =< Budget})

\* The turns kept start with a user message, so dropLeadingOrphanToolMessages
\* finds none.
CompactConversation(messages) ==
  LET talk == Talk(messages)
      from == KeptFrom(talk, Tokens[System(messages)] + ToolsTokens + NoticeTokens)
  IN IF Budget = 0 \/ talk = <<>> \/ from = 1 THEN messages
     ELSE System(messages) \o <<Notice>> \o LatestFrom(talk, from)

\* prompt-prefix.ts: the system messages in front; the tools, sorted by name,
\* are left out.
NormalizePromptForPrefixCache(messages) == System(messages) \o Talk(messages)

-----------------------------------------------------------------------------
(* tool-call-argument-repair.ts *)

Opening == {"{", "["}
Closing == {"}", "]"}
Closer(c) == IF c = "{" THEN "}" ELSE "]"

\* inString and escape as one mode: an escape is inside a string.
ScanJsonState[text \in Seq(Symbol)] ==
  IF text = <<>> THEN [mode |-> "plain", stack |-> <<>>]
  ELSE LET s == ScanJsonState[Front(text)]
           c == Last(text)
       IN CASE s.mode = "escape"             -> [s EXCEPT !.mode = "string"]
            [] s.mode = "string" /\ c = "b"  -> [s EXCEPT !.mode = "escape"]
            [] s.mode = "string" /\ c = "q"  -> [s EXCEPT !.mode = "plain"]
            [] s.mode = "plain" /\ c = "q"   -> [s EXCEPT !.mode = "string"]
            [] s.mode = "plain" /\ c \in Opening -> [s EXCEPT !.stack = Append(@, Closer(c))]
            [] s.mode = "plain" /\ c \in Closing /\ s.stack # <<>> -> [s EXCEPT !.stack = Front(@)]
            [] OTHER -> s

\* JSON.parse: at is what was read last, stack what is open.
Fail(s) == [s EXCEPT !.at = "error"]
Value == {"value", "number"}

ReadValue(s, c) ==
  CASE c = "q"        -> [s EXCEPT !.at = "string"]
    [] c = "1"        -> [s EXCEPT !.at = "number"]
    [] c \in Opening  -> [at |-> c, stack |-> Append(s.stack, Closer(c))]
    [] OTHER          -> Fail(s)

ReadComma(s) ==
  IF s.stack = <<>> THEN Fail(s)
  ELSE [s EXCEPT !.at = IF Last(s.stack) = "}" THEN "member" ELSE "element"]

ReadCloser(s, c) ==
  IF s.stack # <<>> /\ Last(s.stack) = c THEN [at |-> "value", stack |-> Front(s.stack)]
  ELSE Fail(s)

\* White space between tokens ends a number and means nothing else.
ReadBlank(s) == IF s.at = "number" THEN [s EXCEPT !.at = "value"] ELSE s

ReadToken(s, c) ==
  CASE s.at = "string" /\ c = "b"   -> [s EXCEPT !.at = "stringEscape"]
    [] s.at = "string" /\ c = "q"   -> [s EXCEPT !.at = "value"]
    [] s.at = "key" /\ c = "b"      -> [s EXCEPT !.at = "keyEscape"]
    [] s.at = "key" /\ c = "q"      -> [s EXCEPT !.at = "named"]
    [] s.at \in {"string", "key"} /\ c \notin {"b", "q"} -> s
    [] s.at = "stringEscape"        -> [s EXCEPT !.at = "string"]
    [] s.at = "keyEscape"           -> [s EXCEPT !.at = "key"]
    [] s.at \in {"start", "colon", "element"} -> ReadValue(s, c)
    [] s.at = "["                   -> IF c = "]" THEN ReadCloser(s, c) ELSE ReadValue(s, c)
    [] s.at = "{" /\ c = "}"        -> ReadCloser(s, c)
    [] s.at \in {"{", "member"} /\ c = "q" -> [s EXCEPT !.at = "key"]
    [] s.at = "named" /\ c = ":"    -> [s EXCEPT !.at = "colon"]
    [] s.at = "number" /\ c = "1"   -> s
    [] s.at \in Value /\ c = ","    -> ReadComma(s)
    [] s.at \in Value /\ c \in Closing -> ReadCloser(s, c)
    [] OTHER                        -> Fail(s)

Text == {"string", "key", "stringEscape", "keyEscape"}

ReadSymbol(s, c) == IF c = "w" /\ s.at \notin Text THEN ReadBlank(s) ELSE ReadToken(s, c)

Read[text \in Seq(Symbol)] ==
  IF text = <<>> THEN [at |-> "start", stack |-> <<>>]
  ELSE ReadSymbol(Read[Front(text)], Last(text))

Parsed(text) == Read[text].at \in Value /\ Read[text].stack = <<>>

Dropped == {",", "w"}

\* Up to the last symbol that is neither a comma nor white space.
WithoutTail(text) ==
  SubSeq(text, 1, Max({0} \cup {i \in DOMAIN text : text[i] \notin Dropped}))

\* What is left open is closed.
Close(text) ==
  LET strip == WithoutTail(text)
      whole == IF ScanJsonState[strip].mode = "escape" THEN Front(strip) ELSE strip
      working == IF ScanJsonState[whole].mode = "string" THEN Append(whole, "q") ELSE whole
  IN [working |-> working, closed |-> working \o Reverse(ScanJsonState[working].stack)]

\* What is left when the last member is given up, <<>> when there is none.
Shortened(text) ==
  LET working == Close(text).working
  IN SubSeq(working, 1, Max({1} \cup {i \in DOMAIN working : working[i] = ","}) - 1)

\* At most five attempts, of which the first that gives JSON counts.
RepairTruncatedJson(text) ==
  LET candidate[n \in 1..5] == IF n = 1 THEN text ELSE Shortened(candidate[n - 1])
      tries == {n \in 1..5 : Parsed(Close(candidate[n]).closed)}
  IN IF text = <<>> \/ Parsed(text) \/ tries = {} THEN <<>>
     ELSE Close(candidate[Min(tries)]).closed

\* ToolCallArgumentTracker.repairs: only what can be appended is sent.
Repaired(text) ==
  LET repaired == RepairTruncatedJson(text) IN
    IF repaired # <<>> /\ IsPrefix(text, repaired) THEN repaired ELSE text

-----------------------------------------------------------------------------
(* A session *)

Add(role, size, call) == New(role, size, Len(history) + 1, call)

\* Nothing is being answered.
Quiet == document = <<>> /\ Len(history) < MaxMessages

UserSays(size) ==
  /\ Quiet
  /\ history' = Append(history, Add("user", size, 0))
  /\ delivered' = <<>>
  /\ UNCHANGED <<forwarded, document, arguments>>

SystemSays(size) ==
  /\ Quiet
  /\ history' = Append(history, Add("system", size, 0))
  /\ delivered' = <<>>
  /\ UNCHANGED <<forwarded, document, arguments>>

\* handleChatCompletions, up to the choice of a backend.
Forward ==
  /\ Quiet /\ Talk(history) # <<>>
  /\ Last(Talk(history)).role \in {"user", "tool"}
  /\ forwarded' = NormalizePromptForPrefixCache(CompactConversation(history))
  /\ delivered' = <<>>
  /\ UNCHANGED <<history, document, arguments>>

Asked == Quiet /\ forwarded # <<>> /\ Last(forwarded) = Last(Talk(history))

Answer(size) ==
  /\ Asked
  /\ history' = Append(history, Add("assistant", size, 0))
  /\ delivered' = <<>>
  /\ UNCHANGED <<forwarded, document, arguments>>

CallTool(d) ==
  /\ Asked
  /\ document' = d
  /\ arguments' = <<>>
  /\ UNCHANGED <<history, forwarded, delivered>>

\* ToolCallArgumentTracker.observe: another chunk.
Observe(n) ==
  /\ document # <<>> /\ Len(arguments) + n =< Len(document)
  /\ arguments' = SubSeq(document, 1, Len(arguments) + n)
  /\ UNCHANGED <<history, forwarded, document, delivered>>

\* The finish_reason is here, with or without the last symbols; the call
\* and its result, or the error it ends with, join the history.
Finish(size) ==
  /\ document # <<>> /\ Len(history) + 2 =< MaxMessages
  /\ delivered' = [document |-> document, received |-> arguments, text |-> Repaired(arguments)]
  /\ history' = history \o <<Add("assistant", size, 0),
                             New("tool", size, Len(history) + 2, Len(history) + 1)>>
  /\ document' = <<>> /\ arguments' = <<>>
  /\ UNCHANGED forwarded

\* A stream that ends early is not repaired.
Break ==
  /\ document # <<>>
  /\ document' = <<>> /\ arguments' = <<>>
  /\ UNCHANGED <<history, forwarded, delivered>>

Next ==
  \/ Forward \/ Break
  \/ \E size \in Sizes : UserSays(size) \/ SystemSays(size) \/ Answer(size) \/ Finish(size)
  \/ \E d \in Documents : CallTool(d)
  \/ \E n \in 1..2 : Observe(n)

Spec == Init /\ [][Next]_vars

-----------------------------------------------------------------------------
(* Properties *)

\* The history when the last request was forwarded.
LastId == Max({m.id : m \in ToSet(forwarded)})
Past == SubSeq(history, 1, LastId)

\* A session can always go on: a request ends with the history's latest
\* messages in their order; it fits the budget, or has nothing but one turn;
\* nothing that fits was dropped; a dropped part is announced, and no tool
\* result is sent without its call; the stable part comes first.
Usable(request, past) ==
  LET kept == Talk(request)
      all == Talk(past)
      dropped == SubSeq(all, 1, Len(all) - Len(kept))
  IN /\ IsSuffix(kept, all)
     /\ request = System(past) \o (IF kept = all THEN <<>> ELSE <<Notice>>) \o kept
     /\ \A m \in ToSet(kept) : m.role = "tool" => \E n \in ToSet(kept) : n.id = m.call
     /\ Budget > 0 => \/ Tokens[request] + ToolsTokens =< Budget
                      \/ Cardinality({m \in ToSet(kept) : m.role = "user"}) =< 1
     /\ kept # all =>
          Tokens[request] + ToolsTokens
            + Tokens[LatestFrom(dropped, Max(TurnStarts(dropped)))] > Budget

RequestsStayUsable == forwarded # <<>> => Usable(forwarded, Past)

\* Arguments reach the client as the backend sent them, or closed to JSON by an
\* addition at their end; and when all that was lost of a text is brackets that
\* close it, as the model wrote them, with one exception of the code: white
\* space before the lost brackets, as in indented JSON, is stripped by the
\* repair, which is then no addition, and the client gets the broken text.
ArgumentsAreRestored ==
  delivered # <<>> =>
    /\ IsPrefix(delivered.received, delivered.text)
    /\ delivered.text # delivered.received => Parsed(delivered.text) /\ ~Parsed(delivered.received)
    /\ Parsed(delivered.document)
         /\ ToSet(SubSeq(delivered.document, Len(delivered.received) + 1, Len(delivered.document)))
              \subseteq Closing
         => delivered.text = IF Last(delivered.received) = "w"
                             THEN delivered.received ELSE delivered.document

TypeOK ==
  /\ Len(history) =< MaxMessages
  /\ \A i \in DOMAIN history : history[i].id = i
  /\ document \in Documents \cup {<<>>}
  /\ IsPrefix(arguments, document)

TrafficStaysUsable == RequestsStayUsable /\ ArgumentsAreRestored
=============================================================================
