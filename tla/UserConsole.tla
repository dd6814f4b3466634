---------------------------- MODULE UserConsole -----------------------------
(***************************************************************************)
(* The page of a user (user-console-client.js): what it shows of the open  *)
(* conversation while requests overtake each other, the network comes and  *)
(* goes and sessions expire.  Every callback runs to its end; requests are *)
(* answered in any order, or fail.                                         *)
(*                                                                         *)
(* A conversation is represented by the version of its runs on the server: *)
(* an odd one has an active run.  Lists of workspaces and conversations,   *)
(* texts and the rendering itself are left out.                            *)
(***************************************************************************)
EXTENDS Integers, Sequences, SequencesExt

CONSTANTS
  Conversation,
  MaxVersion,    \* bound on the changes of a conversation; not all reach it
  MaxInFlight,   \* bound on the refreshes that are not settled
  Null

\* What the proofs use of the constants: nothing that stands for a conversation
\* or for what a submission waits for stands for its absence.
Configured ==
  /\ Null \notin Conversation
  /\ Null \notin [for : Conversation \cup {Null}]
  /\ MaxVersion \in Nat /\ MaxInFlight \in Nat

VARIABLES
  S,          \* the page's state, the refreshes under way included
  server,     \* Conversation -> version of its runs, 0 when there is none
  post,       \* what sendMessage is waiting for, or Null
  leaving,    \* the workspace was changed, its conversations are not here yet
  seen        \* history: newest version applied since the conversation was
              \* opened and the user signed in, 0 for none

vars == <<S, server, post, leaving, seen>>

\* Of an api call; an HTTP error is any refusal but 401.
Outcome == {"ok", "network", "http", "unauthorized"}

Active(version) == version % 2 = 1

Changes(c, by) ==
  /\ server' = [server EXCEPT ![c] = @ + by]
  /\ server'[c] =< MaxVersion /\ ~(\A d \in Conversation : server'[d] = MaxVersion)

Init ==
  /\ S = [signedIn |-> FALSE, open |-> Null, page |-> [of |-> Null, version |-> 0],
          requests |-> <<>>, timer |-> FALSE, netDown |-> FALSE,
          sending |-> FALSE, refused |-> FALSE]
  /\ server = [c \in Conversation |-> 0]
  /\ post = Null /\ leaving = FALSE /\ seen = 0

-----------------------------------------------------------------------------
(* Functions of the page *)

StopPoll(s) == [s EXCEPT !.timer = FALSE]

\* Whatever is open, and however old its runs are.
SchedulePoll(s) ==
  IF s.open # Null /\ Active(s.page.version)
  THEN [s EXCEPT !.timer = TRUE]
  ELSE StopPoll(s)

\* refreshSeq: only the newest refresh may still write.
RefreshConversation(s, then) ==
  IF s.open = Null THEN s
  ELSE [s EXCEPT !.requests =
          Append([i \in DOMAIN s.requests |-> [s.requests[i] EXCEPT !.newest = FALSE]],
                 [for |-> s.open, newest |-> TRUE, stage |-> "asked", version |-> 0,
                  then |-> then])]

\* The outputs are cleared, the runs of the conversation before are not.
OpenConversation(s, c, then) ==
  RefreshConversation([StopPoll(s) EXCEPT !.open = c, !.refused = FALSE], then)

ShowHeroMode(s) ==
  StopPoll([s EXCEPT !.open = Null, !.page = [of |-> Null, version |-> 0]])

Logout(s) == StopPoll([s EXCEPT !.signedIn = FALSE, !.netDown = FALSE])

NoteNetOk(s) ==
  IF s.netDown THEN RefreshConversation([s EXCEPT !.netDown = FALSE], "plain") ELSE s
NoteNetFail(s) == [s EXCEPT !.netDown = TRUE]

\* The part of api that every call has in common; without a session the
\* server knows nobody.
Api(s, outcome) ==
  CASE outcome = "ok"           -> NoteNetOk(s)
    [] outcome = "network"      -> NoteNetFail(s)
    [] outcome = "http"         -> s
    [] outcome = "unauthorized" -> Logout(s)

Answers(outcome) == outcome = "ok" => S.signedIn

Becomes(s) ==
  /\ Len(s.requests) =< MaxInFlight
  /\ S' = s

-----------------------------------------------------------------------------
(* The promise of a refresh *)

\* What waits for it: openConversation schedules the poll anew, whether its
\* answer was used or not, and sendMessage unlocks the button.
Settle(s, i) ==
  LET then == s.requests[i].then
      rest == [s EXCEPT !.requests = RemoveAt(@, i)]
  IN CASE then = "plain" -> rest
       [] then = "open"  -> SchedulePoll(rest)
       [] then = "sent"  -> [SchedulePoll(rest) EXCEPT !.sending = FALSE]

\* openConversation says so; a poll, noteNetOk and the online event do not.
\* The field refused is a history of HTTP errors since the last answer.
Reject(s, i, outcome) ==
  LET rest == [s EXCEPT !.requests = RemoveAt(@, i), !.refused = @ \/ outcome = "http"]
  IN IF s.requests[i].then = "sent" THEN [rest EXCEPT !.sending = FALSE] ELSE rest

\* Mutant of Current: any refresh of the open conversation.
IsOpen(s, i) == s.requests[i].for = s.open

Current(s, i) == s.requests[i].for = s.open /\ s.requests[i].newest

Apply(s, i) ==
  [s EXCEPT !.page = [of |-> s.requests[i].for, version |-> s.requests[i].version],
            !.requests[i].stage = "texts", !.refused = FALSE]

\* The server reads the conversation.
Serve(i) ==
  /\ i \in DOMAIN S.requests /\ S.requests[i].stage = "asked"
  /\ S' = [S EXCEPT !.requests[i].stage = "served",
                    !.requests[i].version = server[S.requests[i].for]]
  /\ UNCHANGED <<server, post, leaving, seen>>

ListAnswered(i, outcome) ==
  /\ i \in DOMAIN S.requests
  /\ IF outcome = "ok" THEN S.requests[i].stage = "served" ELSE S.requests[i].stage = "asked"
  /\ Answers(outcome)
  /\ LET s == Api(S, outcome) IN
       IF outcome # "ok" THEN Becomes(Reject(s, i, outcome)) /\ UNCHANGED seen
       ELSE IF Current(s, i)
       THEN /\ Becomes(Apply(s, i))
            /\ seen' = IF s.requests[i].version > seen THEN s.requests[i].version ELSE seen
       ELSE Becomes(Settle(s, i)) /\ UNCHANGED seen
  /\ UNCHANGED <<server, post, leaving>>

\* loadOutput of the runs and loadFacts of the last one are through, which may
\* ask for nothing; their failures are swallowed.
TextsLoaded(i) ==
  /\ i \in DOMAIN S.requests /\ S.requests[i].stage = "texts"
  /\ Becomes(Settle(IF Current(S, i) THEN SchedulePoll(S) ELSE S, i))
  /\ UNCHANGED <<server, post, leaving, seen>>

\* Any other answer: of a text, the queue, the events or a list.  An HTTP error
\* is shown and changes nothing.
OtherAnswered(outcome) ==
  /\ outcome # "http" /\ Answers(outcome)
  /\ Becomes(Api(S, outcome))
  /\ UNCHANGED <<server, post, leaving, seen>>

-----------------------------------------------------------------------------
(* What the user and the browser do *)

\* doAuthLogin, doKeyLogin; the page is where it was before, and neither
\* refreshes it nor polls again.
Login ==
  /\ ~S.signedIn
  /\ Becomes([NoteNetOk(S) EXCEPT !.signedIn = TRUE])
  /\ seen' = 0
  /\ UNCHANGED <<server, post, leaving>>

LogoutClicked ==
  /\ S.signedIn
  /\ Becomes(Logout(S))
  /\ UNCHANGED <<server, post, leaving, seen>>

\* convList.onclick, or the address at the start.
Open(c) ==
  /\ S.signedIn /\ server[c] > 0
  /\ Becomes(OpenConversation(S, c, "open"))
  /\ seen' = 0
  /\ UNCHANGED <<server, post, leaving>>

NewChat ==
  /\ S.signedIn
  /\ Becomes(ShowHeroMode(S))
  /\ seen' = 0
  /\ UNCHANGED <<server, post, leaving>>

\* workspaceSel.onchange: the poll goes on and the thread stays until then.
ChangeWorkspace ==
  /\ S.signedIn
  /\ S' = [S EXCEPT !.open = Null]
  /\ leaving' = TRUE
  /\ seen' = 0
  /\ UNCHANGED <<server, post>>

\* Then the hero is shown, whatever was opened meanwhile.
ConversationsAnswered(outcome) ==
  /\ leaving /\ Answers(outcome)
  /\ leaving' = FALSE
  /\ LET s == Api(S, outcome) IN
       IF outcome = "ok" THEN Becomes(ShowHeroMode(s)) /\ seen' = 0
                         ELSE Becomes(s) /\ UNCHANGED seen
  /\ UNCHANGED <<server, post>>

\* One submission at a time.
SendMessage ==
  /\ S.signedIn /\ ~S.sending
  /\ S' = [S EXCEPT !.sending = TRUE]
  /\ post' = [for |-> S.open]
  /\ UNCHANGED <<server, leaving, seen>>

\* The conversation is created when none was open, then the message is stored;
\* its conversation is opened, wherever the user is by then.
PostAnswered(outcome) ==
  /\ post # Null /\ Answers(outcome)
  /\ LET s == Api(S, outcome) IN
       IF outcome # "ok"
       THEN Becomes([s EXCEPT !.sending = FALSE]) /\ UNCHANGED <<server, seen>>
       ELSE \E c \in Conversation :
              /\ IF post.for = Null THEN server[c] = 0 ELSE c = post.for
              /\ Changes(c, IF Active(server[c]) THEN 2 ELSE 1)
              /\ Becomes(OpenConversation(s, c, "sent"))
              /\ seen' = 0
  /\ post' = Null
  /\ UNCHANGED leaving

\* interruptRun, resumeRun and resolveUnknownEffect, of a run that the thread
\* showed when its button was pressed; what is open by now is refreshed.  A
\* command that fails does no more than OtherAnswered.
CommandAnswered(c) ==
  /\ server[c] > 0 /\ Answers("ok")
  /\ Changes(c, 1)
  /\ Becomes(RefreshConversation(Api(S, "ok"), "plain"))
  /\ UNCHANGED <<post, leaving, seen>>

\* The interval, with the page visible, and the browser's online event.
Tick ==
  /\ S.timer
  /\ Becomes(RefreshConversation(S, "plain"))
  /\ UNCHANGED <<server, post, leaving, seen>>

Online ==
  /\ Becomes(RefreshConversation(S, "plain"))
  /\ UNCHANGED <<server, post, leaving, seen>>

\* The browser says that it is offline.
Offline ==
  /\ S' = NoteNetFail(S)
  /\ UNCHANGED <<server, post, leaving, seen>>

\* A run of a conversation ends.
RunEnds(c) ==
  /\ Active(server[c]) /\ Changes(c, 1)
  /\ UNCHANGED <<S, post, leaving, seen>>

Next ==
  \/ Login \/ LogoutClicked \/ NewChat \/ ChangeWorkspace \/ SendMessage
  \/ Tick \/ Online \/ Offline
  \/ \E c \in Conversation : Open(c) \/ CommandAnswered(c) \/ RunEnds(c)
  \/ \E i \in 1..MaxInFlight : Serve(i) \/ TextsLoaded(i)
  \/ \E outcome \in Outcome :
       \/ ConversationsAnswered(outcome) \/ PostAnswered(outcome) \/ OtherAnswered(outcome)
       \/ \E i \in 1..MaxInFlight : ListAnswered(i, outcome)

Spec == Init /\ [][Next]_vars

-----------------------------------------------------------------------------
(* Properties *)

TypeOK ==
  /\ S.open \in Conversation \cup {Null}
  /\ S.page \in [of : Conversation \cup {Null}, version : 0..MaxVersion]
  /\ Len(S.requests) =< MaxInFlight
  /\ server \in [Conversation -> 0..MaxVersion]
  /\ seen \in 0..MaxVersion

\* Once an answer for the open conversation has arrived the page stays with
\* it: neither a late answer for another one, nor an older answer for the same
\* one, is ever shown.  While such a page knows of an active run it keeps
\* polling, unless a refresh is under way, it says that its state may be out
\* of date, or the server refused the last refresh.  The button
\* is locked exactly while a submission is under way.
PageFollowsConversation ==
  /\ seen > 0 => S.page = [of |-> S.open, version |-> seen]
  /\ seen > 0 /\ S.signedIn /\ Active(S.page.version) =>
       S.timer \/ S.requests # <<>> \/ S.netDown \/ S.refused
  /\ S.sending <=> \/ post # Null
                   \/ \E i \in DOMAIN S.requests : S.requests[i].then = "sent"
=============================================================================
